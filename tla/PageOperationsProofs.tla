------------------------ MODULE PageOperationsProofs ------------------------
(***************************************************************************)
(* Proofs about PageOperations, for any table and any number of calls and   *)
(* dialogs: FailuresTold, DraftSurvivesFailure, SubmittedOnce and           *)
(* BulkHitsShown. FailuresTold is inductive as it stands. A form that is    *)
(* gone was closed by a success (DialogBody). That work is submitted once   *)
(* has one argument for the controls that wait for isPending                *)
(* (ObserverBody: the latest call is the only one awaited, and it closes    *)
(* its form) and one for those that are marked row by row (MarksBody: the   *)
(* rows of awaited calls are marked and disjoint). What is needed of the    *)
(* operations themselves is OperationsAssumption.                           *)
(***************************************************************************)
EXTENDS PageOperations, FiniteSetTheorems, WellFoundedInduction, TLAPS

\* Calls whose answer is awaited by a page that is still there.
Awaited(c) == calls[c].live /\ calls[c].at = "sent"

\* A call bears the number of the dialog that made it.
Numbered == \A c \in DOMAIN calls : calls[c].n <= form.n

Asked == form.open => op.ask # "none"

\* A dialog closed by an answer was closed by a success: of its own, or of an
\* earlier dialog.
ClosedByAnswer ==
    form.closed # 0 =>
        \/ form.closed < form.n
        \/ \E d \in DOMAIN calls : calls[d].n = form.n /\ calls[d].at = "ok"

\* Controls that wait for isPending, one call at a time.
ByObserver == op.held \in {"pending", "busy"} /\ op.fan = "one"

\* The control of an observer waits for its latest call, so there is no other;
\* a confirmation opens while there is none at all.
OneAwaited ==
    ByObserver =>
        /\ \A c \in DOMAIN calls : Awaited(c) => c = Len(calls)
        /\ form.open /\ op.ask # "form" => \A c \in DOMAIN calls : ~Awaited(c)

\* A form is gone once a call of it has succeeded, or as it is submitted.
FormSpent ==
    ByObserver /\ op.ask = "form" =>
        \A c \in DOMAIN calls :
            calls[c].live /\ calls[c].n = form.n /\ (calls[c].at = "ok" \/ op.close = "submit")
                => ~form.open

FormOnce ==
    ByObserver /\ op.ask = "form" =>
        \A c, d \in DOMAIN calls :
            c # d /\ calls[c].live /\ calls[d].live /\ calls[c].n = calls[d].n
                => calls[c].at = "failed" \/ calls[d].at = "failed"

\* Controls that are disabled row by row until the answer is in.
ByMarks ==
    /\ op.held \in {"start flag", "own marks"} \/ (op.held = "hook marks" /\ ~op.expires)
    /\ op.fan = "one"

\* The rows of the calls under way are marked, no row is in two of them, and a
\* confirmation is for none of them.
RowsApart ==
    ByMarks =>
        /\ \A c \in DOMAIN calls : Awaited(c) => calls[c].rows \subseteq marks
        /\ \A c, d \in DOMAIN calls :
              c # d /\ Awaited(c) /\ Awaited(d) => calls[c].rows \cap calls[d].rows = {}
        /\ form.open =>
              \A c \in DOMAIN calls : Awaited(c) => calls[c].rows \cap form.rows = {}

\* isStarting is one flag for the page, taken before the reason is asked for.
FlagForPage ==
    ByMarks /\ op.held = "start flag" =>
        /\ \A c \in DOMAIN calls : calls[c].rows = {Whole}
        /\ form.open => form.rows = {Whole} /\ marks = {Whole}

DialogBody == Numbered /\ Asked /\ ClosedByAnswer

ObserverBody == OneAwaited /\ FormSpent /\ FormOnce

MarksBody == RowsApart /\ FlagForPage

OpsBody == DialogBody /\ ObserverBody /\ MarksBody

OpsInv == TypeOK /\ OpsBody

-----------------------------------------------------------------------------
\* The rows of a bulk operation, one by one

\* A part of the table is finite and no larger than the table.
LEMMA PartOfTable ==
    ASSUME NEW S \in SUBSET Rows
    PROVE  IsFiniteSet(S) /\ Cardinality(S) \in 0..Cardinality(Rows)
  <1>1. IsFiniteSet(S) /\ Cardinality(S) <= Cardinality(Rows)
    BY FS_Subset, RowsAssumption
  <1>2. Cardinality(S) \in Nat /\ Cardinality(Rows) \in Nat
    BY <1>1, FS_CardinalityType, RowsAssumption
  <1> QED  BY <1>1, <1>2

LEMMA Least ==
    ASSUME NEW T \in SUBSET Nat, T # {}
    PROVE  \E n \in T : \A m \in T : n <= m
  <1> DEFINE R == {ss \in Nat \X Nat : ss[1] < ss[2]}
  <1>1. IsWellFoundedOn(R, Nat)
    BY NatLessThanWellFounded DEF OpToRel
  <1> HIDE DEF R
  <1>2. PICK n \in T : \A m \in T : ~(<<m, n>> \in R)
    BY <1>1, WFMin
  <1>3. \A m \in T : ~(m < n)
    BY <1>2 DEF R
  <1> QED  BY <1>3

Before(S, r) == {x \in S : x < r}

\* The rows of a finite set can be taken in order: for each place there is a
\* row that has so many before it.
LEMMA InOrder ==
    ASSUME NEW S \in SUBSET Nat, IsFiniteSet(S)
    PROVE  \A i \in 1..Cardinality(S) : \E r \in S : Cardinality(Before(S, r)) = i - 1
  <1> DEFINE Without == {i \in 1..Cardinality(S) : ~\E r \in S : Cardinality(Before(S, r)) = i - 1}
  <1> SUFFICES ASSUME Without # {}
               PROVE  FALSE
    OBVIOUS
  <1>0. Cardinality(S) \in Nat
    BY FS_CardinalityType
  <1>1. Without \in SUBSET Nat
    BY <1>0
  <1>2. PICK i \in Without : \A j \in Without : i <= j
    BY <1>1, Least
  <1>3. i \in 1..Cardinality(S) /\ ~\E r \in S : Cardinality(Before(S, r)) = i - 1
    BY <1>2
  <1>4. CASE i = 1
    <2>1. S # {}
      BY <1>3, <1>0, FS_EmptySet
    <2>2. PICK r \in S : \A x \in S : r <= x
      BY <2>1, Least
    <2>3. Before(S, r) = {}
      <3>1. \A x \in S : ~(x < r)
        BY <2>2
      <3> QED  BY <3>1, Zenon DEF Before
    <2> QED  BY <2>3, <1>3, <1>4, FS_EmptySet
  <1>5. CASE i # 1
    <2>1. i - 1 \in 1..Cardinality(S) /\ i - 1 \notin Without
      BY <1>5, <1>3, <1>2, <1>0
    <2>2. PICK q \in S : Cardinality(Before(S, q)) = i - 2
      BY <2>1
    <2> DEFINE Low == Before(S, q) \cup {q}
               High == S \ Low
    <2>3. IsFiniteSet(Before(S, q))
      BY FS_Subset DEF Before
    <2>4. q \notin Before(S, q)
      BY DEF Before
    <2>5. Cardinality(Low) = i - 1
      <3>1. Cardinality(Low) = Cardinality(Before(S, q)) + 1
        <4> HIDE DEF Low
        <4>1. Low = Before(S, q) \cup {q}
          BY DEF Low
        <4> QED  BY <4>1, <2>3, <2>4, FS_AddElement, Zenon
      <3> QED  BY <3>1, <2>2, <1>3, <1>0
    <2>6. Low # S
      BY <2>5, <1>3, <1>0
    <2>7. High \in SUBSET Nat /\ High # {}
      BY <2>6 DEF Before
    <2>8. PICK r \in High : \A x \in High : r <= x
      BY <2>7, Least
    <2>9. Before(S, r) = Low
      <3>1. \A x \in S : x \in High <=> ~(x < q) /\ x # q
        BY <2>4 DEF Before
      <3>2. q < r
        BY <2>8, <3>1
      <3>3. ASSUME NEW x \in S PROVE x < r <=> x < q \/ x = q
        <4>1. x \in High => ~(x < r)
          BY <2>8
        <4> QED  BY <4>1, <3>1, <3>2
      <3> QED  BY <3>3, <2>2, Zenon DEF Before
    <2> QED  BY <2>9, <2>5, <1>3, <2>8
  <1> QED  BY <1>4, <1>5

LEMMA ShownInTable ==
    ASSUME TypeOK
    PROVE  Shown \subseteq Rows
  BY DEF TypeOK, Shown, OnPage

\* What an operation is started for.
LEMMA TargetRows ==
    ASSUME TypeOK, NEW rows \in Targets
    PROVE  /\ rows \subseteq Rows \cup {Whole} /\ rows # {}
           /\ op.start = "page" => rows = {Whole}
           /\ op.start = "ticked" => rows \subseteq ticked \cap Shown
  <1>1. ticked \subseteq Rows /\ Shown \subseteq Rows
    BY ShownInTable DEF TypeOK
  <1> QED  BY <1>1 DEF Targets

LEMMA RowsAreFinite ==
    ASSUME NEW rows \in SUBSET (Rows \cup {Whole})
    PROVE  rows \in SUBSET Nat /\ IsFiniteSet(rows) /\ Cardinality(rows) \in Nat
  <1>1. IsFiniteSet(Rows \cup {Whole})
    BY FS_AddElement, RowsAssumption
  <1>2. IsFiniteSet(rows)
    BY <1>1, FS_Subset
  <1> QED  BY <1>2, FS_CardinalityType, RowsAssumption DEF Whole

NewCall(rows) ==
    [at |-> "sent", n |-> form.n, rows |-> rows, live |-> TRUE, told |-> FALSE, excused |-> FALSE]

LEMMA SentOne ==
    ASSUME op.fan = "one", NEW rows
    PROVE  Sent(rows) = <<NewCall(rows)>>
  BY DEF Sent, NewCall

\* A bulk operation that makes a call for each row makes each call for a row
\* of its own rows.
LEMMA SentEach ==
    ASSUME op.fan # "one", NEW rows \in SUBSET (Rows \cup {Whole})
    PROVE  /\ Sent(rows) \in Seq({NewCall({r}) : r \in rows})
           /\ Len(Sent(rows)) = Cardinality(rows)
  <1> DEFINE pick(i) == CHOOSE r \in rows : Cardinality({x \in rows : x < r}) = i - 1
  <1>0. rows \in SUBSET Nat /\ IsFiniteSet(rows) /\ Cardinality(rows) \in Nat
    BY RowsAreFinite
  <1>1. \A i \in 1..Cardinality(rows) : pick(i) \in rows
    BY <1>0, InOrder DEF Before
  <1>2. Sent(rows) = [i \in 1..Cardinality(rows) |-> NewCall({pick(i)})]
    BY DEF Sent, NewCall
  <1> DEFINE made(i) == NewCall({pick(i)})
             news == {NewCall({r}) : r \in rows}
  <1>3. \A i \in 1..Cardinality(rows) : made(i) \in news
    BY <1>1
  <1> HIDE DEF made, news
  <1>4. Sent(rows) = [i \in 1..Cardinality(rows) |-> made(i)]
    BY <1>2 DEF made
  <1>5. Sent(rows) \in [1..Cardinality(rows) -> news]
    BY <1>3, <1>4
  <1>6. Sent(rows) \in Seq(news) /\ Len(Sent(rows)) = Cardinality(rows)
    BY <1>5, <1>0
  <1> QED  BY <1>6 DEF news

LEMMA SentType ==
    ASSUME TypeOK, NEW rows \in SUBSET (Rows \cup {Whole})
    PROVE  Sent(rows) \in Seq(Call)
  <1>1. \A rs \in SUBSET (Rows \cup {Whole}) : NewCall(rs) \in Call
    BY DEF TypeOK, NewCall, Call
  <1>2. CASE op.fan = "one"
    <2>1. NewCall(rows) \in Call
      BY <1>1
    <2>2. <<NewCall(rows)>> \in Seq(Call)
      BY <2>1
    <2> QED  BY <2>2, <1>2, SentOne
  <1>3. CASE op.fan # "one"
    <2> DEFINE news == {NewCall({r}) : r \in rows}
    <2>1. news \subseteq Call
      BY <1>1
    <2>2. Sent(rows) \in Seq(news)
      BY <1>3, SentEach
    <2> HIDE DEF news
    <2> QED  BY <2>1, <2>2
  <1> QED  BY <1>2, <1>3

-----------------------------------------------------------------------------
\* Type correctness

LEMMA TypeInit == Init => TypeOK
  <1>1. Cardinality(Rows) \in Nat \ {0}
    BY RowsAssumption, FS_CardinalityType, FS_EmptySet
  <1>2. NotLoaded \in [loaded : BOOLEAN, rows : SUBSET Rows, total : 0..Cardinality(Rows)]
    BY <1>1 DEF NotLoaded
  <1> QED  BY <1>1, <1>2, BoundsAssumption DEF Init, TypeOK

LEMMA SendType ==
    ASSUME TypeOK, NEW rows \in SUBSET (Rows \cup {Whole}), Send(rows)
    PROVE  calls' \in Seq(Call) /\ Len(calls') <= MaxCalls
  <1>1. Sent(rows) \in Seq(Call) /\ calls \in Seq(Call)
    BY SentType DEF TypeOK
  <1> HIDE DEF Call
  <1> QED  BY <1>1 DEF Send

LEMMA MarkedType ==
    ASSUME TypeOK, NEW rows \in SUBSET (Rows \cup {Whole})
    PROVE  Marked(rows) \subseteq Rows \cup {Whole}
  BY DEF TypeOK, Marked

LEMMA UnmarkedType ==
    ASSUME TypeOK, NEW c, NEW ok
    PROVE  Unmarked(c, ok) \subseteq marks
  BY DEF Unmarked

\* An answer changes one call and keeps its number, rows and page.
LEMMA AnswerType ==
    ASSUME TypeOK, NEW c \in DOMAIN calls, Answer(c)
    PROVE  /\ calls' \in Seq(Call) /\ Len(calls') = Len(calls)
           /\ \A d \in DOMAIN calls :
                 /\ calls'[d].n = calls[d].n /\ calls'[d].rows = calls[d].rows
                 /\ calls'[d].live = calls[d].live
                 /\ d # c => calls'[d] = calls[d]
           /\ calls[c].at = "sent" /\ calls'[c].at # "sent"
  <1>1. calls[c] \in Call /\ calls \in Seq(Call) /\ c \in 1..Len(calls)
    BY DEF TypeOK
  <1>2. CASE Succeed(c)
    <2> DEFINE new == [calls[c] EXCEPT !.at = "ok"]
    <2>1. new \in Call
      BY <1>1 DEF Call
    <2>2. calls' = [calls EXCEPT ![c] = new]
      BY <1>2 DEF Succeed
    <2>3. new.n = calls[c].n /\ new.rows = calls[c].rows /\ new.live = calls[c].live
          /\ new.at = "ok"
      BY <1>1 DEF Call
    <2>4. calls[c].at = "sent"
      BY <1>2 DEF Succeed
    <2> HIDE DEF new, Call
    <2> QED  BY <1>1, <2>1, <2>2, <2>3, <2>4
  <1>3. CASE Fail(c)
    <2> DEFINE new == [calls[c] EXCEPT !.at = "failed", !.told = Told(c), !.excused = Away(c)]
    <2>0. Told(c) \in BOOLEAN /\ Away(c) \in BOOLEAN
      BY DEF Told, Away
    <2>1. new \in Call
      BY <1>1, <2>0 DEF Call
    <2>2. calls' = [calls EXCEPT ![c] = new]
      BY <1>3 DEF Fail
    <2> QED  BY <1>1, <1>3, <2>1, <2>2 DEF Fail, Call
  <1> QED  BY <1>2, <1>3 DEF Answer

LEMMA LeaveType ==
    ASSUME TypeOK, Leave
    PROVE  /\ calls' \in Seq(Call) /\ Len(calls') = Len(calls)
           /\ \A d \in DOMAIN calls :
                 /\ calls'[d].n = calls[d].n /\ calls'[d].at = calls[d].at
                 /\ calls'[d].told = calls[d].told /\ calls'[d].excused = calls[d].excused
                 /\ calls'[d].rows = calls[d].rows
                 /\ ~calls'[d].live
  <1>1. calls \in Seq(Call)
    BY DEF TypeOK
  <1> DEFINE gone(d) == [calls[d] EXCEPT !.live = FALSE]
  <1>2. ASSUME NEW d \in DOMAIN calls
        PROVE  /\ gone(d) \in Call /\ gone(d).n = calls[d].n /\ gone(d).at = calls[d].at
               /\ gone(d).told = calls[d].told /\ gone(d).excused = calls[d].excused
               /\ gone(d).rows = calls[d].rows
               /\ ~gone(d).live
    <2>1. calls[d] \in Call
      BY <1>1
    <2> QED  BY <2>1 DEF Call
  <1>3. calls' = [d \in DOMAIN calls |-> gone(d)]
    BY DEF Leave
  <1> HIDE DEF gone, Call
  <1> QED  BY <1>1, <1>2, <1>3

LEMMA TypeNext == TypeOK /\ [Next]_vars => TypeOK'
  <1> SUFFICES ASSUME TypeOK, [Next]_vars PROVE TypeOK'
    OBVIOUS
  <1>0. Cardinality(Rows) \in Nat \ {0}
    BY RowsAssumption, FS_CardinalityType, FS_EmptySet
  <1>1. NotLoaded \in [loaded : BOOLEAN, rows : SUBSET Rows, total : 0..Cardinality(Rows)]
    BY <1>0 DEF NotLoaded
  <1> HIDE DEF Call
  <1>2. CASE Load
    <2>1. Cardinality(db) \in 0..Cardinality(Rows)
      BY PartOfTable DEF TypeOK
    <2>2. OnPage(db, page) \subseteq Rows /\ db \subseteq Rows
      BY DEF OnPage, TypeOK
    <2> QED  BY <1>2, <2>1, <2>2 DEF Load, TypeOK
  <1>3. CASE Refine
    BY <1>3, <1>0, <1>1 DEF Refine, TypeOK
  <1>4. CASE Submit
    <2>1. form.rows \in SUBSET (Rows \cup {Whole})
      BY DEF TypeOK
    <2>2. calls' \in Seq(Call) /\ Len(calls') <= MaxCalls
      BY <1>4, <2>1, SendType DEF Submit
    <2>3. marks' \subseteq Rows \cup {Whole}
      BY <1>4, <2>1, MarkedType DEF Submit
    <2> QED  BY <1>4, <2>2, <2>3 DEF Submit, TypeOK
  <1>5. CASE Dismiss
    BY <1>5 DEF Dismiss, TypeOK
  <1>6. CASE Leave
    <2>1. calls' \in Seq(Call) /\ Len(calls') = Len(calls)
      BY <1>6, LeaveType
    <2>2. form' \in [open : BOOLEAN, rows : SUBSET (Rows \cup {Whole}), n : 0..MaxOpens,
                     closed : 0..MaxOpens]
      BY <1>6 DEF Leave, TypeOK
    <2>3. UNCHANGED <<op, db>> /\ page' = 1 /\ list' = NotLoaded /\ ticked' = {} /\ marks' = {}
          /\ mounted' = FALSE
      BY <1>6 DEF Leave
    <2>4. page' \in 1..Cardinality(Rows)
      BY <2>3, <1>0
    <2>5. list' \in [loaded : BOOLEAN, rows : SUBSET Rows, total : 0..Cardinality(Rows)]
      BY <2>3, <1>1
    <2>6. Len(calls') <= MaxCalls
      BY <2>1 DEF TypeOK
    <2> HIDE DEF NotLoaded
    <2> QED  BY <2>1, <2>2, <2>3, <2>4, <2>5, <2>6 DEF TypeOK
  <1>7. CASE Return
    BY <1>7 DEF Return, TypeOK
  <1>8. ASSUME NEW p \in 1..Cardinality(Rows), TurnPage(p) PROVE TypeOK'
    BY <1>8, <1>1 DEF TurnPage, TypeOK
  <1>9. ASSUME NEW r \in Rows \cup {Whole}, Tick(r) PROVE TypeOK'
    <2>1. r \in Rows
      BY <1>9, ShownInTable DEF Tick
    <2> QED  BY <1>9, <2>1 DEF Tick, TypeOK
  <1>10. ASSUME NEW r \in Rows \cup {Whole}, Vanish(r) PROVE TypeOK'
    BY <1>10 DEF Vanish, TypeOK
  <1>11. ASSUME NEW r \in Rows \cup {Whole}, MarkExpires(r) PROVE TypeOK'
    BY <1>11 DEF MarkExpires, TypeOK
  <1>12. ASSUME NEW rows \in Targets, Click(rows) PROVE TypeOK'
    <2>1. rows \in SUBSET (Rows \cup {Whole})
      BY TargetRows
    <2>2. calls' \in Seq(Call) /\ Len(calls') <= MaxCalls
      BY <1>12, <2>1, SendType DEF Click
    <2>3. marks' \subseteq Rows \cup {Whole}
      BY <1>12, <2>1, MarkedType DEF Click
    <2> QED  BY <1>12, <2>2, <2>3 DEF Click, TypeOK
  <1>13. ASSUME NEW rows \in Targets, Open(rows) PROVE TypeOK'
    <2>1. rows \in SUBSET (Rows \cup {Whole})
      BY TargetRows
    <2>2. form' \in [open : BOOLEAN, rows : SUBSET (Rows \cup {Whole}), n : 0..MaxOpens,
                     closed : 0..MaxOpens]
      <3>1. form.n \in 0..MaxOpens /\ form.n < MaxOpens
        BY <1>13 DEF Open, TypeOK
      <3>2. form.n + 1 \in 0..MaxOpens /\ 0 \in 0..MaxOpens
        BY <3>1, BoundsAssumption
      <3>3. form' = [open |-> TRUE, rows |-> rows, n |-> form.n + 1, closed |-> 0]
        BY <1>13 DEF Open
      <3> QED  BY <3>2, <3>3, <2>1
    <2> QED  BY <1>13, <2>1, <2>2 DEF Open, TypeOK
  <1>14. ASSUME NEW c \in DOMAIN calls, Answer(c) PROVE TypeOK'
    <2>1. calls' \in Seq(Call) /\ Len(calls') = Len(calls)
      BY <1>14, AnswerType
    <2>2. marks' \subseteq Rows \cup {Whole}
      <3>1. marks' = Unmarked(c, TRUE) \/ marks' = Unmarked(c, FALSE)
        BY <1>14 DEF Answer, Succeed, Fail
      <3>2. Unmarked(c, TRUE) \subseteq marks /\ Unmarked(c, FALSE) \subseteq marks
        BY UnmarkedType
      <3> QED  BY <3>1, <3>2 DEF TypeOK
    <2>3. form' \in [open : BOOLEAN, rows : SUBSET (Rows \cup {Whole}), n : 0..MaxOpens,
                     closed : 0..MaxOpens]
      <3>1. calls[c].n \in 0..MaxOpens
        <4>1. calls[c] \in Call
          BY DEF TypeOK
        <4> QED  BY <4>1 DEF Call
      <3> QED  BY <3>1, <1>14 DEF Answer, Succeed, Fail, TypeOK
    <2> QED  BY <1>14, <2>1, <2>2, <2>3 DEF Answer, Succeed, Fail, TypeOK
  <1>15. CASE UNCHANGED vars
    BY <1>15 DEF vars, TypeOK
  <1> QED  BY <1>2, <1>3, <1>4, <1>5, <1>6, <1>7, <1>8, <1>9, <1>10, <1>11, <1>12, <1>13,
              <1>14, <1>15 DEF Next

(* The dialogs, selections, marks and calls of every page stay of their    *)
(* types, for every table and however many calls and dialogs there are.    *)
THEOREM TypesKept == Spec => []TypeOK
  BY TypeInit, TypeNext, PTL DEF Spec

-----------------------------------------------------------------------------
\* Steps

\* Turning pages, ticking and loading leave dialogs, calls and marks alone.
Quiet == UNCHANGED <<op, form, calls, marks>>

LEMMA Steps ==
    ASSUME [Next]_vars
    PROVE  \/ Quiet \/ Submit \/ Dismiss \/ Leave
           \/ \E r \in Rows \cup {Whole} : MarkExpires(r)
           \/ \E rows \in Targets : Click(rows) \/ Open(rows)
           \/ \E c \in DOMAIN calls : Answer(c)
  <1>1. Load \/ Refine \/ Return => Quiet
    BY DEF Load, Refine, Return, Quiet
  <1>2. ASSUME NEW p, TurnPage(p) PROVE Quiet
    BY <1>2 DEF TurnPage, Quiet
  <1>3. ASSUME NEW r, Tick(r) \/ Vanish(r) PROVE Quiet
    BY <1>3 DEF Tick, Vanish, Quiet
  <1>4. UNCHANGED vars => Quiet
    BY DEF vars, Quiet
  <1> QED  BY <1>1, <1>2, <1>3, <1>4, Zenon DEF Next

LEMMA OpStays ==
    ASSUME [Next]_vars
    PROVE  op' = op
  <1>1. \A rows : Click(rows) \/ Open(rows) => op' = op
    BY DEF Click, Open
  <1>2. \A c : Answer(c) => op' = op
    BY DEF Answer, Succeed, Fail
  <1>3. \A r : MarkExpires(r) => op' = op
    BY DEF MarkExpires
  <1>4. Quiet \/ Submit \/ Dismiss \/ Leave => op' = op
    BY DEF Quiet, Submit, Dismiss, Leave
  <1> QED  BY <1>1, <1>2, <1>3, <1>4, Steps

\* What the data says of the operation observed.
LEMMA OpFacts ==
    ASSUME TypeOK
    PROVE  /\ op.fan \in {"one", "each"}
           /\ op.ask = "form" => op.close \in {"submit", "answer", "hook", "await"}
           /\ op.tells \subseteq {"call", "catch", "hook", "inline", "form", "page"}
           /\ op.tells \cap {"inline", "form"} # {} => op.ask = "form"
           /\ op.held \in {"own marks", "hook marks", "start flag"} => op.ask # "form"
           /\ op.held = "start flag" => op.start = "page"
           /\ op.expires => op.held = "hook marks"
  BY OperationsAssumption, Zenon DEF TypeOK

\* A submission leaves the calls before it alone; what it adds is under way and
\* bears the number of the dialog.
LEMMA SendKeeps ==
    ASSUME TypeOK, NEW rows \in SUBSET (Rows \cup {Whole}), Send(rows)
    PROVE  /\ DOMAIN calls \subseteq DOMAIN calls'
           /\ \A d \in DOMAIN calls : calls'[d] = calls[d]
           /\ \A d \in DOMAIN calls' \ DOMAIN calls :
                 calls'[d].n = form.n /\ calls'[d].at = "sent"
  <1>1. PICK N : Sent(rows) \in Seq(N) /\ \A x \in N : x.n = form.n /\ x.at = "sent"
    <2>1. CASE op.fan = "one"
      <3>1. Sent(rows) = <<NewCall(rows)>>
        BY <2>1, SentOne
      <3>2. Sent(rows) \in Seq({NewCall(rows)})
        BY <3>1
      <3>3. \A x \in {NewCall(rows)} : x.n = form.n /\ x.at = "sent"
        BY DEF NewCall
      <3> QED  BY <3>2, <3>3
    <2>2. CASE op.fan # "one"
      <3>1. Sent(rows) \in Seq({NewCall({r}) : r \in rows})
        BY <2>2, SentEach
      <3>2. \A x \in {NewCall({r}) : r \in rows} : x.n = form.n /\ x.at = "sent"
        BY DEF NewCall
      <3> QED  BY <3>1, <3>2
    <2> QED  BY <2>1, <2>2
  <1>2. calls \in Seq(Call) /\ calls' = calls \o Sent(rows)
    BY DEF TypeOK, Send
  <1> HIDE DEF Call
  <1>3. ASSUME NEW d \in DOMAIN calls' \ DOMAIN calls PROVE calls'[d] \in N
    BY <1>1, <1>2
  <1>4. /\ DOMAIN calls \subseteq DOMAIN calls'
        /\ \A d \in DOMAIN calls : calls'[d] = calls[d]
    BY <1>1, <1>2
  <1> QED  BY <1>1, <1>3, <1>4

LEMMA SendsOne ==
    ASSUME TypeOK, op.fan = "one", NEW rows, Send(rows)
    PROVE  /\ Len(calls) \in Nat /\ Len(calls') = Len(calls) + 1
           /\ DOMAIN calls = 1..Len(calls) /\ DOMAIN calls' = 1..Len(calls')
           /\ \A d \in DOMAIN calls : calls'[d] = calls[d]
           /\ calls'[Len(calls')] = NewCall(rows)
  <1>1. calls \in Seq(Call) /\ calls' = calls \o <<NewCall(rows)>>
    BY SentOne DEF TypeOK, Send
  <1> HIDE DEF Call
  <1> QED  BY <1>1

-----------------------------------------------------------------------------
\* Dialogs and the answers that close them

LEMMA DialogNext ==
    ASSUME TypeOK, DialogBody, [Next]_vars
    PROVE  DialogBody'
  <1>0. op' = op
    BY OpStays
  <1>n. /\ form.n \in Nat /\ form.closed \in Nat
        /\ \A c \in DOMAIN calls : calls[c].n \in Nat /\ calls[c] \in Call
    <2>1. ASSUME NEW c \in DOMAIN calls PROVE calls[c] \in Call
      BY DEF TypeOK
    <2> QED  BY <2>1 DEF TypeOK, Call
  <1>1. CASE Quiet
    BY <1>1 DEF Quiet, DialogBody, Numbered, Asked, ClosedByAnswer
  <1>2. ASSUME NEW rows \in SUBSET (Rows \cup {Whole}), Send(rows),
               form'.n = form.n, form'.closed = form.closed,
               form'.open => op.ask # "none"
        PROVE  DialogBody'
    <2>1. /\ DOMAIN calls \subseteq DOMAIN calls'
          /\ \A d \in DOMAIN calls : calls'[d] = calls[d]
          /\ \A d \in DOMAIN calls' \ DOMAIN calls :
                calls'[d].n = form.n /\ calls'[d].at = "sent"
      BY <1>2, SendKeeps
    <2>2. Numbered'
      BY <2>1, <1>2, <1>n DEF DialogBody, Numbered
    <2>3. ClosedByAnswer'
      BY <2>1, <1>2 DEF DialogBody, ClosedByAnswer
    <2> QED  BY <2>2, <2>3, <1>2, <1>0 DEF DialogBody, Asked
  <1>3. CASE Submit
    <2>1. /\ form.rows \in SUBSET (Rows \cup {Whole}) /\ Send(form.rows)
          /\ form'.n = form.n /\ form'.closed = form.closed /\ form'.open \in {FALSE, form.open}
      BY <1>3 DEF Submit, TypeOK
    <2>2. form'.open => op.ask # "none"
      BY <2>1 DEF DialogBody, Asked
    <2> QED  BY <2>1, <2>2, <1>2
  <1>4. CASE Dismiss
    <2>1. form'.n = form.n /\ form'.closed = form.closed /\ ~form'.open /\ calls' = calls
      BY <1>4 DEF Dismiss, TypeOK
    <2> QED  BY <2>1 DEF DialogBody, Numbered, Asked, ClosedByAnswer
  <1>5. CASE Leave
    <2>1. form'.n = form.n /\ form'.closed = form.closed /\ ~form'.open
      BY <1>5 DEF Leave, TypeOK
    <2>2. /\ DOMAIN calls' = DOMAIN calls
          /\ \A d \in DOMAIN calls : calls'[d].n = calls[d].n /\ calls'[d].at = calls[d].at
      BY <1>5, LeaveType DEF TypeOK
    <2> QED  BY <2>1, <2>2 DEF DialogBody, Numbered, Asked, ClosedByAnswer
  <1>6. ASSUME NEW r, MarkExpires(r) PROVE DialogBody'
    BY <1>6 DEF MarkExpires, DialogBody, Numbered, Asked, ClosedByAnswer
  <1>7. ASSUME NEW rows \in Targets, Click(rows) PROVE DialogBody'
    <2>1. rows \in SUBSET (Rows \cup {Whole}) /\ Send(rows) /\ form' = form
      BY <1>7, TargetRows DEF Click
    <2> QED  BY <2>1, <1>2 DEF DialogBody, Asked
  <1>8. ASSUME NEW rows \in Targets, Open(rows) PROVE DialogBody'
    <2>1. form'.n = form.n + 1 /\ form'.closed = 0 /\ calls' = calls /\ op.ask # "none"
      BY <1>8 DEF Open
    <2>2. Numbered'
      BY <2>1, <1>n DEF DialogBody, Numbered
    <2> QED  BY <2>1, <2>2, <1>0 DEF DialogBody, Asked, ClosedByAnswer
  <1>9. ASSUME NEW c \in DOMAIN calls, Answer(c) PROVE DialogBody'
    <2>1. /\ DOMAIN calls' = DOMAIN calls
          /\ \A d \in DOMAIN calls : calls'[d].n = calls[d].n
          /\ \A d \in DOMAIN calls : d # c => calls'[d] = calls[d]
          /\ calls[c].at = "sent"
      BY <1>9, AnswerType DEF TypeOK
    <2>2. form'.n = form.n /\ (form'.open => form.open)
      BY <1>9 DEF Answer, Succeed, Fail, TypeOK
    <2>3. Numbered' /\ Asked'
      BY <2>1, <2>2, <1>0 DEF DialogBody, Numbered, Asked
    <2>4. ASSUME NEW d \in DOMAIN calls, calls[d].at = "ok" PROVE calls'[d].at = "ok"
      BY <2>1, <2>4
    <2>5. CASE form' = form
      <3>1. ClosedByAnswer'
        BY <2>5, <2>1, <2>4 DEF DialogBody, ClosedByAnswer
      <3> QED  BY <3>1, <2>3 DEF DialogBody
    <2>6. CASE form' # form
      <3>1. Succeed(c) /\ form' = [form EXCEPT !.open = FALSE, !.closed = calls[c].n]
        BY <2>6, <1>9 DEF Answer, Succeed, Fail
      <3>2. form'.closed = calls[c].n
        BY <3>1 DEF TypeOK
      <3>3. calls'[c].at = "ok"
        BY <3>1, <1>n DEF Succeed, Call
      <3>4. calls[c].n < form.n \/ calls[c].n = form.n
        BY <1>n DEF DialogBody, Numbered
      <3>5. ClosedByAnswer'
        BY <3>2, <3>3, <3>4, <2>1, <2>2 DEF ClosedByAnswer
      <3> QED  BY <3>5, <2>3 DEF DialogBody
    <2> QED  BY <2>5, <2>6
  <1> QED  BY <1>1, <1>3, <1>4, <1>5, <1>6, <1>7, <1>8, <1>9, Steps

(* A failed submission never takes its form away, however its answer, the  *)
(* answers of earlier dialogs, a dismissal and another opening interleave. *)
THEOREM DraftsSurvive == Spec => []DraftSurvivesFailure
  <1>1. Init => DialogBody
    BY DEF Init, DialogBody, Numbered, Asked, ClosedByAnswer
  <1>2. TypeOK /\ DialogBody /\ [Next]_vars => DialogBody'
    BY DialogNext
  <1>3. DialogBody => DraftSurvivesFailure
    BY DEF DialogBody, ClosedByAnswer, DraftSurvivesFailure
  <1> QED  BY <1>1, <1>2, <1>3, TypesKept, PTL DEF Spec

-----------------------------------------------------------------------------
\* Failures

LEMMA FailureIsTold ==
    ASSUME TypeOK, NEW c \in DOMAIN calls
    PROVE  \/ Told(c)
           \/ ~op.toasts /\ op.tells = {}
           \/ ~op.toasts /\ op.tells \cap {"catch", "hook"} = {} /\ Away(c)
  <1> SUFFICES ASSUME ~Told(c), op.tells # {}
               PROVE  Away(c) /\ ~op.toasts /\ op.tells \cap {"catch", "hook"} = {}
    BY Zenon DEF Told
  <1>1. ~op.toasts /\ op.tells \cap {"catch", "hook"} = {}
    BY Zenon DEF Told
  <1>2. PICK how \in op.tells : how \in {"call", "inline", "form", "page"}
    BY <1>1, OpFacts
  <1>3. CASE how = "call"
    BY <1>2, <1>3, Zenon DEF Told, Away
  <1>4. CASE how = "page"
    <2>1. ~calls[c].live
      BY <1>2, <1>4, Zenon DEF Told
    <2> QED  BY <2>1, <1>1, Zenon DEF Away, Latest
  <1>5. CASE how \in {"inline", "form"}
    <2>1. op.ask = "form"
      BY <1>2, <1>5, OpFacts
    <2>2. ~InFront(c) \/ ~Latest(c) \/ ~calls[c].live
      BY <1>2, <1>5 DEF Told
    <2> QED  BY <2>1, <2>2, <1>1, Zenon DEF Away, Latest
  <1> QED  BY <1>1, <1>2, <1>3, <1>4, <1>5

LEMMA FailuresNext ==
    ASSUME TypeOK, FailuresTold, [Next]_vars
    PROVE  FailuresTold'
  <1>0. op' = op
    BY OpStays
  <1>1. CASE calls' = calls
    BY <1>0, <1>1, Zenon DEF FailuresTold
  <1>2. ASSUME NEW rows \in SUBSET (Rows \cup {Whole}), Send(rows) PROVE FailuresTold'
    <2>1. /\ \A d \in DOMAIN calls : calls'[d] = calls[d]
          /\ \A d \in DOMAIN calls' \ DOMAIN calls : calls'[d].at = "sent"
      BY <1>2, SendKeeps
    <2> QED  BY <2>1, <1>0 DEF FailuresTold
  <1>3. CASE Submit
    BY <1>3, <1>2 DEF Submit, TypeOK
  <1>4. CASE Leave
    <2>1. /\ DOMAIN calls' = DOMAIN calls
          /\ \A d \in DOMAIN calls :
                /\ calls'[d].at = calls[d].at /\ calls'[d].told = calls[d].told
                /\ calls'[d].excused = calls[d].excused
      BY <1>4, LeaveType DEF TypeOK
    <2> QED  BY <2>1, <1>0 DEF FailuresTold
  <1>5. ASSUME NEW rows \in Targets, Click(rows) PROVE FailuresTold'
    BY <1>5, <1>2, TargetRows DEF Click
  <1>6. ASSUME NEW c \in DOMAIN calls, Answer(c) PROVE FailuresTold'
    <2>1. /\ DOMAIN calls' = DOMAIN calls
          /\ \A d \in DOMAIN calls : d # c => calls'[d] = calls[d]
      BY <1>6, AnswerType DEF TypeOK
    <2>2. calls[c] \in Call
      BY DEF TypeOK
    <2>3. CASE Succeed(c)
      <3>1. calls'[c].at = "ok"
        BY <2>3, <2>2 DEF Succeed, Call
      <3> QED  BY <3>1, <2>1, <1>0 DEF FailuresTold
    <2>4. CASE Fail(c)
      <3> DEFINE new == [calls[c] EXCEPT !.at = "failed", !.told = Told(c), !.excused = Away(c)]
      <3>1. calls' = [calls EXCEPT ![c] = new]
        BY <2>4 DEF Fail
      <3>2. (new.told <=> Told(c)) /\ (new.excused <=> Away(c))
        BY <2>2 DEF Call
      <3>3. calls'[c] = new
        BY <3>1 DEF TypeOK
      <3> HIDE DEF new
      <3>4. (calls'[c].told <=> Told(c)) /\ (calls'[c].excused <=> Away(c))
        BY <3>2, <3>3
      <3> QED  BY <3>4, <2>1, <1>0, FailureIsTold DEF FailuresTold
    <2> QED  BY <1>6, <2>3, <2>4 DEF Answer
  <1>7. Quiet \/ Dismiss => calls' = calls
    BY DEF Quiet, Dismiss
  <1>8. \A rows : Open(rows) => calls' = calls
    BY DEF Open
  <1>9. \A r : MarkExpires(r) => calls' = calls
    BY DEF MarkExpires
  <1> QED  BY <1>1, <1>3, <1>4, <1>5, <1>6, <1>7, <1>8, <1>9, Steps

(* Every failure of every operation of the pages reaches the user, unless  *)
(* the operation reports nothing or its user had gone on.                  *)
THEOREM FailuresReachTheUser == Spec => []FailuresTold
  <1>1. Init => FailuresTold
    BY DEF Init, FailuresTold
  <1>2. TypeOK /\ FailuresTold /\ [Next]_vars => FailuresTold'
    BY FailuresNext
  <1> QED  BY <1>1, <1>2, TypesKept, PTL DEF Spec

-----------------------------------------------------------------------------
\* Bulk operations

LEMMA LastIsTarget ==
    ASSUME TypeOK, NEW rows \in SUBSET (Rows \cup {Whole}), rows # {}, Send(rows)
    PROVE  calls'[Len(calls')].rows \subseteq rows
  <1>1. PICK N : /\ Sent(rows) \in Seq(N) /\ Len(Sent(rows)) > 0
                 /\ \A x \in N : x.rows \subseteq rows
    <2>1. CASE op.fan = "one"
      <3>1. Sent(rows) = <<NewCall(rows)>>
        BY <2>1, SentOne
      <3>2. Sent(rows) \in Seq({NewCall(rows)}) /\ Len(Sent(rows)) > 0
        BY <3>1
      <3>3. \A x \in {NewCall(rows)} : x.rows \subseteq rows
        BY DEF NewCall
      <3> QED  BY <3>2, <3>3
    <2>2. CASE op.fan # "one"
      <3>1. /\ Sent(rows) \in Seq({NewCall({r}) : r \in rows})
            /\ Len(Sent(rows)) = Cardinality(rows)
        BY <2>2, SentEach
      <3>2. Cardinality(rows) > 0
        BY RowsAreFinite, FS_EmptySet
      <3>3. \A x \in {NewCall({r}) : r \in rows} : x.rows \subseteq rows
        BY DEF NewCall
      <3> QED  BY <3>1, <3>2, <3>3
    <2> QED  BY <2>1, <2>2
  <1>2. calls \in Seq(Call) /\ calls' = calls \o Sent(rows)
    BY DEF TypeOK, Send
  <1> HIDE DEF Call
  <1>3. calls'[Len(calls')] \in N
    BY <1>1, <1>2
  <1> QED  BY <1>1, <1>3

(* A bulk operation begins with rows that are ticked and on screen at that *)
(* moment, one call for all of them or one for each, whatever was turned,  *)
(* deleted or filtered since they were ticked.                             *)
THEOREM BulkIsOnScreen == Spec => BulkHitsShown
  <1> DEFINE Hits ==
        op.start = "ticked" =>
            /\ form'.n # form.n => form'.rows \subseteq ticked \cap Shown
            /\ Len(calls') > Len(calls) /\ op.ask = "none" =>
                 calls'[Len(calls')].rows \subseteq ticked \cap Shown
  <1>1. Init => DialogBody
    BY DEF Init, DialogBody, Numbered, Asked, ClosedByAnswer
  <1>2. TypeOK /\ DialogBody /\ [Next]_vars => DialogBody'
    BY DialogNext
  <1>3. TypeOK /\ DialogBody /\ [Next]_vars => [Hits]_vars
    <2> SUFFICES ASSUME TypeOK, DialogBody, [Next]_vars, op.start = "ticked"
                 PROVE  /\ form'.n # form.n => form'.rows \subseteq ticked \cap Shown
                        /\ Len(calls') > Len(calls) /\ op.ask = "none" =>
                             calls'[Len(calls')].rows \subseteq ticked \cap Shown
      OBVIOUS
    <2>0. Len(calls) \in Nat
      BY DEF TypeOK
    <2>1. CASE Quiet
      BY <2>1, <2>0 DEF Quiet
    <2>2. CASE Submit
      <3>1. form'.n = form.n /\ op.ask # "none"
        BY <2>2 DEF Submit, TypeOK, DialogBody, Asked
      <3> QED  BY <3>1
    <2>3. CASE Dismiss
      BY <2>3, <2>0 DEF Dismiss, TypeOK
    <2>4. CASE Leave
      <3>1. form'.n = form.n /\ Len(calls') = Len(calls)
        BY <2>4, LeaveType DEF Leave, TypeOK
      <3> QED  BY <3>1, <2>0
    <2>5. ASSUME NEW r, MarkExpires(r) PROVE form' = form /\ calls' = calls
      BY <2>5 DEF MarkExpires
    <2>6. ASSUME NEW rows \in Targets, Click(rows)
          PROVE  form' = form /\ calls'[Len(calls')].rows \subseteq ticked \cap Shown
      <3>1. /\ rows \in SUBSET (Rows \cup {Whole}) /\ rows # {}
            /\ rows \subseteq ticked \cap Shown
        BY TargetRows
      <3>2. Send(rows) /\ form' = form
        BY <2>6 DEF Click
      <3>3. calls'[Len(calls')].rows \subseteq rows
        BY <3>1, <3>2, LastIsTarget
      <3> QED  BY <3>1, <3>2, <3>3
    <2>7. ASSUME NEW rows \in Targets, Open(rows)
          PROVE  form'.rows \subseteq ticked \cap Shown /\ calls' = calls
      <3>1. rows \subseteq ticked \cap Shown
        BY TargetRows
      <3>2. form'.rows = rows /\ calls' = calls
        BY <2>7 DEF Open
      <3> QED  BY <3>1, <3>2
    <2>8. ASSUME NEW c \in DOMAIN calls, Answer(c)
          PROVE  form'.n = form.n /\ Len(calls') = Len(calls)
      BY <2>8, AnswerType DEF Answer, Succeed, Fail, TypeOK
    <2> QED  BY <2>0, <2>1, <2>2, <2>3, <2>4, <2>5, <2>6, <2>7, <2>8, Steps
  <1> QED  BY <1>1, <1>2, <1>3, TypesKept, PTL DEF Spec, BulkHitsShown

-----------------------------------------------------------------------------
\* One submission at a time: controls that wait for isPending

LEMMA CallTypes ==
    ASSUME TypeOK, NEW c \in DOMAIN calls
    PROVE  /\ calls[c].at \in {"sent", "ok", "failed"}
           /\ calls[c].n \in Nat /\ form.n \in Nat
  <1>1. calls[c] \in Call
    BY DEF TypeOK
  <1> QED  BY <1>1 DEF TypeOK, Call

\* A submission by such a control, when nothing is awaited: the new call is the
\* only one awaited.
LEMMA ObserverSends ==
    ASSUME TypeOK, DialogBody, ObserverBody, ByObserver, op' = op, NEW rows, Send(rows),
           \A c \in DOMAIN calls : ~Awaited(c),
           form'.n = form.n,
           form'.open => form.open /\ op.ask = "form" /\ op.close # "submit",
           op.ask = "form" => form.open
    PROVE  ObserverBody'
  <1>1. /\ Len(calls) \in Nat /\ Len(calls') = Len(calls) + 1
        /\ DOMAIN calls = 1..Len(calls) /\ DOMAIN calls' = 1..Len(calls')
        /\ \A d \in DOMAIN calls : calls'[d] = calls[d]
        /\ calls'[Len(calls')] = NewCall(rows)
    BY SendsOne DEF ByObserver
  <1>2. /\ calls'[Len(calls')].live /\ calls'[Len(calls')].n = form.n
        /\ calls'[Len(calls')].at = "sent"
    BY <1>1 DEF NewCall
  <1>3. OneAwaited'
    <2>1. \A c \in DOMAIN calls' : Awaited(c)' => c = Len(calls')
      BY <1>1 DEF Awaited
    <2> QED  BY <2>1 DEF OneAwaited
  <1>4. FormSpent'
    <2> SUFFICES ASSUME op.ask = "form", NEW c \in DOMAIN calls', calls'[c].live,
                        calls'[c].n = form'.n, calls'[c].at = "ok" \/ op.close = "submit"
                 PROVE  ~form'.open
      BY DEF FormSpent
    <2> QED  BY <1>1, <1>2 DEF ObserverBody, FormSpent
  <1>5. FormOnce'
    <2> SUFFICES ASSUME op.ask = "form", NEW c \in DOMAIN calls', NEW d \in DOMAIN calls',
                        c # d, calls'[c].live, calls'[d].live, calls'[c].n = calls'[d].n
                 PROVE  calls'[c].at = "failed" \/ calls'[d].at = "failed"
      BY DEF FormOnce
    <2>1. ASSUME NEW e \in DOMAIN calls, calls[e].live, calls[e].n = form.n
          PROVE  calls[e].at = "failed"
      <3>1. calls[e].at \in {"sent", "ok", "failed"}
        BY CallTypes
      <3>2. calls[e].at # "sent"
        BY <2>1 DEF Awaited
      <3>3. calls[e].at # "ok"
        BY <2>1 DEF ObserverBody, FormSpent
      <3> QED  BY <3>1, <3>2, <3>3
    <2>2. CASE c \in DOMAIN calls /\ d \in DOMAIN calls
      BY <2>2, <1>1 DEF ObserverBody, FormOnce
    <2>3. CASE c \notin DOMAIN calls
      <3>1. c = Len(calls') /\ d \in DOMAIN calls
        BY <2>3, <1>1
      <3> QED  BY <3>1, <2>1, <1>1, <1>2
    <2>4. CASE d \notin DOMAIN calls
      <3>1. d = Len(calls') /\ c \in DOMAIN calls
        BY <2>4, <1>1
      <3> QED  BY <3>1, <2>1, <1>1, <1>2
    <2> QED  BY <2>2, <2>3, <2>4
  <1> QED  BY <1>3, <1>4, <1>5 DEF ObserverBody

\* An answer, when it may only close the dialog.
LEMMA ObserverAnswered ==
    ASSUME TypeOK, DialogBody, ObserverBody, ByObserver, op' = op,
           NEW c \in DOMAIN calls, Answer(c)
    PROVE  ObserverBody'
  <1>1. /\ DOMAIN calls' = DOMAIN calls /\ Len(calls') = Len(calls)
        /\ \A d \in DOMAIN calls :
              /\ calls'[d].n = calls[d].n /\ calls'[d].live = calls[d].live
              /\ d # c => calls'[d] = calls[d]
        /\ calls[c].at = "sent" /\ calls'[c].at # "sent"
    BY AnswerType DEF TypeOK
  <1>2. form'.n = form.n /\ (form'.open => form.open)
    BY DEF Answer, Succeed, Fail, TypeOK
  <1>3. \A d \in DOMAIN calls : Awaited(d)' => Awaited(d)
    BY <1>1 DEF Awaited
  <1>4. OneAwaited'
    BY <1>1, <1>2, <1>3 DEF ObserverBody, OneAwaited
  <1>5. FormOnce'
    <2>1. ASSUME NEW d \in DOMAIN calls, calls[d].at = "failed" PROVE calls'[d].at = "failed"
      BY <2>1, <1>1
    <2> QED  BY <2>1, <1>1 DEF ObserverBody, FormOnce
  <1>6. FormSpent'
    <2> SUFFICES ASSUME op.ask = "form", NEW d \in DOMAIN calls, calls[d].live,
                        calls[d].n = form.n, calls'[d].at = "ok" \/ op.close = "submit",
                        form.open
                 PROVE  ~form'.open
      BY <1>1, <1>2 DEF FormSpent
    <2>1. d = c /\ op.close # "submit" /\ calls'[c].at = "ok"
      BY <1>1 DEF ObserverBody, FormSpent
    <2>2. Succeed(c)
      <3>1. CASE Fail(c)
        <4>1. calls[c] \in Call
          BY DEF TypeOK
        <4>2. calls'[c].at = "failed"
          BY <3>1, <4>1 DEF Fail, Call
        <4> QED  BY <4>2, <2>1
      <3> QED  BY <3>1 DEF Answer
    <2>3. Latest(c)
      BY <2>1, <1>1 DEF ObserverBody, OneAwaited, Awaited, Latest
    <2>4. op.close \in {"answer", "hook", "await"}
      BY <2>1, OpFacts
    <2>5. Closes(c)
      BY <2>1, <2>3, <2>4 DEF Closes
    <2>6. form' = [form EXCEPT !.open = FALSE, !.closed = calls[c].n]
      BY <2>2, <2>5 DEF Succeed
    <2> QED  BY <2>6 DEF TypeOK
  <1> QED  BY <1>4, <1>5, <1>6 DEF ObserverBody

LEMMA ObserverNext ==
    ASSUME TypeOK, DialogBody, ObserverBody, [Next]_vars
    PROVE  ObserverBody'
  <1>0. op' = op
    BY OpStays
  <1>a. CASE ~ByObserver
    BY <1>a, <1>0 DEF ObserverBody, OneAwaited, FormSpent, FormOnce, ByObserver
  <1>b. CASE ByObserver
    <2>p. ASSUME ~IsPending PROVE \A c \in DOMAIN calls : ~Awaited(c)
      BY <2>p, <1>b DEF ObserverBody, OneAwaited, Awaited, IsPending, Latest, TypeOK
    <2>e. ASSUME NEW rows, Enabled(rows) PROVE ~IsPending
      BY <2>e, <1>b DEF Enabled, ByObserver
    <2>1. CASE Quiet
      BY <2>1 DEF Quiet, ObserverBody, OneAwaited, FormSpent, FormOnce, ByObserver, Awaited
    <2>2. CASE Submit
      <3>1. \A c \in DOMAIN calls : ~Awaited(c)
        <4>1. CASE op.ask = "form"
          BY <4>1, <2>2, <2>e, <2>p DEF Submit
        <4>2. CASE op.ask # "form"
          BY <4>2, <2>2, <1>b DEF Submit, ObserverBody, OneAwaited
        <4> QED  BY <4>1, <4>2
      <3>2. /\ Send(form.rows) /\ form.open /\ form'.n = form.n
            /\ form'.open => op.ask = "form" /\ op.close # "submit"
        BY <2>2 DEF Submit, TypeOK
      <3> QED  BY <3>1, <3>2, <1>0, <1>b, ObserverSends
    <2>3. CASE Dismiss
      <3>1. form'.n = form.n /\ ~form'.open /\ calls' = calls
        BY <2>3 DEF Dismiss, TypeOK
      <3> QED  BY <3>1, <1>0 DEF ObserverBody, OneAwaited, FormSpent, FormOnce, ByObserver, Awaited
    <2>4. CASE Leave
      <3>1. ~form'.open
        BY <2>4 DEF Leave, TypeOK
      <3>2. \A d \in DOMAIN calls' : ~calls'[d].live
        BY <2>4, LeaveType DEF TypeOK
      <3> QED  BY <3>1, <3>2 DEF ObserverBody, OneAwaited, FormSpent, FormOnce, Awaited
    <2>5. ASSUME NEW r, MarkExpires(r) PROVE ObserverBody'
      BY <2>5 DEF MarkExpires, ObserverBody, OneAwaited, FormSpent, FormOnce, ByObserver, Awaited
    <2>6. ASSUME NEW rows, Click(rows) PROVE ObserverBody'
      <3>1. /\ Send(rows) /\ form' = form /\ ~form.open /\ op.ask # "form" /\ Enabled(rows)
        BY <2>6 DEF Click, Free
      <3> QED  BY <3>1, <1>0, <1>b, <2>e, <2>p, ObserverSends
    <2>7. ASSUME NEW rows, Open(rows) PROVE ObserverBody'
      <3>1. form'.n = form.n + 1 /\ calls' = calls /\ (op.ask # "form" => Enabled(rows))
        BY <2>7 DEF Open
      <3>2. OneAwaited'
        BY <3>1, <1>0, <2>e, <2>p DEF ObserverBody, OneAwaited, ByObserver, Awaited
      <3>3. \A c \in DOMAIN calls : calls[c].n # form'.n
        <4>1. ASSUME NEW c \in DOMAIN calls PROVE calls[c].n \in Nat /\ form.n \in Nat
          BY CallTypes
        <4> QED  BY <4>1, <3>1 DEF DialogBody, Numbered
      <3>4. FormSpent' /\ FormOnce'
        BY <3>1, <3>3, <1>0 DEF ObserverBody, FormSpent, FormOnce, ByObserver
      <3> QED  BY <3>2, <3>4 DEF ObserverBody
    <2>8. ASSUME NEW c \in DOMAIN calls, Answer(c) PROVE ObserverBody'
      BY <2>8, <1>0, <1>b, ObserverAnswered
    <2> QED  BY <2>1, <2>2, <2>3, <2>4, <2>5, <2>6, <2>7, <2>8, Steps
  <1> QED  BY <1>a, <1>b

-----------------------------------------------------------------------------
\* One submission at a time: controls that are marked row by row

LEMMA OldOrNew == \A n \in Nat : \A c \in 1..(n + 1) : c \in 1..n \/ c = n + 1
  OBVIOUS

\* A call for rows that no awaited call is about.
LEMMA MarksSend ==
    ASSUME TypeOK, MarksBody, ByMarks, op' = op,
           NEW rows, Send(rows), ~form'.open,
           \A c \in DOMAIN calls : Awaited(c) => calls[c].rows \cap rows = {},
           \A c \in DOMAIN calls : Awaited(c) => calls[c].rows \subseteq marks',
           rows \subseteq marks',
           op.held = "start flag" => rows = {Whole}
    PROVE  MarksBody'
  <1>1. /\ Len(calls) \in Nat /\ Len(calls') = Len(calls) + 1
        /\ DOMAIN calls = 1..Len(calls) /\ DOMAIN calls' = 1..Len(calls')
        /\ \A d \in DOMAIN calls : calls'[d] = calls[d]
        /\ calls'[Len(calls')] = NewCall(rows)
    BY SendsOne DEF ByMarks
  <1>2. calls'[Len(calls')].rows = rows
    <2>1. NewCall(rows).rows = rows
      BY DEF NewCall
    <2> QED  BY <2>1, <1>1, Zenon
  <1>e. ASSUME NEW c \in DOMAIN calls' PROVE c \in DOMAIN calls \/ c = Len(calls')
    <2>1. c \in 1..(Len(calls) + 1) /\ Len(calls) \in Nat
      BY <1>1, Zenon
    <2>2. c \in 1..Len(calls) \/ c = Len(calls) + 1
      BY <2>1, OldOrNew, Zenon
    <2> QED  BY <2>2, <1>1, Zenon
  <1>3. ASSUME NEW c \in DOMAIN calls'
        PROVE  \/ c \in DOMAIN calls /\ calls'[c] = calls[c] /\ (Awaited(c)' <=> Awaited(c))
               \/ c = Len(calls') /\ calls'[c].rows = rows
    <2>1. CASE c \in DOMAIN calls
      <3>1. calls'[c] = calls[c]
        BY <2>1, <1>1
      <3> QED  BY <2>1, <3>1 DEF Awaited
    <2>2. CASE c = Len(calls')
      BY <2>2, <1>2, Zenon
    <2> QED  BY <1>e, <2>1, <2>2, Zenon
  <1>4. \A c \in DOMAIN calls' : Awaited(c)' => calls'[c].rows \subseteq marks'
    BY <1>3
  <1>5. \A c, d \in DOMAIN calls' :
            c # d /\ Awaited(c)' /\ Awaited(d)' => calls'[c].rows \cap calls'[d].rows = {}
    <2> SUFFICES ASSUME NEW c \in DOMAIN calls', NEW d \in DOMAIN calls', c # d,
                        Awaited(c)', Awaited(d)'
                 PROVE  calls'[c].rows \cap calls'[d].rows = {}
      OBVIOUS
    <2>1. CASE c \in DOMAIN calls /\ d \in DOMAIN calls
      <3>1. calls'[c] = calls[c] /\ calls'[d] = calls[d] /\ Awaited(c) /\ Awaited(d)
        BY <2>1, <1>1 DEF Awaited
      <3> QED  BY <2>1, <3>1 DEF MarksBody, RowsApart
    <2>2. CASE c \notin DOMAIN calls
      <3>1. d \in DOMAIN calls /\ calls'[c].rows = rows
        BY <2>2, <1>e, <1>2, Zenon
      <3>2. calls'[d] = calls[d] /\ Awaited(d)
        BY <3>1, <1>1 DEF Awaited
      <3> QED  BY <3>1, <3>2
    <2>3. CASE d \notin DOMAIN calls
      <3>1. c \in DOMAIN calls /\ calls'[d].rows = rows
        BY <2>3, <1>e, <1>2, Zenon
      <3>2. calls'[c] = calls[c] /\ Awaited(c)
        BY <3>1, <1>1 DEF Awaited
      <3> QED  BY <3>1, <3>2
    <2> QED  BY <2>1, <2>2, <2>3
  <1>6. RowsApart'
    BY <1>4, <1>5 DEF RowsApart
  <1>7. FlagForPage'
    BY <1>3 DEF MarksBody, FlagForPage
  <1> QED  BY <1>6, <1>7 DEF MarksBody

LEMMA MarksAnswered ==
    ASSUME TypeOK, MarksBody, ByMarks, op' = op, NEW c \in DOMAIN calls, Answer(c)
    PROVE  MarksBody'
  <1>1. /\ DOMAIN calls' = DOMAIN calls
        /\ \A d \in DOMAIN calls :
              /\ calls'[d].rows = calls[d].rows /\ calls'[d].live = calls[d].live
              /\ d # c => calls'[d] = calls[d]
        /\ calls[c].at = "sent" /\ calls'[c].at # "sent"
    BY AnswerType DEF TypeOK
  <1>2. form'.rows = form.rows /\ (form'.open => form.open)
    BY DEF Answer, Succeed, Fail, TypeOK
  <1>3. \A d \in DOMAIN calls : Awaited(d)' => Awaited(d) /\ d # c
    BY <1>1 DEF Awaited
  <1>4. PICK ok \in BOOLEAN : marks' = Unmarked(c, ok)
    BY DEF Answer, Succeed, Fail
  <1>5. CASE op.held \in {"own marks", "hook marks"}
    <2>1. marks' = marks \/ (Awaited(c) /\ marks' = marks \ calls[c].rows)
      BY <1>5, <1>4, <1>1 DEF Unmarked, Latest, Awaited
    <2>2. ASSUME NEW d \in DOMAIN calls, Awaited(d)' PROVE calls'[d].rows \subseteq marks'
      <3>1. Awaited(d) /\ d # c /\ calls'[d].rows = calls[d].rows
        BY <2>2, <1>1, <1>3
      <3>2. calls[d].rows \subseteq marks
        BY <3>1 DEF MarksBody, RowsApart
      <3>3. Awaited(c) => calls[c].rows \cap calls[d].rows = {}
        BY <3>1 DEF MarksBody, RowsApart
      <3> QED  BY <2>1, <3>1, <3>2, <3>3
    <2>3. RowsApart'
      BY <2>2, <1>1, <1>2, <1>3 DEF MarksBody, RowsApart
    <2> QED  BY <2>3, <1>5 DEF MarksBody, FlagForPage
  <1>6. CASE op.held = "start flag"
    <2>1. \A d \in DOMAIN calls : calls[d].rows = {Whole}
      BY <1>6 DEF MarksBody, FlagForPage
    <2>2. CASE marks' = marks
      <3>1. RowsApart'
        BY <2>2, <1>1, <1>2, <1>3 DEF MarksBody, RowsApart
      <3>2. FlagForPage'
        BY <2>2, <1>1, <1>2 DEF MarksBody, FlagForPage
      <3> QED  BY <3>1, <3>2 DEF MarksBody
    <2>3. CASE marks' # marks
      <3>1. Awaited(c)
        BY <2>3, <1>4, <1>6, <1>1 DEF Unmarked, Awaited
      <3>2. ~form.open
        BY <3>1, <2>1, <1>6 DEF MarksBody, RowsApart, FlagForPage
      <3>3. \A d \in DOMAIN calls : ~Awaited(d)'
        BY <3>1, <2>1, <1>3 DEF MarksBody, RowsApart
      <3>4. RowsApart'
        BY <3>2, <3>3, <1>1, <1>2 DEF RowsApart
      <3>5. FlagForPage'
        BY <3>2, <2>1, <1>1, <1>2 DEF FlagForPage
      <3> QED  BY <3>4, <3>5 DEF MarksBody
    <2> QED  BY <2>2, <2>3
  <1> QED  BY <1>5, <1>6 DEF ByMarks

LEMMA MarksNext ==
    ASSUME TypeOK, MarksBody, [Next]_vars
    PROVE  MarksBody'
  <1>0. op' = op
    BY OpStays
  <1>a. CASE ~ByMarks
    BY <1>a, <1>0 DEF MarksBody, RowsApart, FlagForPage, ByMarks
  <1>b. CASE ByMarks
    <2>f. op.ask # "form"
      BY <1>b, OpFacts DEF ByMarks
    <2>e. ASSUME NEW rows, Enabled(rows) PROVE rows \cap marks = {}
      BY <2>e, <1>b DEF Enabled, ByMarks
    <2>1. CASE Quiet
      BY <2>1 DEF Quiet, MarksBody, RowsApart, FlagForPage, ByMarks, Awaited
    <2>2. CASE Submit
      <3>1. form.open /\ Send(form.rows) /\ ~form'.open /\ marks' = Marked(form.rows)
        BY <2>2, <2>f DEF Submit, TypeOK
      <3>2. \A c \in DOMAIN calls :
                Awaited(c) => calls[c].rows \cap form.rows = {} /\ calls[c].rows \subseteq marks
        BY <3>1, <1>b DEF MarksBody, RowsApart
      <3>3. marks \subseteq marks' /\ form.rows \subseteq marks'
        BY <3>1, <1>b DEF Marked, ByMarks, MarksBody, FlagForPage
      <3>4. op.held = "start flag" => form.rows = {Whole}
        BY <3>1, <1>b DEF MarksBody, FlagForPage
      <3>5. \A c \in DOMAIN calls : Awaited(c) => calls[c].rows \subseteq marks'
        BY <3>2, <3>3
      <3> QED  BY <3>1, <3>2, <3>3, <3>4, <3>5, <1>0, <1>b, MarksSend
    <2>3. CASE Dismiss
      <3>1. ~form'.open /\ calls' = calls /\ marks' = marks
        BY <2>3 DEF Dismiss, TypeOK
      <3> QED  BY <3>1, <1>0 DEF MarksBody, RowsApart, FlagForPage, ByMarks, Awaited
    <2>4. CASE Leave
      <3>1. ~form'.open
        BY <2>4 DEF Leave, TypeOK
      <3>2. /\ DOMAIN calls' = DOMAIN calls
            /\ \A d \in DOMAIN calls : ~calls'[d].live /\ calls'[d].rows = calls[d].rows
        BY <2>4, LeaveType DEF TypeOK
      <3>3. RowsApart'
        BY <3>1, <3>2 DEF RowsApart, Awaited
      <3>4. FlagForPage'
        BY <3>1, <3>2, <1>0, <1>b DEF MarksBody, FlagForPage
      <3> QED  BY <3>3, <3>4 DEF MarksBody
    <2>5. ASSUME NEW r, MarkExpires(r) PROVE MarksBody'
      BY <2>5, <1>b, OpFacts DEF MarkExpires, ByMarks
    <2>6. ASSUME NEW rows \in Targets, Click(rows) PROVE MarksBody'
      <3>1. Send(rows) /\ ~form'.open /\ rows \cap marks = {}
        BY <2>6, <2>e DEF Click, Free
      <3>2. op.held = "start flag" => rows = {Whole}
        BY OpFacts, TargetRows
      <3>3. \A c \in DOMAIN calls : Awaited(c) => calls[c].rows \subseteq marks
        BY <1>b DEF MarksBody, RowsApart
      <3>4. \A c \in DOMAIN calls : Awaited(c) => calls[c].rows \cap rows = {}
        BY <3>1, <3>3
      <3>5. rows \subseteq marks' /\ (op.held # "start flag" => marks \subseteq marks')
        BY <2>6, <1>b DEF Click, Marked, ByMarks
      <3>6. ASSUME NEW c \in DOMAIN calls, Awaited(c) PROVE calls[c].rows \subseteq marks'
        <4>1. CASE op.held = "start flag"
          BY <4>1, <3>2, <3>4, <3>6, <1>b DEF MarksBody, FlagForPage
        <4>2. CASE op.held # "start flag"
          BY <4>2, <3>3, <3>5, <3>6
        <4> QED  BY <4>1, <4>2
      <3> QED  BY <3>1, <3>2, <3>4, <3>5, <3>6, <1>0, <1>b, MarksSend
    <2>7. ASSUME NEW rows \in Targets, Open(rows) PROVE MarksBody'
      <3>1. form'.rows = rows /\ calls' = calls /\ rows \cap marks = {}
        BY <2>7, <2>e, <2>f DEF Open
      <3>2. marks' = IF op.held = "start flag" THEN rows ELSE marks
        BY <2>7 DEF Open
      <3>3. op.held = "start flag" => rows = {Whole}
        BY OpFacts, TargetRows
      <3>4. \A c \in DOMAIN calls : Awaited(c) => calls[c].rows \subseteq marks
        BY <1>b DEF MarksBody, RowsApart
      <3>5. \A c \in DOMAIN calls : Awaited(c) => calls[c].rows \cap rows = {}
        BY <3>1, <3>4
      <3>6. ASSUME NEW c \in DOMAIN calls, Awaited(c) PROVE calls[c].rows \subseteq marks'
        <4>1. CASE op.held = "start flag"
          BY <4>1, <3>3, <3>5, <3>6, <1>b DEF MarksBody, FlagForPage
        <4>2. CASE op.held # "start flag"
          BY <4>2, <3>2, <3>4, <3>6
        <4> QED  BY <4>1, <4>2
      <3>7. RowsApart'
        BY <3>1, <3>5, <3>6, <1>0, <1>b DEF MarksBody, RowsApart, Awaited
      <3>8. FlagForPage'
        BY <3>1, <3>2, <3>3, <1>0, <1>b DEF MarksBody, FlagForPage
      <3> QED  BY <3>7, <3>8 DEF MarksBody
    <2>8. ASSUME NEW c \in DOMAIN calls, Answer(c) PROVE MarksBody'
      BY <2>8, <1>0, <1>b, MarksAnswered
    <2> QED  BY <2>1, <2>2, <2>3, <2>4, <2>5, <2>6, <2>7, <2>8, Steps
  <1> QED  BY <1>a, <1>b

LEMMA OpsInit == Init => OpsBody
  <1> SUFFICES ASSUME Init PROVE OpsBody
    OBVIOUS
  <1>1. calls = <<>> /\ ~form.open /\ form.closed = 0
    BY DEF Init
  <1>2. DOMAIN calls = {}
    BY <1>1
  <1> QED  BY <1>1, <1>2
           DEF OpsBody, DialogBody, ObserverBody, MarksBody, Numbered, Asked, ClosedByAnswer,
               OneAwaited, FormSpent, FormOnce, RowsApart, FlagForPage

LEMMA OpsNext ==
    ASSUME TypeOK, OpsBody, [Next]_vars
    PROVE  OpsBody'
  BY DialogNext, ObserverNext, MarksNext DEF OpsBody

LEMMA OpsOnce ==
    ASSUME TypeOK, OpsBody
    PROVE  SubmittedOnce
  <1> SUFFICES ASSUME Holding, op.fan = "one", NEW c \in DOMAIN calls, NEW d \in DOMAIN calls,
                      SameWork(c, d)
               PROVE  /\ ~(calls[c].at = "sent" /\ calls[d].at = "sent")
                      /\ op.ask = "form" /\ calls[c].n = calls[d].n =>
                            calls[c].at = "failed" \/ calls[d].at = "failed"
    BY DEF SubmittedOnce
  <1>1. CASE ByObserver
    <2>1. ~(calls[c].at = "sent" /\ calls[d].at = "sent")
      BY <1>1 DEF OpsBody, ObserverBody, OneAwaited, Awaited, SameWork
    <2> QED  BY <1>1, <2>1 DEF OpsBody, ObserverBody, FormOnce, SameWork
  <1>2. CASE ByMarks
    <2>1. ~(calls[c].at = "sent" /\ calls[d].at = "sent")
      BY <1>2 DEF OpsBody, MarksBody, RowsApart, Awaited, SameWork
    <2> QED  BY <1>2, <2>1, OpFacts DEF ByMarks
  <1> QED  BY <1>1, <1>2 DEF Holding, ByObserver, ByMarks

(* A control that waits for the answer starts no second call for the same  *)
(* rows, and a form is carried out at most once for each time it is        *)
(* opened: for every operation of the pages, any table and any number of   *)
(* calls and dialogs.                                                      *)
THEOREM WorkIsSubmittedOnce == Spec => []SubmittedOnce
  <1>1. Init => OpsBody
    BY OpsInit
  <1>2. TypeOK /\ OpsBody /\ [Next]_vars => OpsBody'
    BY OpsNext
  <1>3. TypeOK /\ OpsBody => SubmittedOnce
    BY OpsOnce
  <1> QED  BY <1>1, <1>2, <1>3, TypesKept, PTL DEF Spec
=============================================================================

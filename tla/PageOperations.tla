--------------------------- MODULE PageOperations ---------------------------
(***************************************************************************)
(* What happens to an operation of a page between the click and the answer: *)
(* the table it starts from, the dialog it asks with, the control it is     *)
(* started by, the calls under way and what their answers do to all of      *)
(* these. Operations has the operations; one of them is observed at a time. *)
(* A row is a number, its place in the order of the table.                  *)
(***************************************************************************)
EXTENDS Operations, Integers, FiniteSets

CONSTANTS
    Rows,        \* rows there are at first
    PageSize,    \* rows of the table on one page
    MaxCalls,    \* bound on the calls made
    MaxOpens     \* bound on the dialogs opened

ASSUME RowsAssumption == Rows \subseteq Nat \ {0} /\ IsFiniteSet(Rows) /\ Rows # {}
ASSUME BoundsAssumption == PageSize \in Nat \ {0} /\ MaxCalls \in Nat /\ MaxOpens \in Nat

VARIABLES
    op,        \* the operation observed, by its Traits
    db,        \* rows the backend has
    page,      \* page of the table
    list,      \* the answer the table shows: loaded, rows, total
    ticked,    \* the selection map
    form,      \* the dialog: open, rows, its number, what closed it
    calls,     \* the calls made, in order
    marks,     \* rows (Whole: the page) whose control a flag disables
    mounted

vars == <<op, db, page, list, ticked, form, calls, marks, mounted>>

\* An operation without a row acts on the whole page.
Whole == 0

Call == [at : {"sent", "ok", "failed"}, n : 0..MaxOpens, rows : SUBSET (Rows \cup {Whole}),
         live : BOOLEAN, told : BOOLEAN, excused : BOOLEAN]

Toasts(o) == o.mutation \in DOMAIN Mutations /\ Mutations[o.mutation].toasts

\* What tells operations apart here. A mark of use-servers runs out by a timer
\* unless it is for a deletion.
Traits(o) ==
    [start |-> o.start, ask |-> o.ask, fan |-> o.fan, close |-> o.close, tells |-> o.tells,
     clears |-> o.clears, held |-> o.held, toasts |-> Toasts(o),
     paging |-> IF o.start \in {"ticked", "map"} THEN o.paging ELSE "all",
     expires |-> o.held = PendingOps /\ o.mutation # "deleteServer"]

Observed == {Traits(o) : o \in AllOps}

\* What the operations above have in common, as the pages are written: a form is
\* closed in one of four ways, only a form can show a failure inside itself, and
\* the controls that are disabled by marks are never those of a form. A fact
\* about the data, settled by evaluating it.
ASSUME OperationsAssumption ==
    \A o \in Observed :
        /\ o.fan \in {"one", "each"}
        /\ o.ask = "form" => o.close \in {"submit", "answer", "hook", "await"}
        /\ o.tells \subseteq {"call", "catch", "hook", "inline", "form", "page"}
        /\ o.tells \cap {"inline", "form"} # {} => o.ask = "form"
        /\ o.held \in {"own marks", "hook marks", "start flag"} => o.ask # "form"
        /\ o.held = "start flag" => o.start = "page"
        /\ o.expires => o.held = "hook marks"

-----------------------------------------------------------------------------
\* The table

OnPage(rows, p) ==
    {r \in rows : Cardinality({x \in rows : x < r}) \div PageSize = p - 1}

PageCount(total) == (total + PageSize - 1) \div PageSize

NotLoaded == [loaded |-> FALSE, rows |-> {}, total |-> 0]

\* A table paged by the server shows the answer, one paged by the client a
\* slice of it.
Shown == IF op.paging = "client" THEN OnPage(list.rows, page) ELSE list.rows

Selects == op.start \in {"ticked", "map"}

(* Mutant of Targets: the bulk actions are given the selection map.        *)
TargetsTicked ==
    CASE op.start = "row"               -> {{r} : r \in Shown}
      [] op.start \in {"ticked", "map"} -> {ticked} \ {{}}
      [] OTHER                          -> {{Whole}}

\* getSelectedRowModel drops ids that are not among the rows given; the tabs
\* that read the selection map themselves do not.
Targets ==
    CASE op.start = "row"    -> {{r} : r \in Shown}
      [] op.start = "ticked" -> {ticked \cap Shown} \ {{}}
      [] op.start = "map"    -> {ticked} \ {{}}
      [] OTHER               -> {{Whole}}

Free == mounted /\ ~form.open      \* a dialog is modal

Load ==
    /\ mounted
    /\ list' = [loaded |-> TRUE, total |-> Cardinality(db),
                rows |-> IF op.paging = "server" THEN OnPage(db, page) ELSE db]
    /\ UNCHANGED <<op, db, page, ticked, form, calls, marks, mounted>>

\* The new page has a key of its own: nothing is shown until its answer is in.
TurnPage(p) ==
    /\ Free /\ Selects /\ op.paging # "all"
    /\ list.loaded /\ p # page /\ p <= PageCount(list.total)
    /\ page' = p
    /\ list' = IF op.paging = "server" THEN NotLoaded ELSE list
    /\ UNCHANGED <<op, db, ticked, form, calls, marks, mounted>>

\* setLimit, setSort, setSearch, setFilter and resetFilters go to page 1.
Refine ==
    /\ Free /\ Selects /\ op.paging = "server"
    /\ page' = 1
    /\ list' = NotLoaded
    /\ UNCHANGED <<op, db, ticked, form, calls, marks, mounted>>

Tick(r) ==
    /\ Free /\ Selects /\ r \in Shown
    /\ ticked' = IF r \in ticked THEN ticked \ {r} ELSE ticked \cup {r}
    /\ UNCHANGED <<op, db, page, list, form, calls, marks, mounted>>

\* A row goes, by this operation or by someone else's.
Vanish(r) ==
    /\ r \in db
    /\ db' = db \ {r}
    /\ UNCHANGED <<op, page, list, ticked, form, calls, marks, mounted>>

-----------------------------------------------------------------------------
\* Controls

Latest(c) == c = Len(calls) /\ calls[c].live

(* Mutant of IsPending: the observer goes away with the dialog.            *)
IsPendingWhileOpen ==
    calls # <<>> /\ Latest(Len(calls)) /\ calls[Len(calls)].at = "sent"
    /\ (op.ask = "form" => calls[Len(calls)].n = form.n)

\* isPending of an observer is about its latest call.
IsPending == calls # <<>> /\ Latest(Len(calls)) /\ calls[Len(calls)].at = "sent"

Enabled(rows) ==
    CASE op.held \in {"pending", "busy"}                                      -> ~IsPending
      [] op.held \in {"last row", "start flag", "hook marks", "own marks"}    -> rows \cap marks = {}
      [] OTHER                                                                -> TRUE

Sent(rows) ==
    LET one(rs) == [at |-> "sent", n |-> form.n, rows |-> rs, live |-> TRUE,
                    told |-> FALSE, excused |-> FALSE]
    IN  IF op.fan = "one" THEN <<one(rows)>>
        ELSE [i \in 1..Cardinality(rows) |->
                one({CHOOSE r \in rows : Cardinality({x \in rows : x < r}) = i - 1})]

Marked(rows) ==
    CASE op.held = "last row"                     -> rows
      [] op.held \in {"hook marks", "own marks"}  -> marks \cup rows
      [] OTHER                                    -> marks

Send(rows) ==
    /\ Len(calls) + Len(Sent(rows)) <= MaxCalls
    /\ calls' = calls \o Sent(rows)

Click(rows) ==
    /\ op.ask = "none" /\ Free /\ Enabled(rows)
    /\ Send(rows)
    /\ marks' = IF op.held = "start flag" THEN rows ELSE Marked(rows)
    /\ UNCHANGED <<op, db, page, list, ticked, form, mounted>>

\* The opener of a confirmation is the control itself; a form has a button of
\* its own. isStarting of the gateway is set before the reason is asked for.
Open(rows) ==
    /\ op.ask # "none" /\ Free
    /\ op.ask # "form" => Enabled(rows)
    /\ form.n < MaxOpens
    /\ form' = [open |-> TRUE, rows |-> rows, n |-> form.n + 1, closed |-> 0]
    /\ marks' = IF op.held = "start flag" THEN rows ELSE marks
    /\ UNCHANGED <<op, db, page, list, ticked, calls, mounted>>

Submit ==
    /\ form.open
    /\ op.ask = "form" => Enabled(form.rows)
    /\ Send(form.rows)
    /\ marks' = Marked(form.rows)
    /\ form' = IF op.ask = "form" /\ op.close # "submit" THEN form
               ELSE [form EXCEPT !.open = FALSE]
    /\ UNCHANGED <<op, db, page, list, ticked, mounted>>

\* Escape, the backdrop and the cross close every dialog at any time.
Dismiss ==
    /\ form.open
    /\ form' = [form EXCEPT !.open = FALSE]
    /\ UNCHANGED <<op, db, page, list, ticked, calls, marks, mounted>>

-----------------------------------------------------------------------------
\* Answers. The callbacks given to mutate run for the latest call of a mounted
\* page only, those of the hook always (external: TanStack Query).

Closes(c) ==
    \/ op.close = "answer" /\ Latest(c)
    \/ op.close \in {"hook", "await"} /\ calls[c].live

(* Mutant of Unmarked: pendingOps is cleared by the callbacks of mutate.   *)
UnmarkedByLatest(c, ok) ==
    CASE op.held \in {"hook marks", "own marks"} ->
            IF Latest(c) THEN marks \ calls[c].rows ELSE marks
      [] op.held = "last row"    -> IF calls[c].live THEN {} ELSE marks
      [] op.held = "start flag"  -> IF calls[c].live /\ ~ok THEN {} ELSE marks
      [] OTHER                   -> marks

Unmarked(c, ok) ==
    CASE op.held = "hook marks"  -> IF calls[c].live THEN marks \ calls[c].rows ELSE marks
      [] op.held = "own marks"   -> IF Latest(c) THEN marks \ calls[c].rows ELSE marks
      [] op.held = "last row"    -> IF calls[c].live THEN {} ELSE marks
      [] op.held = "start flag"  -> IF calls[c].live /\ ~ok THEN {} ELSE marks
      [] OTHER                   -> marks

InFront(c) == form.open /\ form.n = calls[c].n

(* Mutant of Told: onError of the hooks moves to the calls of mutate.      *)
ToldByLatest(c) ==
    \/ op.toasts /\ Latest(c)
    \/ op.tells \cap {"catch", "hook"} # {}
    \/ "call" \in op.tells /\ Latest(c)
    \/ "page" \in op.tells /\ calls[c].live
    \/ "inline" \in op.tells /\ Latest(c) /\ InFront(c)
    \/ "form" \in op.tells /\ calls[c].live /\ InFront(c)

\* The failure reaches the user.
Told(c) ==
    \/ op.toasts
    \/ op.tells \cap {"catch", "hook"} # {}
    \/ "call" \in op.tells /\ Latest(c)
    \/ "page" \in op.tells /\ calls[c].live
    \/ "inline" \in op.tells /\ Latest(c) /\ InFront(c)
    \/ "form" \in op.tells /\ calls[c].live /\ InFront(c)

\* The user has left, put the dialog away or gone on to another call.
Away(c) == ~Latest(c) \/ (op.ask = "form" /\ ~InFront(c))

Succeed(c) ==
    /\ calls[c].at = "sent"
    /\ calls' = [calls EXCEPT ![c].at = "ok"]
    /\ form' = IF form.open /\ Closes(c)
               THEN [form EXCEPT !.open = FALSE, !.closed = calls[c].n] ELSE form
    /\ ticked' = IF op.clears /\ Latest(c) THEN {} ELSE ticked
    /\ marks' = Unmarked(c, TRUE)
    /\ UNCHANGED <<op, db, page, list, mounted>>

(* Mutant of Fail: the form is closed in onSettled.                        *)
FailCloses(c) ==
    /\ calls[c].at = "sent"
    /\ calls' = [calls EXCEPT ![c].at = "failed", ![c].told = Told(c), ![c].excused = Away(c)]
    /\ form' = IF form.open /\ Closes(c)
               THEN [form EXCEPT !.open = FALSE, !.closed = calls[c].n] ELSE form
    /\ marks' = Unmarked(c, FALSE)
    /\ UNCHANGED <<op, db, page, list, ticked, mounted>>

Fail(c) ==
    /\ calls[c].at = "sent"
    /\ calls' = [calls EXCEPT ![c].at = "failed", ![c].told = Told(c), ![c].excused = Away(c)]
    /\ marks' = Unmarked(c, FALSE)
    /\ UNCHANGED <<op, db, page, list, ticked, form, mounted>>

Answer(c) == Succeed(c) \/ Fail(c)

\* The timers of use-servers, or a list that already shows the target status.
MarkExpires(r) ==
    /\ op.expires /\ r \in marks
    /\ marks' = marks \ {r}
    /\ UNCHANGED <<op, db, page, list, ticked, form, calls, mounted>>

-----------------------------------------------------------------------------
\* The component unmounts and mounts again with fresh state.

Leave ==
    /\ mounted
    /\ mounted' = FALSE
    /\ page' = 1 /\ list' = NotLoaded /\ ticked' = {} /\ marks' = {}
    /\ form' = [form EXCEPT !.open = FALSE]
    /\ calls' = [c \in DOMAIN calls |-> [calls[c] EXCEPT !.live = FALSE]]
    /\ UNCHANGED <<op, db>>

Return ==
    /\ ~mounted
    /\ mounted' = TRUE
    /\ UNCHANGED <<op, db, page, list, ticked, form, calls, marks>>

Init ==
    /\ op \in Observed
    /\ db = Rows
    /\ page = 1 /\ list = NotLoaded /\ ticked = {} /\ marks = {}
    /\ form = [open |-> FALSE, rows |-> {}, n |-> 0, closed |-> 0]
    /\ calls = <<>>
    /\ mounted = TRUE

Next ==
    \/ Load \/ Refine \/ Submit \/ Dismiss \/ Leave \/ Return
    \/ \E p \in 1..Cardinality(Rows) : TurnPage(p)
    \/ \E r \in Rows \cup {Whole} : Tick(r) \/ Vanish(r) \/ MarkExpires(r)
    \/ \E rows \in Targets : Click(rows) \/ Open(rows)
    \/ \E c \in DOMAIN calls : Answer(c)

Spec == Init /\ [][Next]_vars

\* Every request is answered or fails.
FairSpec == Spec /\ \A c \in 1..MaxCalls : WF_vars(c \in DOMAIN calls /\ Answer(c))

-----------------------------------------------------------------------------
TypeOK ==
    /\ op \in Observed
    /\ db \subseteq Rows
    /\ page \in 1..Cardinality(Rows)
    /\ list \in [loaded : BOOLEAN, rows : SUBSET Rows, total : 0..Cardinality(Rows)]
    /\ ticked \subseteq Rows
    /\ form \in [open : BOOLEAN, rows : SUBSET (Rows \cup {Whole}), n : 0..MaxOpens,
                 closed : 0..MaxOpens]
    /\ calls \in Seq(Call) /\ Len(calls) <= MaxCalls
    /\ marks \subseteq Rows \cup {Whole}
    /\ mounted \in BOOLEAN

\* Controls that stay disabled until the answer is in.
Holding == op.held \in {"pending", "busy", "start flag", "own marks"}
           \/ (op.held = "hook marks" /\ ~op.expires)

SameWork(c, d) == c # d /\ calls[c].live /\ calls[d].live /\ calls[c].rows \cap calls[d].rows # {}

(* While a call is under way its control cannot start another one for the  *)
(* same rows, and one opening of a form is carried out at most once, also  *)
(* when the dialog is dismissed and opened again or an answer was a        *)
(* failure (disabled={...isPending} and the row marks of the pages).       *)
SubmittedOnce ==
    Holding /\ op.fan = "one" =>
        \A c, d \in DOMAIN calls :
            SameWork(c, d) =>
                /\ ~(calls[c].at = "sent" /\ calls[d].at = "sent")
                /\ op.ask = "form" /\ calls[c].n = calls[d].n =>
                      calls[c].at = "failed" \/ calls[d].at = "failed"

(* A failure reaches the user: always where the hook or a catch raises a   *)
(* toast, and elsewhere unless the user left the page, put the dialog away *)
(* or went on to another call (onError of the hooks and pages). Operations *)
(* that report nothing at all are named in the README.                     *)
FailuresTold ==
    \A c \in DOMAIN calls :
        calls[c].at = "failed" =>
            \/ calls[c].told
            \/ ~op.toasts /\ op.tells = {}
            \/ ~op.toasts /\ op.tells \cap {"catch", "hook"} = {} /\ calls[c].excused

(* A failed submission leaves its form open for another try: the form is   *)
(* gone only if its user put it away, a submission of it succeeded, or the *)
(* late answer of an earlier dialog closed it. Not claimed for the forms   *)
(* that close as they are submitted.                                       *)
DraftSurvivesFailure ==
    op.ask = "form" /\ op.close # "submit" =>
        \A c \in DOMAIN calls :
            calls[c].at = "failed" /\ calls[c].n = form.n /\ form.closed # 0 =>
               \/ form.closed < form.n
               \/ \E d \in DOMAIN calls : calls[d].n = form.n /\ calls[d].at = "ok"

(* A control that is disabled for a call is enabled again, or the user has *)
(* left: no answer, in whatever order, leaves it disabled for good. Not    *)
(* claimed for the row marks of the volume pages and for isStarting.       *)
ControlsReleased ==
    (mounted /\ op.held \notin {"own marks", "start flag"}
             /\ \E r \in Rows \cup {Whole} : ~Enabled({r}))
        ~> (~mounted \/ \A r \in Rows \cup {Whole} : Enabled({r}))

(* A bulk operation of a DataTable begins with rows that are ticked and on *)
(* screen at that moment, whatever pages were turned, rows deleted or      *)
(* filters set since they were ticked (selectedIds of data-table.tsx).     *)
BulkHitsShown ==
    [][op.start = "ticked" =>
         /\ form'.n # form.n => form'.rows \subseteq ticked \cap Shown
         /\ Len(calls') > Len(calls) /\ op.ask = "none" =>
              calls'[Len(calls')].rows \subseteq ticked \cap Shown]_vars
=============================================================================

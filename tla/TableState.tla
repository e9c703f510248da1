----------------------------- MODULE TableState -----------------------------
(***************************************************************************)
(* A table of the web client in use. The user searches, chooses a filter,   *)
(* clicks a header, turns pages and changes their length, while rows come   *)
(* and go; the page keeps this in useDataTable (hooks/use-data-table.ts)    *)
(* and beside it (the header's sorting, the toolbar's columnFilters), asks  *)
(* the backend for the rows with the parts it passes on, or cuts them out   *)
(* of what it has, and hands them to DataTable (components/data).           *)
(*                                                                          *)
(* One table of Listings, one of its filters and one of its columns are     *)
(* observed at a time, by their Traits. A row is a number; which rows match *)
(* the search, which match the filter, which the reader may see where he    *)
(* may not see all, and their order in the column are fixed so that they    *)
(* differ. An answer for a key that is no longer asked for is not shown     *)
(* (the query cache, see QueryCache).                                       *)
(***************************************************************************)
EXTENDS Listings, Integers, FiniteSets, Sequences, SequencesExt

CONSTANTS
    Searched,      \* rows that match the search
    Filtered,      \* rows that match the filter
    Visible,       \* rows the reader may see, where there are others
    Rank,          \* [Rows -> Nat]: their order in the column
    Limits         \* lengths of a page

Rows == DOMAIN Rank

ASSUME TableAssumption ==
    /\ Rows \subseteq Nat /\ IsFiniteSet(Rows) /\ Rows # {}
    /\ Searched \subseteq Rows /\ Filtered \subseteq Rows /\ Visible \subseteq Rows
    /\ Rank \in [Rows -> Nat] /\ \A a, b \in Rows : Rank[a] = Rank[b] => a = b
    /\ Limits \subseteq Nat \ {0} /\ Limits # {}

VARIABLES
    traits,        \* of the table, filter and column observed
    table,         \* the state of the page
    rows,          \* the rows there are
    answer,        \* what DataTable is given
    wish,          \* the option of the filter the user has clicked is on
    turned,        \* the page last asked for, since the last refinement
    gone           \* rows have gone since the first page was shown

tableVars == <<traits, table, rows, answer, wish, turned, gone>>

Arrows == {"none", "asc", "desc"}

\* page, limit, search, filter and sort are useDataTable's; chosen is
\* columnFilters and arrow the sorting of the header.
Table == [page : Nat \ {0}, limit : Limits, search : BOOLEAN, filter : BOOLEAN,
          sort : Arrows, chosen : BOOLEAN, arrow : Arrows]

NoAnswer == [has |-> FALSE, rows |-> <<>>, of |-> {}]

-----------------------------------------------------------------------------
\* What is observed

\* A filter of the toolbar reaches the page only through a column of its name.
TableTraits(l, f, c) ==
    LET t == Listings[l]
    IN  [where   |-> t.where,
         search  |-> "search" \in t.asks,
         offered |-> f \in t.filters,
         filter  |-> f \in t.asks,
         column  |-> f \in t.columns,
         sort    |-> "sort" \in t.asks /\ c \in t.sorts,
         order   |-> t.order,
         restart |-> t.restart,
         shows   |-> t.shows,
         resync  |-> t.resync,
         hides   |-> t.hides,
         gaps    |-> (IF l \in SearchGaps THEN {"search"} ELSE {})
                       \cup (IF l \in PageGaps THEN {"page"} ELSE {})
                       \cup (IF l \in TurnGaps THEN {"turn"} ELSE {})
                       \cup (IF l \in HideGaps THEN {"hidden"} ELSE {})
                       \cup (IF <<l, f>> \in FilterGaps THEN {"filter"} ELSE {})
                       \cup (IF <<l, c>> \in SortGaps THEN {"sort"} ELSE {})]

\* A table without filters has none to choose.
NoFilter == "no filter"

ObservedTables ==
    UNION {{TableTraits(l, f, c) : f \in Listings[l].filters \cup {NoFilter},
                                   c \in Listings[l].columns} : l \in DOMAIN Listings}

\* What the tables have in common but for the known gaps. A fact about the data,
\* settled by evaluating it.
ASSUME ListingsAssumption ==
    \A t \in ObservedTables :
        /\ {t.search, t.offered, t.filter, t.column, t.sort, t.restart, t.shows, t.resync,
            t.hides} \subseteq BOOLEAN
        /\ t.search <=> "search" \notin t.gaps
        /\ t.where = "nobody" <=> "page" \in t.gaps
        /\ t.offered /\ "filter" \notin t.gaps => t.column /\ t.filter /\ t.shows
        /\ "sort" \notin t.gaps /\ t.order # "dead" => t.sort /\ (t.order = "state" => t.restart)
        /\ t.resync => "turn" \in t.gaps
        /\ t.hides => "hidden" \in t.gaps

-----------------------------------------------------------------------------
\* Rows: what the backend answers, and what a page that has them all cuts out.

Matching(all, search, filter) ==
    {r \in all : (search => r \in Searched) /\ (filter => r \in Filtered)}

\* Without a column the rows come in the order they have.
Place(arrow) ==
    [r \in Rows |-> IF arrow = "none" THEN r ELSE IF arrow = "asc" THEN Rank[r] ELSE -Rank[r]]

\* A row stands behind those with a lower place.
Sorted(S, arrow) ==
    LET place == Place(arrow)
    IN  [i \in 1 .. Cardinality(S) |->
            CHOOSE r \in S : Cardinality({x \in S : place[x] < place[r]}) = i - 1]

Cut(seq, page, limit) ==
    SubSeq(seq, (page - 1) * limit + 1,
           IF page * limit > Len(seq) THEN Len(seq) ELSE page * limit)

\* The sort asked for.
Asked(tb) == IF traits.order = "state" THEN tb.sort ELSE tb.arrow

\* The sort the rows come in.
Order(tb) == IF traits.sort THEN Asked(tb) ELSE "none"

\* The rows of a page without those the reader may not see.
Shown(seq, tb) ==
    IF traits.hides THEN Sorted(ToSet(seq) \cap Visible, Order(tb)) ELSE seq

\* What DataTable is given, from the state of the page and the rows there are: the
\* rows that match are put in order and cut, and only then are rows dropped that
\* the reader may not see.
Given(tb, all) ==
    LET found == Sorted(Matching(all, tb.search /\ traits.search, tb.filter /\ traits.filter),
                        Order(tb))
        page == IF traits.where = "nobody" THEN found ELSE Cut(found, tb.page, tb.limit)
    IN  [has |-> TRUE, of |-> all, rows |-> Shown(page, tb)]

(* Mutant of Key: the filter is passed on and is no part of the key.       *)
KeyAnyFilter(tb) ==
    <<tb.page, tb.limit, traits.search /\ tb.search, Order(tb)>>

\* The key of the query: the parts of the state it passes on.
Key(tb) ==
    <<tb.page, tb.limit, traits.search /\ tb.search, traits.filter /\ tb.filter, Order(tb)>>

\* totalCount, as DataTable is told: all that match, with those the reader may not
\* see.
Total ==
    Cardinality(Matching(answer.of, table.search /\ traits.search,
                                    table.filter /\ traits.filter))

PageCount == (Total + table.limit - 1) \div table.limit

PagesOffered == 1 .. PageCount

\* DataTable renders headers and rows only when it was given rows, and below
\* them, when they fill more than one page, the page numbers and the choice of a
\* length.
Listed == answer.has /\ answer.rows # <<>>

Paged == Listed /\ Total > table.limit

-----------------------------------------------------------------------------
TableInit ==
    /\ traits \in ObservedTables
    /\ table \in [page : {1}, limit : Limits, search : {FALSE}, filter : {FALSE},
                   sort : {"none"}, chosen : {FALSE}, arrow : {"none"}]
    /\ rows = Rows
    /\ answer = NoAnswer
    /\ wish = FALSE
    /\ turned = 1
    /\ gone = FALSE

(* Mutant of Rendered: the filter is copied whenever anything changes.     *)
RenderedAnew(tb) == IF tb.chosen THEN [tb EXCEPT !.filter = TRUE, !.page = 1] ELSE tb

\* The effect that copies the chosen filter, when it runs at every render.
Rendered(tb) ==
    IF traits.resync /\ tb.chosen THEN [tb EXCEPT !.filter = TRUE, !.page = 1] ELSE tb

\* The page with its new state: another key is fetched, rows at hand are cut.
Becomes(tb) ==
    LET new == Rendered(tb)
    IN  /\ table' = new
        /\ answer' = IF traits.where = "page" THEN Given(new, rows)
                     ELSE IF Key(new) = Key(table) THEN answer ELSE NoAnswer
        /\ gone' = IF new.page = 1 THEN FALSE ELSE gone
        /\ UNCHANGED <<traits, rows>>

(* Mutant of FirstPage: the page number stays.                             *)
FirstPageNot(tb) == tb

FirstPage(tb) == [tb EXCEPT !.page = 1]

\* setSearch
Search ==
    /\ Becomes(FirstPage([table EXCEPT !.search = ~@]))
    /\ turned' = 1
    /\ UNCHANGED wish

\* A filter is chosen or cleared: column.setFilterValue if there is the column,
\* then the effect that calls setFilter.
ChooseFilter ==
    /\ traits.offered
    /\ wish' = ~wish
    /\ \/ /\ traits.column
          /\ Becomes(FirstPage([table EXCEPT !.chosen = ~@, !.filter = ~@]))
          /\ turned' = 1
       \/ /\ ~traits.column
          /\ UNCHANGED <<traits, table, rows, answer, turned, gone>>

NextArrow == [none |-> "asc", asc |-> "desc", desc |-> "none"]

\* A click on the header: onSortingChange, and setSort unless the sort is off.
ClickHeader ==
    /\ Listed /\ traits.order # "dead"
    /\ LET arrow == NextArrow[table.arrow]
           tb == [table EXCEPT !.arrow = arrow]
       IN  IF traits.restart /\ arrow # "none"
           THEN Becomes(FirstPage([tb EXCEPT !.sort = arrow])) /\ turned' = 1
           ELSE Becomes(tb) /\ UNCHANGED turned
    /\ UNCHANGED wish

\* setPage, with a page that is offered, and setLimit
TurnPage(p) ==
    /\ Paged /\ p # table.page
    /\ Becomes([table EXCEPT !.page = p])
    /\ turned' = p
    /\ UNCHANGED wish

SetLimit(n) ==
    /\ Paged /\ n # table.limit
    /\ Becomes(FirstPage([table EXCEPT !.limit = n]))
    /\ turned' = 1
    /\ UNCHANGED wish

\* The answer of the backend for the key asked for, and a later one: what there
\* is has changed and the query is invalidated.
Answer ==
    /\ traits.where # "page" /\ ~answer.has
    /\ answer' = Given(table, rows)
    /\ UNCHANGED <<traits, table, rows, wish, turned, gone>>

Change(all) ==
    /\ rows' = all
    /\ answer' = IF traits.where = "page" THEN Given(table, all) ELSE NoAnswer
    /\ UNCHANGED <<traits, table, wish, turned>>

RowComes(r) == r \notin rows /\ Change(rows \cup {r}) /\ UNCHANGED gone

RowGoes(r) == r \in rows /\ Change(rows \ {r}) /\ gone' = TRUE

TableNext ==
    \/ Search \/ ChooseFilter \/ ClickHeader \/ Answer
    \/ \E p \in PagesOffered : TurnPage(p)
    \/ \E n \in Limits : SetLimit(n)
    \/ \E r \in Rows : RowComes(r) \/ RowGoes(r)

TableSpec == TableInit /\ [][TableNext]_tableVars

-----------------------------------------------------------------------------
\* The state is what the page can hold, and the page on screen is one the
\* pagination has offered: no further than the rows there have ever been.
TableTypeOK ==
    /\ traits \in ObservedTables
    /\ table \in Table /\ table.page <= Cardinality(Rows)
    /\ rows \subseteq Rows
    /\ answer.of \subseteq Rows /\ answer.rows \in Seq(Rows)
    /\ wish \in BOOLEAN
    /\ turned \in 1 .. Cardinality(Rows)
    /\ gone \in BOOLEAN

\* What the user has asked of the table; with a gap, what the page makes of it.
SaidSearch == IF "search" \in traits.gaps THEN FALSE ELSE table.search
SaidFilter == IF "filter" \in traits.gaps THEN table.filter /\ traits.filter ELSE wish

\* A table shows what its controls say (the pages with a DataTable, their hooks
\* and components/data): the rows on screen are those that match the text in the
\* search box and the filter that was clicked, cut to the page and in the order
\* of the arrow, and the toolbar marks that filter; for every table, filter and
\* column but the known gaps, whatever was clicked before. For who does not see
\* every plan (HideGaps) it says only that what is on screen matches and that the
\* toolbar marks the filter: the cut is of all plans (plan_service.list_plans).
ShownAsOffered ==
    answer.has =>
        LET said == Matching(answer.of, SaidSearch, SaidFilter)
            paged == "page" \notin traits.gaps
        IN  /\ ToSet(answer.rows) \subseteq said
            /\ "hidden" \notin traits.gaps => Len(answer.rows) =
                  IF paged THEN Len(Cut(Sorted(said, "none"), table.page, table.limit))
                  ELSE Cardinality(said)
            /\ paged /\ {"sort", "hidden"} \cap traits.gaps = {} /\ table.arrow # "none" =>
                  answer.rows = Cut(Sorted(said, table.arrow), table.page, table.limit)
            /\ "filter" \notin traits.gaps => (table.chosen /\ traits.shows) = wish

\* Refining a table never leaves its user on an empty page (use-data-table.ts:
\* the setters go back to page 1): as long as no row goes, a table with rows
\* that match shows some. (When rows go, the page may be empty, and DataTable
\* shows no page numbers to leave it by.) Not so for who does not see every plan
\* (HideGaps): a page may hold none of those he sees.
NotStranded ==
    "hidden" \notin traits.gaps /\ answer.has /\ ~gone
        /\ Matching(answer.of, table.search /\ traits.search, table.filter /\ traits.filter) # {}
        => answer.rows # <<>>

\* The page asked for stays until the user refines the table (setPage): neither
\* an answer nor the effect that copies the filters turns it back.
TurnStays == "turn" \notin traits.gaps => table.page = turned
=============================================================================

------------------------- MODULE ClientViewsProofs -------------------------
(***************************************************************************)
(* Theorems about what the pages of the web client show: a table in use     *)
(* (TableState), the query cache (QueryCache) and the gateway page          *)
(* (ServerGateway). The three are separate systems: each theorem is about   *)
(* the specification of one and leaves the variables of the others free.    *)
(*                                                                          *)
(* Tables: TableInv says that toolbar, header, answer and page number       *)
(* agree; what sorting a set of rows yields follows from counting the rows  *)
(* ahead of each (PlacesTaken). The cache: CacheInv is about each entry on  *)
(* its own (EntryKept), and the actions are taken by what they do to one.   *)
(* The gateway page: the mark in sessionStorage (MarkKept) and the redirect *)
(* under way (RedirectUnderWay).                                            *)
(***************************************************************************)
EXTENDS TableState, QueryCache, ServerGateway, FiniteSetTheorems, TLAPS

-----------------------------------------------------------------------------
(*****************************************************************************)
(* Tables                                                                    *)
(*****************************************************************************)
Found(tb, all) == Matching(all, tb.search /\ traits.search, tb.filter /\ traits.filter)

(* The filter the page uses is the one the toolbar marks, and the one the  *)
(* user clicked if that could reach the page.                              *)
ToolbarKept ==
    /\ table.filter = table.chosen
    /\ traits.column => wish = table.chosen
    /\ ~traits.column => ~table.chosen
    /\ ~traits.offered => ~wish

(* The arrow of the header is the sort, where the page keeps both.         *)
HeaderKept ==
    /\ traits.order = "dead" => table.arrow = "none"
    /\ traits.restart /\ table.arrow # "none" => table.sort = table.arrow

(* An answer that is shown was given for the state of the page.            *)
AnswerKept == answer = NoAnswer \/ answer = Given(table, rows)

(* As long as no row goes, the page on screen begins before the last row.  *)
PageKept ==
    ~gone => \/ table.page = 1
             \/ (table.page - 1) * table.limit < Cardinality(Found(table, rows))

TableInv ==
    TableTypeOK /\ ToolbarKept /\ HeaderKept /\ AnswerKept /\ PageKept /\ TurnStays

-----------------------------------------------------------------------------
\* Places

\* A part of the rows is finite and no larger than all of them.
LEMMA FiniteRows ==
    ASSUME NEW S \in SUBSET Rows
    PROVE  IsFiniteSet(S) /\ Cardinality(S) \in Nat /\ Cardinality(S) <= Cardinality(Rows)
           /\ Cardinality(Rows) \in Nat \ {0}
  <1>1. IsFiniteSet(S) /\ Cardinality(S) <= Cardinality(Rows)
    BY FS_Subset, TableAssumption
  <1>2. Cardinality(S) \in Nat /\ Cardinality(Rows) \in Nat
    BY <1>1, FS_CardinalityType, TableAssumption
  <1>3. Cardinality(Rows) # 0
    BY FS_EmptySet, TableAssumption
  <1> QED  BY <1>1, <1>2, <1>3

(* No two rows have the same place, whatever the arrow.                    *)
LEMMA PlaceApart ==
    ASSUME NEW a
    PROVE  /\ Place(a) \in [Rows -> Int]
           /\ \A x, y \in Rows : Place(a)[x] = Place(a)[y] => x = y
  BY TableAssumption DEF Place

Ahead(S, f, r) == {x \in S : f[x] < f[r]}

(* In a finite set of rows every place is taken by some row.               *)
LEMMA PlacesTaken ==
    ASSUME NEW S \in SUBSET Rows, NEW f \in [Rows -> Int],
           \A x, y \in Rows : f[x] = f[y] => x = y
    PROVE  \A i \in 1 .. Cardinality(S) : \E r \in S : Cardinality(Ahead(S, f, r)) = i - 1
  <1> DEFINE n == Cardinality(S)
             T == 0 .. n - 1
             g == [r \in S |-> Cardinality(Ahead(S, f, r))]
  <1>1. IsFiniteSet(S) /\ n \in Nat
    BY FiniteRows
  <1>2. ASSUME NEW r \in S
        PROVE  /\ Ahead(S, f, r) \in SUBSET S /\ r \notin Ahead(S, f, r)
               /\ IsFiniteSet(Ahead(S, f, r)) /\ Cardinality(Ahead(S, f, r)) \in T
    <2>1. Ahead(S, f, r) \in SUBSET S /\ r \notin Ahead(S, f, r)
      BY DEF Ahead
    <2>2. /\ IsFiniteSet(Ahead(S, f, r)) /\ Cardinality(Ahead(S, f, r)) <= n
          /\ n = Cardinality(Ahead(S, f, r)) => S = Ahead(S, f, r)
      BY <2>1, <1>1, FS_Subset
    <2>3. Cardinality(Ahead(S, f, r)) \in Nat
      BY <2>2, FS_CardinalityType
    <2> QED  BY <2>1, <2>2, <2>3, <1>1
  <1>3. ASSUME NEW q \in S, NEW r \in S, f[q] < f[r]
        PROVE  Cardinality(Ahead(S, f, q)) # Cardinality(Ahead(S, f, r))
    <2>1. Ahead(S, f, q) \in SUBSET Ahead(S, f, r)
      BY <1>3 DEF Ahead
    <2>2. q \in Ahead(S, f, r) /\ q \notin Ahead(S, f, q)
      BY <1>3 DEF Ahead
    <2>3. IsFiniteSet(Ahead(S, f, r))
      BY <1>2
    <2> QED  BY <2>1, <2>2, <2>3, FS_Subset
  <1>4. \A q, r \in S : g[q] = g[r] => q = r
    <2> SUFFICES ASSUME NEW q \in S, NEW r \in S, q # r
                 PROVE  Cardinality(Ahead(S, f, q)) # Cardinality(Ahead(S, f, r))
      OBVIOUS
    <2>1. f[q] \in Int /\ f[r] \in Int /\ f[q] # f[r]
      OBVIOUS
    <2>2. f[q] < f[r] \/ f[r] < f[q]
      BY <2>1
    <2> QED  BY <2>2, <1>3
  <1>5. g \in [S -> T]
    BY <1>2
  <1>6. g \in Injection(S, T)
    BY <1>4, <1>5 DEF Injection, IsInjective
  <1>7. IsFiniteSet(T) /\ Cardinality(T) = n
    BY <1>1, FS_Interval
  <1>8. g \in Surjection(S, T)
    BY <1>6, <1>7, FS_Injection
  <1>9. \A t \in T : \E r \in S : g[r] = t
    BY <1>8 DEF Surjection
  <1>10. ASSUME NEW i \in 1 .. n PROVE \E r \in S : Cardinality(Ahead(S, f, r)) = i - 1
    <2>1. i - 1 \in T
      BY <1>1
    <2> QED  BY <2>1, <1>9
  <1> QED  BY <1>10

(* Sorting rows is listing each of their places once.                      *)
LEMMA SortedType ==
    ASSUME NEW S \in SUBSET Rows, NEW a
    PROVE  Sorted(S, a) \in Seq(S) /\ Len(Sorted(S, a)) = Cardinality(S)
  <1> DEFINE f == Place(a)
             pick(i) == CHOOSE r \in S : Cardinality({x \in S : f[x] < f[r]}) = i - 1
  <1>0. f \in [Rows -> Int] /\ \A x, y \in Rows : f[x] = f[y] => x = y
    BY PlaceApart
  <1> HIDE DEF f
  <1>1. \A i \in 1 .. Cardinality(S) :
            \E r \in S : Cardinality({x \in S : f[x] < f[r]}) = i - 1
    <2>1. \A i \in 1 .. Cardinality(S) : \E r \in S : Cardinality(Ahead(S, f, r)) = i - 1
      BY <1>0, PlacesTaken
    <2> QED  BY <2>1 DEF Ahead
  <1>2. \A i \in 1 .. Cardinality(S) : pick(i) \in S
    BY <1>1
  <1>3. Sorted(S, a) = [i \in 1 .. Cardinality(S) |-> pick(i)]
    BY DEF Sorted, f
  <1> HIDE DEF pick
  <1>4. Cardinality(S) \in Nat
    BY FiniteRows
  <1>5. Sorted(S, a) \in [1 .. Cardinality(S) -> S]
    BY <1>2, <1>3
  <1> QED  BY <1>4, <1>5

(* A page that begins before the end of the list is not empty.             *)
LEMMA CutType ==
    ASSUME NEW S, NEW seq \in Seq(S), NEW page \in Nat \ {0}, NEW limit \in Nat \ {0}
    PROVE  /\ Cut(seq, page, limit) \in Seq(S)
           /\ (page - 1) * limit < Len(seq) => Cut(seq, page, limit) # <<>>
  <1> DEFINE m == (page - 1) * limit + 1
             n == IF page * limit > Len(seq) THEN Len(seq) ELSE page * limit
  <1>1. m \in Nat \ {0} /\ page * limit \in Nat /\ page * limit = m + limit - 1
    OBVIOUS
  <1>2. /\ Cut(seq, page, limit) \in Seq(S)
        /\ Len(Cut(seq, page, limit)) = IF m <= n THEN n - m + 1 ELSE 0
    <2> HIDE DEF m
    <2>1. Len(seq) \in Nat /\ n \in Int /\ n <= Len(seq)
      BY <1>1
    <2>2. \A i \in m .. n : seq[i] \in S
      BY <1>1, <2>1
    <2>3. Cut(seq, page, limit) = SubSeq(seq, m, n)
      BY DEF Cut, m
    <2> HIDE DEF n
    <2> QED  BY <2>1, <2>2, <2>3, <1>1
  <1>3. ASSUME m - 1 < Len(seq) PROVE Cut(seq, page, limit) # <<>>
    <2>1. Len(seq) \in Nat
      OBVIOUS
    <2>2. m <= n /\ n \in Nat
      <3> HIDE DEF m
      <3> QED  BY <1>3, <1>1, <2>1
    <2>3. Len(Cut(seq, page, limit)) > 0
      <3> HIDE DEF m, n
      <3> QED  BY <2>2, <1>1, <1>2
    <2> QED  BY <2>3
  <1>4. (page - 1) * limit < Len(seq) => m - 1 < Len(seq)
    BY <1>1
  <1> QED  BY <1>2, <1>3, <1>4

(* The length of a page is settled by that of the list.                    *)
LEMMA CutLength ==
    ASSUME NEW S, NEW s \in Seq(S), NEW t \in Seq(S), Len(s) = Len(t),
           NEW page \in Nat \ {0}, NEW limit \in Nat \ {0}
    PROVE  Len(Cut(s, page, limit)) = Len(Cut(t, page, limit))
  <1> DEFINE m == (page - 1) * limit + 1
             n == IF page * limit > Len(s) THEN Len(s) ELSE page * limit
  <1>1. m \in Nat \ {0} /\ page * limit \in Nat
    OBVIOUS
  <1>2. Cut(s, page, limit) = SubSeq(s, m, n) /\ Cut(t, page, limit) = SubSeq(t, m, n)
    BY DEF Cut
  <1> HIDE DEF m
  <1>3. n \in Int /\ \A i \in m .. n : s[i] \in S /\ t[i] \in S
    BY <1>1
  <1> HIDE DEF n
  <1> QED  BY <1>1, <1>2, <1>3

(* The last page that is offered begins before the end.                    *)
LEMMA OfferedBegins ==
    ASSUME NEW total \in Nat, NEW limit \in Nat \ {0},
           NEW p \in 1 .. (total + limit - 1) \div limit
    PROVE  (p - 1) * limit < total /\ p <= total
  <1> DEFINE c == (total + limit - 1) \div limit
  <1>1. c \in Int /\ c * limit <= total + limit - 1
    OBVIOUS
  <1> HIDE DEF c
  <1>2. p \in Nat \ {0} /\ p <= c
    BY <1>1 DEF c
  <1>3. p * limit <= c * limit
    BY <1>1, <1>2
  <1>4. p * limit = (p - 1) * limit + limit /\ (p - 1) * limit >= p - 1
    BY <1>2
  <1>5. p * limit \in Int /\ (p - 1) * limit \in Int /\ c * limit \in Int
    BY <1>1, <1>2
  <1> QED  BY <1>1, <1>2, <1>3, <1>4, <1>5

-----------------------------------------------------------------------------
\* What DataTable is given

\* What is found is a part of the rows there are.
LEMMA FoundRows ==
    ASSUME NEW tb, NEW all \in SUBSET Rows
    PROVE  Found(tb, all) \in SUBSET all /\ Found(tb, all) \in SUBSET Rows
           /\ Cardinality(Found(tb, all)) \in Nat
           /\ Cardinality(Found(tb, all)) <= Cardinality(Rows)
  <1>1. Found(tb, all) \in SUBSET all /\ Found(tb, all) \in SUBSET Rows
    BY DEF Found, Matching
  <1> QED  BY <1>1, FiniteRows

LEMMA SeqOfPart ==
    ASSUME NEW S, NEW T, S \subseteq T, NEW s \in Seq(S)
    PROVE  s \in Seq(T)
  OBVIOUS

\* What DataTable is given, part by part: what was found, cut, and nothing else
\* unless rows are dropped.
LEMMA GivenParts ==
    ASSUME NEW tb \in Table, NEW all \in SUBSET Rows
    PROVE  LET found == Sorted(Found(tb, all), Order(tb))
           IN  /\ Given(tb, all).has /\ Given(tb, all).of = all
               /\ ~traits.hides =>
                     Given(tb, all).rows = IF traits.where = "nobody" THEN found
                                           ELSE Cut(found, tb.page, tb.limit)
               /\ found \in Seq(Found(tb, all))
               /\ Len(found) = Cardinality(Found(tb, all))
               /\ Given(tb, all).rows \in Seq(Found(tb, all))
  <1> DEFINE found == Sorted(Found(tb, all), Order(tb))
             page == IF traits.where = "nobody" THEN found ELSE Cut(found, tb.page, tb.limit)
             seen == ToSet(page) \cap Visible
  <1>1. found \in Seq(Found(tb, all)) /\ Len(found) = Cardinality(Found(tb, all))
    BY FoundRows, SortedType
  <1>2. /\ Given(tb, all).has /\ Given(tb, all).of = all
        /\ Given(tb, all).rows = IF traits.hides THEN Sorted(seen, Order(tb)) ELSE page
    <2>1. Given(tb, all) = [has |-> TRUE, of |-> all, rows |-> Shown(page, tb)]
      BY DEF Given, Found
    <2>2. Shown(page, tb) = IF traits.hides THEN Sorted(seen, Order(tb)) ELSE page
      BY DEF Shown
    <2> HIDE DEF page, seen
    <2> QED  BY <2>1, <2>2
  <1>3. tb.page \in Nat \ {0} /\ tb.limit \in Nat \ {0}
    BY TableAssumption DEF Table
  <1> HIDE DEF found
  <1>4. Cut(found, tb.page, tb.limit) \in Seq(Found(tb, all))
    BY <1>1, <1>3, CutType
  <1>5. page \in Seq(Found(tb, all))
    BY <1>1, <1>4
  <1> HIDE DEF page
  <1>6. seen \in SUBSET Found(tb, all) /\ seen \in SUBSET Rows
    <2>1. ToSet(page) \subseteq Found(tb, all)
      BY <1>5 DEF ToSet
    <2> QED  BY <2>1, FoundRows
  <1> HIDE DEF seen
  <1>7. Sorted(seen, Order(tb)) \in Seq(Found(tb, all))
    BY <1>6, SortedType, SeqOfPart
  <1>8. Given(tb, all).rows \in Seq(Found(tb, all))
    BY <1>2, <1>5, <1>7
  <1> QED  BY <1>1, <1>2, <1>8 DEF found, page

LEMMA NoAnswerParts ==
    ~NoAnswer.has /\ NoAnswer.of \subseteq Rows /\ NoAnswer.rows \in Seq(Rows)
  BY DEF NoAnswer

LEMMA AnswerType ==
    ASSUME NEW tb \in Table, NEW all \in SUBSET Rows, NEW a,
           a = NoAnswer \/ a = Given(tb, all)
    PROVE  a.of \subseteq Rows /\ a.rows \in Seq(Rows)
  <1>1. Given(tb, all).of \subseteq Rows /\ Given(tb, all).rows \in Seq(Rows)
    BY GivenParts, FoundRows, SeqOfPart
  <1> QED  BY <1>1, NoAnswerParts

(* The same key, the same answer.                                          *)
LEMMA KeyDecides ==
    ASSUME NEW tb, NEW new, NEW all, Key(tb) = Key(new)
    PROVE  Given(tb, all) = Given(new, all)
  <1>1. /\ tb.page = new.page /\ tb.limit = new.limit
        /\ (traits.search /\ tb.search) = (traits.search /\ new.search)
        /\ (traits.filter /\ tb.filter) = (traits.filter /\ new.filter)
        /\ Order(tb) = Order(new)
    BY DEF Key
  <1>2. Matching(all, tb.search /\ traits.search, tb.filter /\ traits.filter)
          = Matching(all, new.search /\ traits.search, new.filter /\ traits.filter)
    BY <1>1 DEF Matching
  <1> QED  BY <1>1, <1>2 DEF Given, Shown

-----------------------------------------------------------------------------
\* A change of the page's state

\* ListingsAssumption, of the table at hand
LEMMA TraitsFacts ==
    ASSUME TableTypeOK
    PROVE  /\ traits.search \in BOOLEAN /\ traits.filter \in BOOLEAN
           /\ traits.sort \in BOOLEAN /\ traits.offered \in BOOLEAN
           /\ traits.column \in BOOLEAN /\ traits.restart \in BOOLEAN
           /\ traits.shows \in BOOLEAN /\ traits.resync \in BOOLEAN
           /\ traits.search <=> "search" \notin traits.gaps
           /\ traits.where = "nobody" <=> "page" \in traits.gaps
           /\ traits.offered /\ "filter" \notin traits.gaps =>
                 traits.column /\ traits.filter /\ traits.shows
           /\ "sort" \notin traits.gaps /\ traits.order # "dead" =>
                 traits.sort /\ (traits.order = "state" => traits.restart)
           /\ traits.resync => "turn" \in traits.gaps
           /\ traits.hides => "hidden" \in traits.gaps
  BY ListingsAssumption DEF TableTypeOK

\* The effect that copies the filters changes the page number only, and only in
\* the tables where it runs at every render.
LEMMA RenderedParts ==
    ASSUME NEW tb \in Table, tb.filter = tb.chosen
    PROVE  LET new == Rendered(tb)
           IN  /\ new \in Table
               /\ new.page = tb.page \/ (new.page = 1 /\ traits.resync)
               /\ new.limit = tb.limit /\ new.search = tb.search
               /\ new.filter = tb.filter /\ new.chosen = tb.chosen
               /\ new.sort = tb.sort /\ new.arrow = tb.arrow
  <1>1. CASE traits.resync /\ tb.chosen
    <2>1. Rendered(tb) = [tb EXCEPT !.filter = TRUE, !.page = 1]
      BY <1>1 DEF Rendered
    <2>2. tb.filter = TRUE
      BY <1>1 DEF Table
    <2> DEFINE new == [tb EXCEPT !.filter = TRUE, !.page = 1]
    <2>3. new \in Table
      <3> DEFINE Numbers == Nat \ {0}
      <3>1. 1 \in Numbers
        OBVIOUS
      <3>2. Table = [page : Numbers, limit : Limits, search : BOOLEAN, filter : BOOLEAN,
                     sort : Arrows, chosen : BOOLEAN, arrow : Arrows]
        BY DEF Table
      <3> HIDE DEF Numbers
      <3> QED  BY <3>1, <3>2
    <2>4. /\ new.page = 1 /\ new.filter = TRUE /\ new.limit = tb.limit
          /\ new.search = tb.search /\ new.chosen = tb.chosen
          /\ new.sort = tb.sort /\ new.arrow = tb.arrow
      BY DEF Table
    <2> HIDE DEF new
    <2> QED  BY <2>1, <2>2, <2>3, <2>4, <1>1, Zenon DEF new
  <1>2. CASE ~(traits.resync /\ tb.chosen)
    <2>1. Rendered(tb) = tb
      BY <1>2 DEF Rendered
    <2> QED  BY <2>1
  <1> QED  BY <1>1, <1>2

(* What any change of the page's state keeps, if the new state fits the    *)
(* toolbar and the header and its page, if not the first, has rows.        *)
LEMMA BecomesKeeps ==
    ASSUME TableInv, NEW tb \in Table, Becomes(tb),
           tb.filter = tb.chosen, tb.page <= Cardinality(Rows),
           ~gone => tb.page = 1 \/ (tb.page - 1) * tb.limit < Cardinality(Found(tb, rows)),
           traits.order = "dead" => tb.arrow = "none",
           traits.restart /\ tb.arrow # "none" => tb.sort = tb.arrow
    PROVE  /\ traits' = traits /\ rows' = rows /\ gone' \in BOOLEAN
           /\ table' \in Table /\ table'.page <= Cardinality(Rows)
           /\ table'.filter = table'.chosen /\ table'.chosen = tb.chosen
           /\ "turn" \notin traits.gaps => table'.page = tb.page
           /\ HeaderKept' /\ AnswerKept' /\ PageKept'
           /\ answer'.of \subseteq Rows /\ answer'.rows \in Seq(Rows)
  <1> DEFINE new == Rendered(tb)
  <1>1. /\ new \in Table
        /\ new.page = tb.page \/ (new.page = 1 /\ traits.resync)
        /\ new.limit = tb.limit /\ new.search = tb.search
        /\ new.filter = tb.filter /\ new.chosen = tb.chosen
        /\ new.sort = tb.sort /\ new.arrow = tb.arrow
    BY RenderedParts
  <1>2. /\ traits' = traits /\ rows' = rows /\ table' = new
        /\ answer' = IF traits.where = "page" THEN Given(new, rows)
                     ELSE IF Key(new) = Key(table) THEN answer ELSE NoAnswer
        /\ gone' = IF new.page = 1 THEN FALSE ELSE gone
    BY DEF Becomes
  <1> HIDE DEF new
  <1>3. TableTypeOK /\ gone \in BOOLEAN /\ rows \in SUBSET Rows
        /\ Cardinality(Rows) \in Nat \ {0}
    BY FiniteRows DEF TableInv, TableTypeOK
  <1>4. gone' \in BOOLEAN
    BY <1>2, <1>3
  <1>5. table' \in Table /\ table'.filter = table'.chosen /\ table'.chosen = tb.chosen
    BY <1>1, <1>2
  <1>6. table'.page <= Cardinality(Rows)
    BY <1>1, <1>2, <1>3 DEF Table
  <1>7. "turn" \notin traits.gaps => table'.page = tb.page
    BY <1>1, <1>2, <1>3, TraitsFacts
  <1>8. HeaderKept'
    BY <1>1, <1>2 DEF HeaderKept
  <1>9. answer' = NoAnswer \/ answer' = Given(new, rows)
    BY <1>2, KeyDecides DEF TableInv, AnswerKept
  <1>10. AnswerKept'
    <2>1. Given(table, rows)' = Given(new, rows)
      BY <1>2 DEF Given, Shown, Order, Asked
    <2> QED  BY <1>9, <2>1 DEF AnswerKept, NoAnswer
  <1>11. answer'.of \subseteq Rows /\ answer'.rows \in Seq(Rows)
    BY <1>1, <1>3, <1>9, AnswerType
  <1>12. PageKept'
    <2>1. Found(table, rows)' = Found(tb, rows)
      BY <1>1, <1>2 DEF Found, Matching
    <2>2. CASE new.page = 1
      BY <1>2, <2>2 DEF PageKept
    <2>3. CASE new.page # 1
      BY <1>1, <1>2, <2>1, <2>3 DEF PageKept
    <2> QED  BY <2>2, <2>3
  <1> QED  BY <1>2, <1>4, <1>5, <1>6, <1>7, <1>8, <1>10, <1>11, <1>12

-----------------------------------------------------------------------------
\* The steps

Numbers == Nat \ {0}

LEMMA TableFields ==
    ASSUME NEW tb
    PROVE  tb \in Table <=>
              tb \in [page : Numbers, limit : Limits, search : BOOLEAN, filter : BOOLEAN,
                      sort : Arrows, chosen : BOOLEAN, arrow : Arrows]
  BY DEF Table, Numbers

\* The setters, field by field
LEMMA FirstPageParts ==
    ASSUME NEW tb \in Table
    PROVE  LET new == FirstPage(tb)
           IN  /\ new \in Table /\ new.page = 1
               /\ new.limit = tb.limit /\ new.search = tb.search
               /\ new.filter = tb.filter /\ new.chosen = tb.chosen
               /\ new.sort = tb.sort /\ new.arrow = tb.arrow
  <1>1. 1 \in Numbers
    BY DEF Numbers
  <1>2. FirstPage(tb) = [tb EXCEPT !.page = 1]
    BY DEF FirstPage
  <1> QED  BY <1>1, <1>2, TableFields

LEMMA SearchParts ==
    ASSUME NEW tb \in Table, NEW b \in BOOLEAN
    PROVE  LET new == [tb EXCEPT !.search = b]
           IN  /\ new \in Table
               /\ new.filter = tb.filter /\ new.chosen = tb.chosen
               /\ new.sort = tb.sort /\ new.arrow = tb.arrow
  BY TableFields

LEMMA FilterParts ==
    ASSUME NEW tb \in Table, NEW c \in BOOLEAN, NEW f \in BOOLEAN
    PROVE  LET new == [tb EXCEPT !.chosen = c, !.filter = f]
           IN  /\ new \in Table
               /\ new.filter = f /\ new.chosen = c
               /\ new.sort = tb.sort /\ new.arrow = tb.arrow
  <1> DEFINE new == [tb EXCEPT !.chosen = c, !.filter = f]
             mid == [tb EXCEPT !.chosen = c]
  <1>1. new \in Table
    <2>1. mid \in Table
      BY TableFields
    <2>2. [mid EXCEPT !.filter = f] \in Table
      <3> HIDE DEF mid
      <3> QED  BY <2>1, TableFields
    <2> QED  BY <2>2
  <1>2. new.filter = f /\ new.chosen = c /\ new.sort = tb.sort /\ new.arrow = tb.arrow
    BY DEF Table
  <1> QED  BY <1>1, <1>2

(* What is left to show of a step once the state of the page is known.     *)
LEMMA StepKept ==
    ASSUME TableInv, NEW tb \in Table, Becomes(tb),
           tb.filter = tb.chosen, tb.page <= Cardinality(Rows),
           ~gone => tb.page = 1 \/ (tb.page - 1) * tb.limit < Cardinality(Found(tb, rows)),
           traits.order = "dead" => tb.arrow = "none",
           traits.restart /\ tb.arrow # "none" => tb.sort = tb.arrow,
           wish' \in BOOLEAN,
           traits.column => wish' = tb.chosen,
           ~traits.column => ~tb.chosen,
           ~traits.offered => ~wish',
           turned' = tb.page \/ (turned' = turned /\ tb.page = table.page)
    PROVE  TableInv'
  <1>1. /\ traits' = traits /\ rows' = rows /\ gone' \in BOOLEAN
        /\ table' \in Table /\ table'.page <= Cardinality(Rows)
        /\ table'.filter = table'.chosen /\ table'.chosen = tb.chosen
        /\ "turn" \notin traits.gaps => table'.page = tb.page
        /\ HeaderKept' /\ AnswerKept' /\ PageKept'
        /\ answer'.of \subseteq Rows /\ answer'.rows \in Seq(Rows)
    BY BecomesKeeps
  <1>2. TableTypeOK /\ TurnStays
    BY DEF TableInv
  <1>3. turned' \in 1 .. Cardinality(Rows)
    <2>1. tb.page \in Nat \ {0}
      BY DEF Table
    <2>2. Cardinality(Rows) \in Nat
      BY FiniteRows
    <2> QED  BY <1>2, <2>1, <2>2 DEF TableTypeOK
  <1>4. TableTypeOK'
    BY <1>1, <1>2, <1>3 DEF TableTypeOK
  <1>5. ToolbarKept'
    BY <1>1 DEF ToolbarKept
  <1>6. TurnStays'
    BY <1>1, <1>2 DEF TurnStays
  <1> QED  BY <1>1, <1>4, <1>5, <1>6 DEF TableInv

\* The steps of the user
LEMMA SearchKept == TableInv /\ Search => TableInv'
  <1> SUFFICES ASSUME TableInv, Search PROVE TableInv'
      OBVIOUS
  <1> DEFINE ed == [table EXCEPT !.search = ~table.search]
             tb == FirstPage(ed)
  <1>1. TableTypeOK /\ ToolbarKept /\ HeaderKept
    BY DEF TableInv
  <1>2. ed \in Table /\ ed.filter = table.filter /\ ed.chosen = table.chosen
        /\ ed.sort = table.sort /\ ed.arrow = table.arrow
    <2>1. table \in Table /\ table.search \in BOOLEAN
      BY <1>1 DEF TableTypeOK, Table
    <2>2. CASE table.search
      <3>1. ed = [table EXCEPT !.search = FALSE]
        BY <2>2
      <3> QED  BY <2>1, <3>1, SearchParts
    <2>3. CASE ~table.search
      <3>1. ed = [table EXCEPT !.search = TRUE]
        BY <2>3
      <3> QED  BY <2>1, <3>1, SearchParts
    <2> QED  BY <2>2, <2>3
  <1> HIDE DEF ed
  <1>3. /\ tb \in Table /\ tb.page = 1
        /\ tb.filter = table.filter /\ tb.chosen = table.chosen
        /\ tb.sort = table.sort /\ tb.arrow = table.arrow
    BY <1>2, FirstPageParts
  <1>4. Becomes(tb) /\ turned' = 1 /\ wish' = wish
    BY DEF Search, ed
  <1> HIDE DEF tb
  <1>5. 1 <= Cardinality(Rows)
    BY FiniteRows
  <1>6. /\ tb.filter = tb.chosen /\ tb.page <= Cardinality(Rows)
        /\ traits.order = "dead" => tb.arrow = "none"
        /\ traits.restart /\ tb.arrow # "none" => tb.sort = tb.arrow
    BY <1>1, <1>3, <1>5 DEF ToolbarKept, HeaderKept
  <1>7. /\ wish' \in BOOLEAN
        /\ traits.column => wish' = tb.chosen
        /\ ~traits.column => ~tb.chosen
        /\ ~traits.offered => ~wish'
    BY <1>1, <1>3, <1>4 DEF ToolbarKept, TableTypeOK
  <1> QED  BY <1>3, <1>4, <1>6, <1>7, StepKept

LEMMA ChooseFilterKept == TableInv /\ ChooseFilter => TableInv'
  <1> SUFFICES ASSUME TableInv, ChooseFilter PROVE TableInv'
      OBVIOUS
  <1>1. TableTypeOK /\ ToolbarKept /\ HeaderKept /\ traits.offered /\ wish' = ~wish
    BY DEF TableInv, ChooseFilter
  <1>2. CASE traits.column
    <2> DEFINE ed == [table EXCEPT !.chosen = ~table.chosen, !.filter = ~table.filter]
               tb == FirstPage(ed)
    <2>1. ed \in Table /\ ed.filter = ~table.filter /\ ed.chosen = ~table.chosen
          /\ ed.sort = table.sort /\ ed.arrow = table.arrow
      <3>1. table \in Table /\ table.chosen \in BOOLEAN /\ table.filter = table.chosen
        BY <1>1 DEF TableTypeOK, Table, ToolbarKept
      <3>2. CASE table.chosen
        <4>1. table.chosen = TRUE /\ table.filter = TRUE
          BY <3>1, <3>2
        <4>2. ed = [table EXCEPT !.chosen = FALSE, !.filter = FALSE]
          BY <4>1
        <4> HIDE DEF ed
        <4>3. /\ ed \in Table /\ ed.filter = FALSE /\ ed.chosen = FALSE
              /\ ed.sort = table.sort /\ ed.arrow = table.arrow
          BY <3>1, <4>2, FilterParts
        <4> QED  BY <4>1, <4>3
      <3>3. CASE ~table.chosen
        <4>1. table.chosen = FALSE /\ table.filter = FALSE
          BY <3>1, <3>3
        <4>2. ed = [table EXCEPT !.chosen = TRUE, !.filter = TRUE]
          BY <4>1
        <4> HIDE DEF ed
        <4>3. /\ ed \in Table /\ ed.filter = TRUE /\ ed.chosen = TRUE
              /\ ed.sort = table.sort /\ ed.arrow = table.arrow
          BY <3>1, <4>2, FilterParts
        <4> QED  BY <4>1, <4>3
      <3> QED  BY <3>2, <3>3
    <2> HIDE DEF ed
    <2>2. /\ tb \in Table /\ tb.page = 1 /\ tb.filter = ~table.filter
          /\ tb.chosen = ~table.chosen
          /\ tb.sort = table.sort /\ tb.arrow = table.arrow
      BY <2>1, FirstPageParts
    <2>3. Becomes(tb) /\ turned' = 1
      BY <1>2 DEF ChooseFilter, ed
    <2> HIDE DEF tb
    <2>4. 1 <= Cardinality(Rows)
      BY FiniteRows
    <2>5. /\ tb.filter = tb.chosen /\ tb.page <= Cardinality(Rows)
          /\ traits.order = "dead" => tb.arrow = "none"
          /\ traits.restart /\ tb.arrow # "none" => tb.sort = tb.arrow
      BY <1>1, <2>2, <2>4 DEF ToolbarKept, HeaderKept
    <2>6. wish' \in BOOLEAN /\ wish' = tb.chosen
      BY <1>1, <1>2, <2>2 DEF ToolbarKept, TableTypeOK
    <2> QED  BY <1>1, <1>2, <2>2, <2>3, <2>5, <2>6, StepKept
  <1>3. CASE ~traits.column
    <2>1. UNCHANGED <<traits, table, rows, answer, turned, gone>>
      BY <1>3 DEF ChooseFilter
    <2>2. TableTypeOK'
      BY <1>1, <2>1 DEF TableTypeOK
    <2>3. ToolbarKept'
      BY <1>1, <1>3, <2>1 DEF ToolbarKept
    <2>4. HeaderKept' /\ AnswerKept' /\ PageKept' /\ TurnStays'
      BY <2>1 DEF TableInv, HeaderKept, AnswerKept, PageKept, TurnStays, Given, Shown, Order, Found,
         Asked
    <2> QED  BY <2>2, <2>3, <2>4 DEF TableInv
  <1> QED  BY <1>2, <1>3

LEMMA HeaderParts ==
    ASSUME NEW tb \in Table, NEW a \in Arrows
    PROVE  LET new == [tb EXCEPT !.arrow = a]
               both == [new EXCEPT !.sort = a]
           IN  /\ new \in Table /\ new.page = tb.page /\ new.limit = tb.limit
               /\ new.search = tb.search /\ new.filter = tb.filter /\ new.chosen = tb.chosen
               /\ new.sort = tb.sort /\ new.arrow = a
               /\ both \in Table /\ both.filter = tb.filter /\ both.chosen = tb.chosen
               /\ both.sort = a /\ both.arrow = a
  <1> DEFINE new == [tb EXCEPT !.arrow = a]
             both == [new EXCEPT !.sort = a]
  <1>1. /\ new \in Table /\ new.page = tb.page /\ new.limit = tb.limit
        /\ new.search = tb.search /\ new.filter = tb.filter /\ new.chosen = tb.chosen
        /\ new.sort = tb.sort /\ new.arrow = a
    BY TableFields
  <1>2. /\ both \in Table /\ both.filter = new.filter /\ both.chosen = new.chosen
        /\ both.sort = a /\ both.arrow = new.arrow
    <2> HIDE DEF new
    <2> QED  BY <1>1, TableFields
  <1> QED  BY <1>1, <1>2

LEMMA ClickHeaderKept == TableInv /\ ClickHeader => TableInv'
  <1> SUFFICES ASSUME TableInv, ClickHeader PROVE TableInv'
      OBVIOUS
  <1> DEFINE a == NextArrow[table.arrow]
             ed == [table EXCEPT !.arrow = a]
  <1>1. TableTypeOK /\ ToolbarKept /\ HeaderKept /\ PageKept /\ traits.order # "dead"
        /\ wish' = wish
    BY DEF TableInv, ClickHeader
  <1>2. table \in Table /\ a \in Arrows
    <2>1. table \in Table /\ table.arrow \in Arrows
      BY <1>1 DEF TableTypeOK, Table
    <2> QED  BY <2>1 DEF NextArrow, Arrows
  <1>3. /\ wish' \in BOOLEAN
        /\ traits.column => wish' = table.chosen
        /\ ~traits.column => ~table.chosen
        /\ ~traits.offered => ~wish'
        /\ table.filter = table.chosen
        /\ table.page <= Cardinality(Rows) /\ 1 <= Cardinality(Rows)
    BY <1>1, FiniteRows DEF ToolbarKept, TableTypeOK
  <1>4. CASE traits.restart /\ a # "none"
    <2> DEFINE both == [ed EXCEPT !.sort = a]
               tb == FirstPage(both)
    <2>1. Becomes(tb) /\ turned' = 1
      BY <1>4 DEF ClickHeader
    <2>2. /\ both \in Table /\ both.filter = table.filter /\ both.chosen = table.chosen
          /\ both.sort = a /\ both.arrow = a
      BY <1>2, HeaderParts
    <2> HIDE DEF both
    <2>3. /\ tb \in Table /\ tb.page = 1
          /\ tb.filter = table.filter /\ tb.chosen = table.chosen
          /\ tb.sort = tb.arrow
      BY <2>2, FirstPageParts
    <2> HIDE DEF tb, a
    <2>4. tb.filter = tb.chosen /\ tb.page <= Cardinality(Rows) /\ turned' = tb.page
      BY <1>3, <2>1, <2>3
    <2>5. /\ traits.column => wish' = tb.chosen
          /\ ~traits.column => ~tb.chosen
      BY <1>3, <2>3
    <2> QED  BY <1>1, <1>3, <2>1, <2>3, <2>4, <2>5, StepKept
  <1>5. CASE ~(traits.restart /\ a # "none")
    <2>1. Becomes(ed) /\ turned' = turned
      BY <1>5 DEF ClickHeader
    <2>2. /\ ed \in Table /\ ed.page = table.page /\ ed.limit = table.limit
          /\ ed.search = table.search /\ ed.filter = table.filter
          /\ ed.chosen = table.chosen /\ ed.arrow = a
      BY <1>2, HeaderParts
    <2> HIDE DEF ed, a
    <2>3. Found(ed, rows) = Found(table, rows)
      BY <2>2 DEF Found
    <2>4. ~gone => ed.page = 1 \/ (ed.page - 1) * ed.limit < Cardinality(Found(ed, rows))
      BY <1>1, <2>2, <2>3 DEF PageKept
    <2>5. traits.restart /\ ed.arrow # "none" => ed.sort = ed.arrow
      BY <1>5, <2>2
    <2>6. /\ traits.column => wish' = ed.chosen
          /\ ~traits.column => ~ed.chosen
          /\ ed.filter = ed.chosen /\ ed.page <= Cardinality(Rows)
      BY <1>3, <2>2
    <2> QED  BY <1>1, <1>3, <2>1, <2>2, <2>4, <2>5, <2>6, StepKept
  <1> QED  BY <1>4, <1>5

LEMMA PagingParts ==
    ASSUME NEW tb \in Table, NEW p \in Numbers, NEW n \in Limits
    PROVE  LET turn == [tb EXCEPT !.page = p]
               long == [tb EXCEPT !.limit = n]
           IN  /\ turn \in Table /\ turn.page = p /\ turn.limit = tb.limit
               /\ turn.search = tb.search /\ turn.filter = tb.filter
               /\ turn.chosen = tb.chosen /\ turn.sort = tb.sort /\ turn.arrow = tb.arrow
               /\ long \in Table /\ long.filter = tb.filter /\ long.chosen = tb.chosen
               /\ long.sort = tb.sort /\ long.arrow = tb.arrow
  <1>1. LET turn == [tb EXCEPT !.page = p]
        IN  /\ turn \in Table /\ turn.page = p /\ turn.limit = tb.limit
            /\ turn.search = tb.search /\ turn.filter = tb.filter
            /\ turn.chosen = tb.chosen /\ turn.sort = tb.sort /\ turn.arrow = tb.arrow
    BY TableFields
  <1>2. LET long == [tb EXCEPT !.limit = n]
        IN  /\ long \in Table /\ long.filter = tb.filter /\ long.chosen = tb.chosen
            /\ long.sort = tb.sort /\ long.arrow = tb.arrow
    BY TableFields
  <1> QED  BY <1>1, <1>2

\* What a step that only pages leaves alone
LEMMA StillAsMarked ==
    ASSUME TableInv, wish' = wish
    PROVE  /\ table \in Table /\ table.filter = table.chosen /\ 1 <= Cardinality(Rows)
           /\ wish' \in BOOLEAN
           /\ traits.column => wish' = table.chosen
           /\ ~traits.column => ~table.chosen
           /\ ~traits.offered => ~wish'
           /\ traits.order = "dead" => table.arrow = "none"
           /\ traits.restart /\ table.arrow # "none" => table.sort = table.arrow
  BY FiniteRows DEF TableInv, TableTypeOK, ToolbarKept, HeaderKept

LEMMA SetLimitKept ==
    ASSUME TableInv, NEW n \in Limits, SetLimit(n)
    PROVE  TableInv'
  <1> DEFINE ed == [table EXCEPT !.limit = n]
             tb == FirstPage(ed)
  <1>1. Becomes(tb) /\ turned' = 1 /\ wish' = wish
    BY DEF SetLimit
  <1>2. 1 \in Numbers
    BY DEF Numbers
  <1>3. /\ ed \in Table /\ ed.filter = table.filter /\ ed.chosen = table.chosen
        /\ ed.sort = table.sort /\ ed.arrow = table.arrow
    BY <1>1, <1>2, StillAsMarked, PagingParts
  <1> HIDE DEF ed
  <1>4. /\ tb \in Table /\ tb.page = 1
        /\ tb.filter = table.filter /\ tb.chosen = table.chosen
        /\ tb.sort = table.sort /\ tb.arrow = table.arrow
    BY <1>3, FirstPageParts
  <1> HIDE DEF tb
  <1> QED  BY <1>1, <1>4, StillAsMarked, StepKept

\* A page that is offered begins before the end of what was found.
LEMMA TurnPageKept ==
    ASSUME TableInv, NEW p \in PagesOffered, TurnPage(p)
    PROVE  TableInv'
  <1> DEFINE tb == [table EXCEPT !.page = p]
  <1>1. Becomes(tb) /\ turned' = p /\ wish' = wish /\ answer.has
    BY DEF TurnPage, Paged, Listed
  <1>2. TableTypeOK /\ table \in Table /\ rows \in SUBSET Rows /\ table.limit \in Nat \ {0}
    BY TableAssumption DEF TableInv, TableTypeOK, Table
  <1>3. answer = Given(table, rows)
    BY <1>1, NoAnswerParts DEF TableInv, AnswerKept
  <1>4. answer.of = rows
    BY <1>2, <1>3, GivenParts
  <1>5. /\ Total = Cardinality(Found(table, rows))
        /\ Total \in Nat /\ Total <= Cardinality(Rows)
    BY <1>2, <1>4, FoundRows DEF Total, Found
  <1>6. p \in 1 .. (Total + table.limit - 1) \div table.limit
    BY DEF PagesOffered, PageCount
  <1>7. (p - 1) * table.limit < Total /\ p <= Total
    BY <1>2, <1>5, <1>6, OfferedBegins
  <1>8. p \in Numbers
    BY <1>2, <1>5, <1>6 DEF Numbers
  <1>9. table.limit \in Limits
    BY <1>2 DEF Table
  <1>10. /\ tb \in Table /\ tb.page = p /\ tb.limit = table.limit
         /\ tb.search = table.search /\ tb.filter = table.filter
         /\ tb.chosen = table.chosen /\ tb.sort = table.sort /\ tb.arrow = table.arrow
    BY <1>2, <1>8, <1>9, PagingParts
  <1> HIDE DEF tb
  <1>11. Found(tb, rows) = Found(table, rows)
    BY <1>10 DEF Found
  <1>12. (tb.page - 1) * tb.limit < Cardinality(Found(tb, rows))
    BY <1>5, <1>7, <1>10, <1>11
  <1>13. tb.page <= Cardinality(Rows)
    <2>1. Cardinality(Rows) \in Nat
      BY FiniteRows
    <2> QED  BY <1>5, <1>7, <1>8, <1>10, <2>1 DEF Numbers
  <1> QED  BY <1>1, <1>10, <1>12, <1>13, StillAsMarked, StepKept

\* The steps of the rows
LEMMA AnswerTaken == TableInv /\ Answer => TableInv'
  <1> SUFFICES ASSUME TableInv, Answer PROVE TableInv'
      OBVIOUS
  <1>1. /\ answer' = Given(table, rows)
        /\ UNCHANGED <<traits, table, rows, wish, turned, gone>>
    BY DEF Answer
  <1>2. TableTypeOK /\ table \in Table /\ rows \in SUBSET Rows
    BY DEF TableInv, TableTypeOK
  <1>3. answer'.of \subseteq Rows /\ answer'.rows \in Seq(Rows)
    BY <1>1, <1>2, AnswerType
  <1>4. TableTypeOK'
    BY <1>1, <1>2, <1>3 DEF TableTypeOK
  <1>5. AnswerKept'
    BY <1>1 DEF AnswerKept, Given, Shown, Order, Asked
  <1>6. ToolbarKept' /\ HeaderKept' /\ TurnStays'
    BY <1>1 DEF TableInv, ToolbarKept, HeaderKept, TurnStays
  <1>7. PageKept'
    BY <1>1 DEF TableInv, PageKept, Found
  <1> QED  BY <1>4, <1>5, <1>6, <1>7 DEF TableInv

LEMMA RowsKept ==
    ASSUME TableInv, NEW r \in Rows, RowComes(r) \/ RowGoes(r)
    PROVE  TableInv'
  <1>1. PICK all \in SUBSET Rows :
            /\ Change(all)
            /\ (rows \subseteq all /\ gone' = gone) \/ gone' = TRUE
    <2>1. rows \subseteq Rows
      BY DEF TableInv, TableTypeOK
    <2>2. CASE RowComes(r)
      BY <2>1, <2>2 DEF RowComes
    <2>3. CASE RowGoes(r)
      BY <2>1, <2>3 DEF RowGoes
    <2> QED  BY <2>2, <2>3
  <1>2. /\ rows' = all /\ UNCHANGED <<traits, table, wish, turned>>
        /\ answer' = NoAnswer \/ answer' = Given(table, all)
    BY <1>1 DEF Change
  <1>3. TableTypeOK /\ table \in Table /\ PageKept
    BY DEF TableInv, TableTypeOK
  <1>4. answer'.of \subseteq Rows /\ answer'.rows \in Seq(Rows)
    BY <1>2, <1>3, AnswerType
  <1>5. TableTypeOK'
    BY <1>1, <1>2, <1>3, <1>4 DEF TableTypeOK
  <1>6. AnswerKept'
    <2>1. Given(table, rows)' = Given(table, all)
      BY <1>2 DEF Given, Shown, Order, Asked
    <2> QED  BY <1>2, <2>1 DEF AnswerKept, NoAnswer
  <1>7. ToolbarKept' /\ HeaderKept' /\ TurnStays'
    BY <1>2 DEF TableInv, ToolbarKept, HeaderKept, TurnStays
  <1>8. PageKept'
    <2>1. CASE gone' = TRUE
      BY <2>1 DEF PageKept
    <2>2. CASE rows \subseteq all /\ gone' = gone
      <3>1. Found(table, rows) \in SUBSET Found(table, all)
        BY <2>2 DEF Found, Matching
      <3>2. Found(table, all) \in SUBSET Rows /\ Cardinality(Found(table, all)) \in Nat
        BY FoundRows
      <3>3. Cardinality(Found(table, rows)) <= Cardinality(Found(table, all))
            /\ Cardinality(Found(table, rows)) \in Nat
        BY <3>1, <3>2, FiniteRows, FS_Subset
      <3>4. table.page \in Nat /\ table.limit \in Nat
        BY <1>3, TableAssumption DEF Table
      <3>5. (table.page - 1) * table.limit \in Int
        BY <3>4
      <3>6. Found(table, rows)' = Found(table, all)
        BY <1>2 DEF Found
      <3> QED  BY <1>2, <1>3, <2>2, <3>2, <3>3, <3>5, <3>6 DEF PageKept
    <2> QED  BY <1>1, <2>1, <2>2
  <1> QED  BY <1>5, <1>6, <1>7, <1>8 DEF TableInv

LEMMA TableInvInit == TableInit => TableInv
  <1> SUFFICES ASSUME TableInit PROVE TableInv
      OBVIOUS
  <1>1. table \in [page : {1}, limit : Limits, search : {FALSE}, filter : {FALSE},
                   sort : {"none"}, chosen : {FALSE}, arrow : {"none"}]
    BY DEF TableInit
  <1>2. /\ table \in Table /\ table.page = 1
        /\ table.filter = FALSE /\ table.chosen = FALSE /\ table.arrow = "none"
    <2>1. 1 \in Numbers /\ "none" \in Arrows
      BY DEF Numbers, Arrows
    <2> QED  BY <1>1, <2>1, TableFields
  <1>3. Cardinality(Rows) \in Nat \ {0}
    BY FiniteRows
  <1>4. TableTypeOK
    <2>1. /\ table \in Table /\ table.page <= Cardinality(Rows)
          /\ turned \in 1 .. Cardinality(Rows)
      BY <1>2, <1>3 DEF TableInit
    <2>2. answer.of \subseteq Rows /\ answer.rows \in Seq(Rows)
      BY NoAnswerParts DEF TableInit
    <2> QED  BY <2>1, <2>2 DEF TableInit, TableTypeOK
  <1>5. ToolbarKept
    BY <1>2 DEF TableInit, ToolbarKept
  <1>6. HeaderKept /\ AnswerKept /\ PageKept /\ TurnStays
    BY <1>2 DEF TableInit, HeaderKept, AnswerKept, PageKept, TurnStays
  <1> QED  BY <1>4, <1>5, <1>6 DEF TableInv

LEMMA TableInvNext == TableInv /\ [TableNext]_tableVars => TableInv'
  <1> SUFFICES ASSUME TableInv, [TableNext]_tableVars PROVE TableInv'
      OBVIOUS
  <1>1. CASE UNCHANGED tableVars
    BY <1>1 DEF tableVars, TableInv, TableTypeOK, ToolbarKept, HeaderKept, AnswerKept,
       PageKept,
           TurnStays, Given, Shown, Order, Found, Asked
  <1>2. ASSUME NEW p \in PagesOffered, TurnPage(p) PROVE TableInv'
    BY <1>2, TurnPageKept
  <1>3. ASSUME NEW n \in Limits, SetLimit(n) PROVE TableInv'
    BY <1>3, SetLimitKept
  <1>4. ASSUME NEW r \in Rows, RowComes(r) \/ RowGoes(r) PROVE TableInv'
    BY <1>4, RowsKept
  <1> QED  BY <1>1, <1>2, <1>3, <1>4, SearchKept, ChooseFilterKept, ClickHeaderKept,
              AnswerTaken
           DEF TableNext

(* TableInv holds in every state: whatever was clicked, the toolbar, the   *)
(* header, the answer and the page number agree (useDataTable and the      *)
(* effects of the pages around it).                                        *)
THEOREM TableInvariant == TableSpec => []TableInv
  BY TableInvInit, TableInvNext, PTL DEF TableSpec

(* The page asked for stays until the user refines the table (TurnStays),  *)
(* in every table but those whose effect turns it back.                    *)
THEOREM TablesTurnStays == TableSpec => []TurnStays
  <1>1. TableInv => TurnStays
    BY DEF TableInv
  <1> QED  BY <1>1, TableInvariant, PTL

(* Refining a table leaves nobody on an empty page (NotStranded): a setter *)
(* goes back to page 1, and a page that is offered begins before the last  *)
(* row, for any rows and any lengths of a page; in every table but the list *)
(* of plans of who does not see them all, whose pages are cut before the    *)
(* rows he may not see are dropped (HideGaps).                              *)
THEOREM TablesNotStranded == TableSpec => []NotStranded
  <1>1. TableInv => NotStranded
    <2> SUFFICES ASSUME TableInv, "hidden" \notin traits.gaps, answer.has, ~gone,
                        Matching(answer.of, table.search /\ traits.search,
                                 table.filter /\ traits.filter) # {}
                 PROVE  answer.rows # <<>>
      BY DEF NotStranded
    <2>1. table \in Table /\ rows \in SUBSET Rows /\ PageKept
          /\ table.page \in Nat \ {0} /\ table.limit \in Nat \ {0}
      BY TableAssumption DEF TableInv, TableTypeOK, Table
    <2>2. answer = Given(table, rows)
      BY NoAnswerParts DEF TableInv, AnswerKept
    <2> DEFINE found == Sorted(Found(table, rows), Order(table))
    <2>3. /\ answer.of = rows
          /\ answer.rows = IF traits.where = "nobody" THEN found
                           ELSE Cut(found, table.page, table.limit)
          /\ found \in Seq(Found(table, rows))
          /\ Len(found) = Cardinality(Found(table, rows))
      <3>1. ~traits.hides
        BY TraitsFacts DEF TableInv
      <3> QED  BY <2>1, <2>2, <3>1, GivenParts
    <2> HIDE DEF found
    <2>4. Found(table, rows) # {}
      BY <2>3 DEF Found
    <2>5. Len(found) > 0 /\ Len(found) \in Nat
      <3>1. IsFiniteSet(Found(table, rows)) /\ Cardinality(Found(table, rows)) \in Nat
        BY <2>1, FoundRows, FiniteRows
      <3>2. Cardinality(Found(table, rows)) # 0
        BY <3>1, <2>4, FS_EmptySet
      <3> QED  BY <3>1, <3>2, <2>3
    <2>6. (table.page - 1) * table.limit < Len(found)
      <3>1. CASE table.page = 1
        BY <3>1, <2>1, <2>5
      <3>2. CASE table.page # 1
        BY <3>2, <2>1, <2>3 DEF PageKept
      <3> QED  BY <3>1, <3>2
    <2>7. Cut(found, table.page, table.limit) # <<>>
      BY <2>1, <2>3, <2>6, CutType
    <2>8. found # <<>>
      BY <2>5
    <2> QED  BY <2>3, <2>7, <2>8
  <1> QED  BY <1>1, TableInvariant, PTL

(* A table shows what its controls say (ShownAsOffered), for any rows: the *)
(* rows found are those of the text and the filter clicked, sorting lists  *)
(* each once, and the key of the query holds all the answer depends on.    *)
(* Of the list of plans of who does not see them all (HideGaps) it says     *)
(* only that the rows match and the toolbar marks the filter: how many      *)
(* there are on a page is not what the controls say.                        *)
THEOREM TablesShownAsOffered == TableSpec => []ShownAsOffered
  <1>1. TableInv => ShownAsOffered
    <2> SUFFICES ASSUME TableInv, answer.has PROVE ShownAsOffered
      BY DEF ShownAsOffered
    <2> DEFINE said == Matching(answer.of, SaidSearch, SaidFilter)
               found == Sorted(Found(table, rows), Order(table))
               cut(s) == Cut(s, table.page, table.limit)
    <2>1. TableTypeOK /\ table \in Table /\ rows \in SUBSET Rows /\ ToolbarKept /\ HeaderKept
          /\ table.page \in Nat \ {0} /\ table.limit \in Nat \ {0}
      BY TableAssumption DEF TableInv, TableTypeOK, Table
    <2>2. answer = Given(table, rows)
      BY NoAnswerParts DEF TableInv, AnswerKept
    <2>3. /\ answer.of = rows
          /\ "hidden" \notin traits.gaps =>
                answer.rows = IF traits.where = "nobody" THEN found ELSE cut(found)
          /\ found \in Seq(Found(table, rows))
          /\ Len(found) = Cardinality(Found(table, rows))
          /\ answer.rows \in Seq(Found(table, rows))
      BY <2>1, <2>2, GivenParts, TraitsFacts
    <2>4. /\ wish \in BOOLEAN /\ table.chosen \in BOOLEAN /\ table.filter = table.chosen
          /\ table.search \in BOOLEAN
          /\ traits.filter \in BOOLEAN /\ traits.shows \in BOOLEAN
      BY <2>1, TraitsFacts DEF TableTypeOK, Table, ToolbarKept
    <2>5. ASSUME "filter" \notin traits.gaps
          PROVE  /\ (table.chosen /\ traits.shows) = wish
                 /\ wish = (table.filter /\ traits.filter)
      <3>1. CASE traits.offered
        <4>1. traits.column /\ traits.filter /\ traits.shows
          BY <2>1, <2>5, <3>1, TraitsFacts
        <4>2. wish = table.chosen
          BY <4>1, <2>1 DEF ToolbarKept
        <4> QED  BY <4>1, <4>2, <2>4
      <3>2. CASE ~traits.offered
        <4>1. ~wish /\ ~table.chosen
          BY <3>2, <2>1 DEF ToolbarKept
        <4> QED  BY <4>1, <2>4
      <3> QED  BY <3>1, <3>2
    <2>6. SaidFilter = (table.filter /\ traits.filter)
      BY <2>5 DEF SaidFilter
    <2>7. SaidSearch = (table.search /\ traits.search)
      BY <2>1, <2>4, TraitsFacts DEF SaidSearch
    <2>8. said = Found(table, rows)
      BY <2>3, <2>6, <2>7 DEF Found
    <2> HIDE DEF said, found
    <2>9. /\ Sorted(said, "none") \in Seq(said)
          /\ Len(Sorted(said, "none")) = Cardinality(said)
      BY <2>1, <2>8, FoundRows, SortedType
    <2>10. ToSet(answer.rows) \subseteq said
      BY <2>3, <2>8 DEF ToSet
    <2>11. ASSUME "hidden" \notin traits.gaps
           PROVE  Len(answer.rows) = IF "page" \notin traits.gaps
                                     THEN Len(cut(Sorted(said, "none")))
                                     ELSE Cardinality(said)
      <3>1. traits.where = "nobody" <=> "page" \in traits.gaps
        BY <2>1, TraitsFacts
      <3>2. Len(cut(Sorted(said, "none"))) = Len(cut(found))
        <4>1. Len(Sorted(said, "none")) = Len(found) /\ found \in Seq(said)
          BY <2>3, <2>8, <2>9
        <4> QED  BY <2>1, <2>9, <4>1, CutLength
      <3> QED  BY <2>3, <2>8, <2>11, <3>1, <3>2
    <2>12. ASSUME "page" \notin traits.gaps, {"sort", "hidden"} \cap traits.gaps = {},
                  table.arrow # "none"
           PROVE  answer.rows = cut(Sorted(said, table.arrow))
      <3>1. traits.where # "nobody"
        BY <2>1, <2>12, TraitsFacts
      <3>2. traits.order # "dead"
        BY <2>1, <2>12 DEF HeaderKept
      <3>3. traits.sort /\ (traits.order = "state" => traits.restart)
        BY <2>1, <2>12, <3>2, TraitsFacts
      <3>4. Order(table) = table.arrow
        BY <2>1, <2>12, <3>3 DEF Order, Asked, HeaderKept
      <3> QED  BY <2>3, <2>8, <2>12, <3>1, <3>4 DEF found
    <2> QED  BY <2>5, <2>10, <2>11, <2>12 DEF ShownAsOffered, said
  <1> QED  BY <1>1, TableInvariant, PTL

-----------------------------------------------------------------------------
(*****************************************************************************)
(* The query cache                                                           *)
(*****************************************************************************)
(* What is owed has been acknowledged, and so committed.                   *)
OwedIsDone ==
    /\ \A c \in Calls : call[c] \in {"written", "done", "settled"} => c \in db
    /\ \A k \in Keys : owed[k] \subseteq {c \in Calls : call[c] = "settled"}

(* The list the backend keeps has the writes whose handlers have dropped   *)
(* it, unless it was stored too late; then nothing is owed.                *)
ListInTime ==
    /\ list.has \/ list.making => pair.kept
    /\ list.has /\ ~list.late =>
          {c \in Calls : call[c] \in {"done", "settled"}} \subseteq list.data
    /\ list.late => \A k \in Keys : owed[k] = {}

(* No answer is under way that was computed before what is owed.           *)
AnswersInTime == \A k \in Keys : entry[k].fetch = "read" => owed[k] \subseteq entry[k].got

(* An entry that may be shown without a fetch has what is owed; one that   *)
(* is only ever patched has it at any time.                                *)
FreshShows ==
    \A k \in Keys :
        entry[k].has /\ (pair.covers => ~entry[k].stale /\ entry[k].fetch = "idle")
            => owed[k] \subseteq entry[k].data

CacheInv ==
    CacheTypeOK /\ OwedIsDone /\ ListInTime /\ AnswersInTime /\ FreshShows /\ OwnWritesShown

-----------------------------------------------------------------------------
\* A fetch joins one under way; a refetch restarts it, except the first load.
LEMMA FetchEntry ==
    ASSUME NEW e \in Entry
    PROVE  /\ Fetch(e) \in Entry /\ Fetch(e).fetch # "idle"
           /\ Fetch(e).has = e.has /\ Fetch(e).data = e.data /\ Fetch(e).stale = e.stale
           /\ Fetch(e).fetch = "read" => e.fetch = "read" /\ Fetch(e).got = e.got
  BY DEF Fetch, Entry

LEMMA RefetchEntry ==
    ASSUME NEW e \in Entry
    PROVE  /\ Refetch(e) \in Entry /\ Refetch(e).fetch # "idle"
           /\ Refetch(e).has = e.has /\ Refetch(e).data = e.data
           /\ Refetch(e).stale = e.stale
           /\ Refetch(e).fetch = "read" => ~e.has /\ e.fetch = "read" /\ Refetch(e).got = e.got
  BY DEF Refetch, Entry

\* An entry marked for a refetch, and one patched
LEMMA MarkedEntry ==
    ASSUME NEW e \in Entry
    PROVE  LET m == [e EXCEPT !.stale = e.has]
           IN  /\ m \in Entry /\ m.has = e.has /\ m.data = e.data /\ m.stale = e.has
               /\ m.fetch = e.fetch /\ m.got = e.got /\ m.failed = e.failed
  BY DEF Entry

LEMMA PatchedEntry ==
    ASSUME NEW e \in Entry, NEW w \in Writes, pair.creates \in BOOLEAN
    PROVE  /\ Patched(e, w) \in Entry
           /\ Patched(e, w).fetch = e.fetch /\ Patched(e, w).got = e.got
           /\ e.has => /\ Patched(e, w).has /\ ~Patched(e, w).stale
                       /\ Patched(e, w).data = e.data \cup {w}
           /\ ~e.has /\ ~(pair.creates /\ w \in Calls) => Patched(e, w) = e
           /\ e.data \subseteq Patched(e, w).data
  BY DEF Patched, Entry

\* What an invalidation makes of one entry
LEMMA InvalidatedEntry ==
    ASSUME NEW es \in [Keys -> Entry], NEW k \in Keys
    PROVE  /\ Invalidated(es)[k] \in Entry
           /\ Invalidated(es)[k].has = es[k].has
           /\ Invalidated(es)[k].data = es[k].data
           /\ Invalidated(es)[k].stale = es[k].has
           /\ k = shown => Invalidated(es)[k].fetch # "idle"
           /\ Invalidated(es)[k].fetch = "read" =>
                 /\ es[k].fetch = "read" /\ Invalidated(es)[k].got = es[k].got
                 /\ k = shown => ~es[k].has
  <1> DEFINE m == [es[k] EXCEPT !.stale = es[k].has]
  <1>1. es[k] \in Entry
    OBVIOUS
  <1>2. /\ m \in Entry /\ m.has = es[k].has /\ m.data = es[k].data /\ m.stale = es[k].has
        /\ m.fetch = es[k].fetch /\ m.got = es[k].got
    BY <1>1, MarkedEntry
  <1>3. Invalidated(es)[k] = IF k = shown THEN Refetch(m) ELSE m
    BY DEF Invalidated
  <1> HIDE DEF m
  <1>4. CASE k = shown
    BY <1>2, <1>3, <1>4, RefetchEntry
  <1>5. CASE k # shown
    BY <1>2, <1>3, <1>5
  <1> QED  BY <1>4, <1>5

LEMMA InvalidatedType ==
    ASSUME NEW es \in [Keys -> Entry]
    PROVE  Invalidated(es) \in [Keys -> Entry]
  <1>1. \A k \in Keys : Invalidated(es)[k] \in Entry
    BY InvalidatedEntry
  <1> QED  BY <1>1 DEF Invalidated

\* Every observed write is told to the cache: HooksAssumption of the pair at hand.
LEMMA TraitsBoolean ==
    ASSUME CacheTypeOK
    PROVE  /\ pair.covers \in BOOLEAN /\ pair.patches \in BOOLEAN
           /\ pair.creates \in BOOLEAN
           /\ pair.covers \/ (pair.patches /\ ~pair.creates)
  BY HooksAssumption DEF CacheTypeOK

LEMMA CacheInvInit == CacheInit => CacheInv
  <1> SUFFICES ASSUME CacheInit PROVE CacheInv
      OBVIOUS
  <1>1. Empty \in Entry /\ NoList \in List
    BY DEF Empty, Entry, NoList, List
  <1>2. CacheTypeOK
    BY <1>1 DEF CacheInit, CacheTypeOK
  <1>3. ~Empty.has /\ Empty.fetch = "idle"
    BY DEF Empty
  <1>4. \A k \in Keys : entry[k] = Empty /\ owed[k] = {}
    BY DEF CacheInit
  <1> QED  BY <1>2, <1>3, <1>4
           DEF CacheInit, CacheInv, OwedIsDone, ListInTime, NoList, AnswersInTime,
               FreshShows, OwnWritesShown, Settled

\* What one entry contributes to the invariant, given what is owed in it, the
\* traits and whether it is on screen
EntryKept(e, o, covers, here) ==
    /\ e.fetch = "read" => o \subseteq e.got
    /\ e.has /\ (covers => ~e.stale /\ e.fetch = "idle") => o \subseteq e.data
    /\ here /\ e.has /\ e.fetch = "idle" /\ ~e.failed => o \subseteq e.data

\* Steps of one entry, and of one call before it is acknowledged
EntryStep(k) ==
    Show(k) \/ Expire(k) \/ Collect(k) \/ Read(k) \/ Arrive(k) \/ FetchFails(k)

CallStep(c) == Submit(c) \/ Commit(c) \/ DropList(c) \/ CallFails(c)

\* Steps of the list the backend keeps
ListStep == MakeList \/ StoreList \/ LapseList

\* The cache as onSuccess patches it
PatchedBy(c) == IF pair.patches THEN [k \in Keys |-> Patched(entry[k], c)] ELSE entry

LEMMA KeptByEntries ==
    CacheInv <=> /\ CacheTypeOK /\ OwedIsDone /\ ListInTime
                 /\ \A k \in Keys : EntryKept(entry[k], owed[k], pair.covers, k = shown)
  BY DEF CacheInv, AnswersInTime, FreshShows, OwnWritesShown, Settled, EntryKept

\* The types are kept.
LEMMA CacheTypeNext == CacheTypeOK /\ [CacheNext]_cacheVars => CacheTypeOK'
  <1> SUFFICES ASSUME CacheTypeOK, [CacheNext]_cacheVars PROVE CacheTypeOK'
      OBVIOUS
  <1> USE DEF CacheTypeOK
  <1>e. Empty \in Entry /\ \A k \in Keys : entry[k] \in Entry
    BY DEF Empty, Entry
  <1>0. CASE UNCHANGED cacheVars
    BY <1>0 DEF cacheVars
  <1>1. ASSUME NEW k \in Keys, Show(k) PROVE CacheTypeOK'
    BY <1>1, <1>e, FetchEntry DEF Show
  <1>2. ASSUME NEW k \in Keys, Expire(k) PROVE CacheTypeOK'
    <2>1. [entry[k] EXCEPT !.stale = TRUE] \in Entry
      BY <1>e DEF Entry
    <2> QED  BY <1>2, <2>1 DEF Expire
  <1>3. ASSUME NEW k \in Keys, Collect(k) PROVE CacheTypeOK'
    BY <1>3, <1>e DEF Collect
  <1>4. ASSUME NEW k \in Keys, Read(k) PROVE CacheTypeOK'
    <2> DEFINE got == IF pair.kept /\ list.has THEN list.data ELSE db
    <2>1. [entry[k] EXCEPT !.fetch = "read", !.got = got] \in Entry
      BY <1>e DEF Entry, List
    <2>2. entry' = [entry EXCEPT ![k] = [entry[k] EXCEPT !.fetch = "read", !.got = got]]
      BY <1>4 DEF Read
    <2> QED  BY <1>4, <2>1, <2>2 DEF Read
  <1>5. ASSUME NEW k \in Keys, Arrive(k) PROVE CacheTypeOK'
    <2>1. [Empty EXCEPT !.has = TRUE, !.data = entry[k].got] \in Entry
      BY <1>e DEF Entry
    <2> QED  BY <1>5, <2>1 DEF Arrive
  <1>6. ASSUME NEW k \in Keys, FetchFails(k) PROVE CacheTypeOK'
    <2>1. [entry[k] EXCEPT !.fetch = "idle", !.got = {}, !.stale = entry[k].has,
                           !.failed = TRUE] \in Entry
      BY <1>e DEF Entry
    <2> QED  BY <1>6, <2>1 DEF FetchFails
  <1>7. CASE Hide
    BY <1>7 DEF Hide
  <1>8. CASE Poll
    BY <1>8, <1>e, FetchEntry DEF Poll
  <1>9. ASSUME NEW c \in Calls, CallStep(c) PROVE CacheTypeOK'
    <2>1. Dropped(list) \in List
      BY DEF Dropped, List
    <2> QED  BY <1>9, <2>1 DEF CallStep, Submit, Commit, DropList, CallFails, Writes
  <1>10. ASSUME NEW c \in Calls, OnSuccess(c) PROVE CacheTypeOK'
    <2>1. PatchedBy(c) \in [Keys -> Entry]
      BY <1>e, TraitsBoolean, PatchedEntry DEF PatchedBy, Writes
    <2>2. Invalidated(PatchedBy(c)) \in [Keys -> Entry]
      BY <2>1, InvalidatedType
    <2>3. entry' \in [Keys -> Entry]
      BY <1>10, <2>1, <2>2 DEF OnSuccess, PatchedBy
    <2>4. owed' \in [Keys -> SUBSET Calls]
      BY <1>10 DEF OnSuccess
    <2>5. call' \in [Calls -> {"no", "sent", "written", "done", "settled", "failed"}]
      BY <1>10 DEF OnSuccess
    <2> QED  BY <1>10, <2>3, <2>4, <2>5 DEF OnSuccess
  <1>11. CASE WriteElsewhere
    BY <1>11 DEF WriteElsewhere, Writes
  <1>12. CASE PushPatch
    <2>1. \A k \in Keys : Patched(entry[k], Elsewhere) \in Entry
      BY <1>e, TraitsBoolean, PatchedEntry DEF Writes
    <2> QED  BY <1>12, <2>1 DEF PushPatch
  <1>13. CASE PushInvalidate
    BY <1>13, InvalidatedType DEF PushInvalidate
  <1>14. CASE PushOvertaken
    BY <1>14 DEF PushOvertaken
  <1>15. CASE ListStep
    <2>1. Dropped(list) \in List
      BY DEF Dropped, List
    <2>2. CASE MakeList
      BY <2>2 DEF MakeList, List
    <2>3. CASE StoreList
      BY <2>3 DEF StoreList, NoList, List
    <2>4. CASE LapseList
      BY <2>1, <2>4 DEF LapseList
    <2> QED  BY <1>15, <2>2, <2>3, <2>4 DEF ListStep
  <1> QED  BY <1>0, <1>1, <1>2, <1>3, <1>4, <1>5, <1>6, <1>7, <1>8, <1>9, <1>10, <1>11,
              <1>12, <1>13, <1>14, <1>15, Zenon DEF CacheNext, CallStep, ListStep

\* Only writes that are committed are acknowledged, and owed.
LEMMA OwedIsDoneNext == CacheTypeOK /\ OwedIsDone /\ [CacheNext]_cacheVars => OwedIsDone'
  <1> SUFFICES ASSUME CacheTypeOK, OwedIsDone, [CacheNext]_cacheVars PROVE OwedIsDone'
      OBVIOUS
  <1> USE DEF CacheTypeOK, OwedIsDone
  <1>1. CASE UNCHANGED <<call, db, owed>>
    BY <1>1
  <1>2. ASSUME NEW c \in Calls, CallStep(c) PROVE OwedIsDone'
    BY <1>2 DEF CallStep, Submit, Commit, DropList, CallFails
  <1>3. ASSUME NEW c \in Calls, OnSuccess(c) PROVE OwedIsDone'
    <2>1. c \in db /\ call'[c] = "settled"
      BY <1>3 DEF OnSuccess
    <2>2. \A k \in Keys : owed'[k] \subseteq owed[k] \cup {c}
      BY <1>3 DEF OnSuccess
    <2>3. \A d \in Calls : d # c => call'[d] = call[d]
      BY <1>3 DEF OnSuccess
    <2>4. db' = db
      BY <1>3 DEF OnSuccess
    <2> QED  BY <2>1, <2>2, <2>3, <2>4
  <1>4. CASE WriteElsewhere
    BY <1>4 DEF WriteElsewhere
  <1>5. CASE PushPatch
    <2>1. \A k \in Keys : owed'[k] \subseteq owed[k]
      BY <1>5 DEF PushPatch
    <2>2. UNCHANGED <<db, call>>
      BY <1>5 DEF PushPatch
    <2> QED  BY <2>1, <2>2
  <1>7. CASE StoreList
    BY <1>7 DEF StoreList
  <1>6. UNCHANGED <<call, db, owed>> \/ WriteElsewhere \/ PushPatch \/ StoreList
        \/ \E c \in Calls : CallStep(c) \/ OnSuccess(c)
    BY Zenon DEF cacheVars, CacheNext, CallStep, Show, Expire, Collect, Read, Arrive,
       FetchFails, Hide, Poll, MakeList, LapseList,
           PushInvalidate, PushOvertaken
  <1> QED  BY <1>1, <1>2, <1>3, <1>4, <1>5, <1>6, <1>7, Zenon

\* A write that is acknowledged has dropped the list, and one stored since has it.
LEMMA ListInTimeNext ==
    CacheTypeOK /\ OwedIsDone /\ ListInTime /\ [CacheNext]_cacheVars => ListInTime'
  <1> SUFFICES ASSUME CacheTypeOK, OwedIsDone, ListInTime, [CacheNext]_cacheVars
               PROVE  ListInTime'
      OBVIOUS
  <1> USE DEF ListInTime
  <1>0. list \in List /\ call \in [Calls -> {"no", "sent", "written", "done", "settled", "failed"}]
    BY DEF CacheTypeOK
  <1>1. CASE UNCHANGED <<pair, list, call, owed>>
    BY <1>1
  <1>2. ASSUME NEW c \in Calls, Submit(c) \/ Commit(c) \/ CallFails(c) PROVE ListInTime'
    <2>1. UNCHANGED <<pair, list, owed>>
      BY <1>2 DEF Submit, Commit, CallFails
    <2>2. list.has => \A d \in Calls : call'[d] \in {"done", "settled"} => call[d] \in {"done", "settled"}
      BY <1>0, <1>2 DEF Submit, Commit, CallFails
    <2> QED  BY <2>1, <2>2
  <1>3. ASSUME NEW c \in Calls, DropList(c) PROVE ListInTime'
    BY <1>0, <1>3 DEF DropList, Dropped, List
  <1>4. ASSUME NEW c \in Calls, OnSuccess(c) PROVE ListInTime'
    <2>1. UNCHANGED <<pair, list>> /\ (list.late => owed' = [k \in Keys |-> owed[k]])
      BY <1>4 DEF OnSuccess
    <2>2. \A d \in Calls : call'[d] \in {"done", "settled"} => call[d] \in {"done", "settled"}
      BY <1>0, <1>4 DEF OnSuccess
    <2> QED  BY <2>1, <2>2
  <1>5. CASE PushPatch
    <2>1. UNCHANGED <<pair, list, call>> /\ \A k \in Keys : owed'[k] \subseteq owed[k]
      BY <1>5 DEF PushPatch
    <2> QED  BY <2>1
  <1>6. CASE MakeList
    BY <1>0, <1>6 DEF MakeList, List
  <1>7. CASE StoreList
    BY <1>0, <1>7 DEF StoreList, NoList, List
  <1>8. CASE LapseList
    BY <1>0, <1>8 DEF LapseList, Dropped, List
  <1>9. \/ UNCHANGED <<pair, list, call, owed>> \/ PushPatch \/ ListStep
        \/ \E c \in Calls : CallStep(c) \/ OnSuccess(c)
    BY Zenon DEF cacheVars, CacheNext, CallStep, ListStep, Show, Expire, Collect, Read,
       Arrive, FetchFails, Hide, Poll, WriteElsewhere, PushInvalidate, PushOvertaken
  <1> QED  BY <1>1, <1>2, <1>3, <1>4, <1>5, <1>6, <1>7, <1>8, <1>9, Zenon DEF CallStep, ListStep

\* The library keeps the invariant: what is shown without a fetch is fresh, what
\* arrives was computed from all that is owed.
LEMMA OneEntryNext ==
    ASSUME CacheInv, NEW k \in Keys, EntryStep(k)
    PROVE  \A j \in Keys : EntryKept(entry'[j], owed'[j], pair'.covers, j = shown')
  <1> USE DEF EntryStep
  <1>1. UNCHANGED <<pair, owed>> /\ \A j \in Keys \ {k} : entry'[j] = entry[j]
    BY DEF Show, Expire, Collect, Read, Arrive, FetchFails, CacheInv, CacheTypeOK
  <1>2. CacheTypeOK /\ OwedIsDone /\ ListInTime
        /\ \A j \in Keys : EntryKept(entry[j], owed[j], pair.covers, j = shown)
    BY KeptByEntries
  <1>3. ASSUME NEW j \in Keys \ {k}
        PROVE  EntryKept(entry'[j], owed'[j], pair'.covers, j = shown')
    <2>1. j = shown' => j = shown
      BY DEF Show, Expire, Collect, Read, Arrive, FetchFails
    <2> QED  BY <1>1, <1>2, <2>1 DEF EntryKept
  <1>4. EntryKept(entry'[k], owed[k], pair.covers, k = shown')
    <2> DEFINE e == entry[k]
    <2>1. e \in Entry /\ EntryKept(e, owed[k], pair.covers, k = shown)
      BY <1>2 DEF CacheTypeOK
    <2>2. CASE Show(k)
      <3>1. entry'[k] = IF ~e.has \/ e.stale \/ pair.zero THEN Fetch(e) ELSE e
        BY <2>2, <1>2 DEF Show, CacheTypeOK
      <3>2. CASE ~e.has \/ e.stale \/ pair.zero
        <4> HIDE DEF e
        <4> QED  BY <3>1, <3>2, <2>1, FetchEntry DEF EntryKept
      <3>3. CASE ~(~e.has \/ e.stale \/ pair.zero)
        <4> HIDE DEF e
        <4> QED  BY <3>1, <3>3, <2>1 DEF EntryKept, Entry
      <3> QED  BY <3>2, <3>3
    <2>3. CASE Expire(k)
      <3>1. entry'[k] = [e EXCEPT !.stale = TRUE] /\ shown' = shown
        BY <2>3, <1>2 DEF Expire, CacheTypeOK
      <3> HIDE DEF e
      <3> QED  BY <3>1, <2>1 DEF EntryKept, Entry
    <2>4. CASE Collect(k)
      <3>1. entry'[k] = Empty
        BY <2>4, <1>2 DEF Collect, CacheTypeOK
      <3> QED  BY <3>1 DEF EntryKept, Empty
    <2>5. CASE Read(k)
      <3> DEFINE got == IF pair.kept /\ list.has THEN list.data ELSE db
      <3>1. entry'[k] = [e EXCEPT !.fetch = "read", !.got = got] /\ shown' = shown
        BY <2>5, <1>2 DEF Read, CacheTypeOK
      <3>2. owed[k] \subseteq got
        BY <1>2 DEF OwedIsDone, ListInTime
      <3> HIDE DEF e, got
      <3> QED  BY <3>1, <3>2, <2>1 DEF EntryKept, Entry
    <2>6. CASE Arrive(k)
      <3>1. entry'[k] = [Empty EXCEPT !.has = TRUE, !.data = e.got] /\ e.fetch = "read"
        BY <2>6, <1>2 DEF Arrive, CacheTypeOK
      <3> HIDE DEF e
      <3> QED  BY <3>1, <2>1 DEF EntryKept, Empty
    <2>7. CASE FetchFails(k)
      <3>1. entry'[k] = [e EXCEPT !.fetch = "idle", !.got = {}, !.stale = e.has,
                                  !.failed = TRUE]
            /\ e.fetch # "idle"
        BY <2>7, <1>2 DEF FetchFails, CacheTypeOK
      <3> HIDE DEF e
      <3> QED  BY <3>1, <2>1 DEF EntryKept, Entry
    <2> QED  BY <2>2, <2>3, <2>4, <2>5, <2>6, <2>7
  <1> QED  BY <1>1, <1>3, <1>4

\* An acknowledged write is owed only where a fetch that is too old is restarted.
LEMMA OnSuccessEntries ==
    ASSUME CacheInv, NEW c \in Calls, OnSuccess(c), NEW k \in Keys
    PROVE  EntryKept(entry'[k], owed'[k], pair'.covers, k = shown')
  <1> DEFINE es == PatchedBy(c)
             e == entry[k]
             p == es[k]
             restarts == /\ ~list.late
                         /\ e.fetch = "idle" \/ (pair.covers /\ k = shown /\ p.has)
  <1>1. /\ UNCHANGED <<pair, shown>>
        /\ entry' = IF pair.covers THEN Invalidated(es) ELSE es
        /\ owed'[k] = IF restarts THEN owed[k] \cup {c} ELSE owed[k]
    BY DEF OnSuccess, PatchedBy
  <1>2. CacheTypeOK /\ EntryKept(e, owed[k], pair.covers, k = shown)
    BY KeptByEntries
  <1>3. e \in Entry /\ c \in Writes /\ pair.creates \in BOOLEAN
    BY <1>2, TraitsBoolean DEF CacheTypeOK, Writes
  <1>4. es \in [Keys -> Entry]
    BY <1>2, TraitsBoolean, PatchedEntry DEF CacheTypeOK, PatchedBy, Writes
  <1>5. p = IF pair.patches THEN Patched(e, c) ELSE e
    BY DEF PatchedBy
  <1>6. p \in Entry /\ p.fetch = e.fetch /\ p.got = e.got /\ e.data \subseteq p.data
    BY <1>3, <1>5, PatchedEntry
  <1>7. CASE pair.covers
    <2> DEFINE i == Invalidated(es)[k]
    <2>1. /\ i.has = p.has /\ i.stale = p.has
          /\ k = shown => i.fetch # "idle"
          /\ i.fetch = "read" => /\ p.fetch = "read" /\ i.got = p.got
                                 /\ k = shown => ~p.has
      BY <1>4, InvalidatedEntry
    <2>2. entry'[k] = i
      BY <1>1, <1>7
    <2>3. i.fetch = "read" => owed'[k] = owed[k] /\ owed[k] \subseteq i.got
      <3> HIDE DEF i, p, e
      <3> QED  BY <2>1, <1>1, <1>2, <1>6 DEF EntryKept
    <2> HIDE DEF i, p, e, es
    <2> QED  BY <2>1, <2>2, <2>3, <1>1, <1>7 DEF EntryKept
  <1>8. CASE ~pair.covers
    <2>1. pair.patches /\ ~pair.creates
      BY <1>2, <1>8, TraitsBoolean
    <2>2. p = Patched(e, c) /\ (~e.has => p = e) /\ (e.has => p.data = e.data \cup {c})
      BY <1>3, <1>5, <2>1, PatchedEntry
    <2>3. entry'[k] = p
      BY <1>1, <1>8
    <2> HIDE DEF p, e, es
    <2>4. p.has => owed'[k] \subseteq p.data
      BY <2>2, <1>1, <1>2, <1>8 DEF EntryKept
    <2>5. p.fetch = "read" => owed'[k] \subseteq p.got
      BY <1>6, <1>1, <1>2, <1>8 DEF EntryKept
    <2> QED  BY <2>3, <2>4, <2>5 DEF EntryKept
  <1> QED  BY <1>7, <1>8

\* A push makes no entry fresh that owes a write.
LEMMA PushEntries ==
    ASSUME CacheInv, PushPatch \/ PushInvalidate, NEW k \in Keys
    PROVE  EntryKept(entry'[k], owed'[k], pair'.covers, k = shown')
  <1> DEFINE e == entry[k]
  <1>1. CacheTypeOK /\ EntryKept(e, owed[k], pair.covers, k = shown) /\ UNCHANGED <<pair, shown>>
    BY KeptByEntries DEF PushPatch, PushInvalidate
  <1>2. e \in Entry /\ Elsewhere \in Writes /\ pair.creates \in BOOLEAN
    BY <1>1, TraitsBoolean DEF CacheTypeOK, Writes
  <1>3. CASE PushPatch
    <2> DEFINE p == Patched(e, Elsewhere)
    <2>1. entry'[k] = p /\ owed'[k] = IF e.stale /\ e.fetch = "idle" THEN {} ELSE owed[k]
      BY <1>3, <1>1 DEF PushPatch
    <2>2. /\ p.fetch = e.fetch /\ p.got = e.got /\ e.data \subseteq p.data
          /\ ~e.has => p = e
      BY <1>2, CallsAssumption, PatchedEntry
    <2> HIDE DEF p, e
    <2> QED  BY <2>1, <2>2, <1>1, <1>2 DEF EntryKept, Entry
  <1>4. CASE PushInvalidate
    <2> DEFINE i == Invalidated(entry)[k]
    <2>1. /\ i.has = e.has /\ i.stale = e.has /\ i.data = e.data
          /\ k = shown => i.fetch # "idle"
          /\ i.fetch = "read" => e.fetch = "read" /\ i.got = e.got
      BY <1>1, InvalidatedEntry DEF CacheTypeOK
    <2>2. entry'[k] = i /\ owed'[k] = owed[k]
      BY <1>4 DEF PushInvalidate
    <2> HIDE DEF i, e
    <2> QED  BY <2>1, <2>2, <1>1 DEF EntryKept
  <1> QED  BY <1>3, <1>4

LEMMA CacheInvNext == CacheInv /\ [CacheNext]_cacheVars => CacheInv'
  <1> SUFFICES ASSUME CacheInv, [CacheNext]_cacheVars PROVE CacheInv'
      OBVIOUS
  <1>1. CacheTypeOK /\ OwedIsDone /\ ListInTime
        /\ \A k \in Keys : EntryKept(entry[k], owed[k], pair.covers, k = shown)
    BY KeptByEntries
  <1>2. CacheTypeOK' /\ OwedIsDone' /\ ListInTime'
    BY <1>1, CacheTypeNext, OwedIsDoneNext, ListInTimeNext
  <1> DEFINE Kept ==
               \A k \in Keys : EntryKept(entry'[k], owed'[k], pair'.covers, k = shown')
  <1> SUFFICES Kept
    BY <1>2
       DEF CacheInv, AnswersInTime, FreshShows, OwnWritesShown, Settled, EntryKept
  <1>3. ASSUME NEW k \in Keys, EntryStep(k) PROVE Kept
    BY <1>3, OneEntryNext
  <1>4. ASSUME NEW c \in Calls, OnSuccess(c) PROVE Kept
    BY <1>4, OnSuccessEntries
  <1>5. CASE PushPatch \/ PushInvalidate
    BY <1>5, PushEntries
  <1>6. CASE Poll
    <2>1. /\ \A k \in Keys : entry'[k] = IF k = shown THEN Fetch(entry[k]) ELSE entry[k]
          /\ UNCHANGED <<pair, shown, owed>>
      BY <1>6, <1>1 DEF Poll, CacheTypeOK
    <2>2. ASSUME NEW k \in Keys
          PROVE  EntryKept(entry'[k], owed'[k], pair'.covers, k = shown')
      <3>1. entry[k] \in Entry /\ EntryKept(entry[k], owed[k], pair.covers, k = shown)
        BY <1>1 DEF CacheTypeOK
      <3> DEFINE e == entry[k]
                 f == Fetch(entry[k])
      <3>2. /\ f.fetch # "idle" /\ f.has = e.has /\ f.data = e.data /\ f.stale = e.stale
            /\ f.fetch = "read" => e.fetch = "read" /\ f.got = e.got
        BY <3>1, FetchEntry
      <3> HIDE DEF e, f
      <3>3. EntryKept(f, owed[k], pair.covers, k = shown)
        BY <3>2, <3>1 DEF EntryKept, e
      <3> QED  BY <2>1, <3>1, <3>3 DEF f
    <2> QED  BY <2>2
  <1>7. CASE UNCHANGED <<pair, entry, owed>> /\ shown' \in {shown, None}
    <2>1. \A k \in Keys : k = shown' => k = shown
      BY <1>7, KeysAssumption
    <2> QED  BY <1>7, <1>1, <2>1 DEF EntryKept
  <1>9. CASE StoreList
    <2>1. UNCHANGED <<pair, entry, shown>> /\ \A k \in Keys : owed'[k] \subseteq owed[k]
      BY <1>9 DEF StoreList
    <2> QED  BY <1>1, <2>1 DEF EntryKept
  <1>8. \/ \E k \in Keys : EntryStep(k)
        \/ \E c \in Calls : OnSuccess(c)
        \/ PushPatch \/ PushInvalidate \/ Poll \/ StoreList
        \/ UNCHANGED <<pair, entry, owed>> /\ shown' \in {shown, None}
    BY DEF cacheVars, CacheNext, EntryStep, Hide, Submit, Commit, DropList, CallFails,
       MakeList, LapseList, WriteElsewhere, PushOvertaken
  <1> QED
    BY <1>3, <1>4, <1>5, <1>6, <1>7, <1>8, <1>9, Zenon

(* CacheInv holds in every state: what is owed is committed and in the     *)
(* list the backend keeps, no answer is under way that is older than it,   *)
(* and a fresh entry contains it (the library's cancelRefetch, the hooks'  *)
(* onSuccess, the handlers' _invalidate_server_list_cache).                *)
THEOREM CacheInvariant == CacheSpec => []CacheInv
  BY CacheInvInit, CacheInvNext, PTL DEF CacheSpec

(* A page at rest shows what its user did (OwnWritesShown), for any number *)
(* of cache entries and of calls of the mutation: onSuccess of the hooks   *)
(* invalidates or patches every entry, and no older answer slips in. It    *)
(* is about the pairs that are told (KnownGaps are not).                   *)
THEOREM OwnWritesAreShown == CacheSpec => []OwnWritesShown
  <1>1. CacheInv => OwnWritesShown
    BY DEF CacheInv
  <1> QED  BY <1>1, CacheInvariant, PTL

(* A view that shows an own write is never replaced by one without it      *)
(* (NoStepBack): an answer that arrives was computed from what was owed    *)
(* when it was asked for, as an invalidation restarts the fetch.           *)
THEOREM CacheNeverStepsBack == CacheSpec => NoStepBack
  <1> DEFINE Forward ==
        \A k \in Keys : k = shown /\ k = shown' /\ owed'[k] = owed[k] /\ entry'[k].has
            => \A w \in owed[k] \cap entry[k].data : w \in entry'[k].data
  <1>1. CacheInv /\ [CacheNext]_cacheVars => [Forward]_cacheVars
    <2> SUFFICES ASSUME CacheInv, CacheNext, NEW k \in Keys, k = shown, k = shown'
                 PROVE  owed[k] \cap entry[k].data \subseteq entry'[k].data
      OBVIOUS
    <2>1. CacheTypeOK /\ EntryKept(entry[k], owed[k], pair.covers, k = shown)
          /\ \A j \in Keys : entry[j] \in Entry
      BY KeptByEntries DEF CacheTypeOK
    <2>2. ASSUME NEW j \in Keys, EntryStep(j), ~Arrive(j)
          PROVE  entry'[k].data = entry[k].data
      <3> USE DEF EntryStep
      <3>1. CASE j # k
        BY <2>1, <2>2, <3>1 DEF Show, Expire, Read, FetchFails, Collect, CacheTypeOK
      <3>2. CASE j = k
        <4>1. ~Show(k) /\ ~Collect(k)
          BY DEF Show, Collect
        <4>2. Expire(k) \/ Read(k) \/ FetchFails(k)
          BY <2>2, <3>2, <4>1
        <4>3. entry'[k] \in {[entry[k] EXCEPT !.stale = TRUE],
                            [entry[k] EXCEPT !.fetch = "read",
                                !.got = IF pair.kept /\ list.has THEN list.data ELSE db],
                            [entry[k] EXCEPT !.fetch = "idle", !.got = {},
                                             !.stale = entry[k].has, !.failed = TRUE]}
          BY <2>1, <4>2 DEF Expire, Read, FetchFails, CacheTypeOK
        <4> QED  BY <2>1, <4>3 DEF Entry
      <3> QED  BY <3>1, <3>2
    <2>3. ASSUME NEW j \in Keys, Arrive(j)
          PROVE  owed[k] \cap entry[k].data \subseteq entry'[k].data
      <3>1. CASE j # k
        BY <2>1, <2>3, <3>1 DEF Arrive, CacheTypeOK
      <3>2. CASE j = k
        <4>1. entry'[k].data = entry[k].got /\ entry[k].fetch = "read"
          BY <2>1, <2>3, <3>2 DEF Arrive, CacheTypeOK, Empty
        <4> QED  BY <4>1, <2>1 DEF EntryKept
      <3> QED  BY <3>1, <3>2
    <2>4. CASE Poll
      <3>1. entry'[k] = Fetch(entry[k])
        BY <2>1, <2>4 DEF Poll, CacheTypeOK
      <3> QED  BY <3>1, <2>1, FetchEntry
    <2>5. ASSUME NEW c \in Calls, OnSuccess(c)
          PROVE  entry[k].data \subseteq entry'[k].data
      <3> DEFINE es == PatchedBy(c)
      <3>1. es \in [Keys -> Entry] /\ entry[k].data \subseteq es[k].data
        BY <2>1, TraitsBoolean, PatchedEntry DEF CacheTypeOK, PatchedBy, Writes
      <3>2. entry' = IF pair.covers THEN Invalidated(es) ELSE es
        BY <2>5 DEF OnSuccess, PatchedBy
      <3> HIDE DEF es
      <3>3. Invalidated(es)[k].data = es[k].data
        BY <3>1, InvalidatedEntry
      <3> QED  BY <3>1, <3>2, <3>3
    <2>6. CASE PushPatch
      <3>1. entry'[k] = Patched(entry[k], Elsewhere)
        BY <2>6 DEF PushPatch
      <3>2. Elsewhere \in Writes /\ pair.creates \in BOOLEAN
        BY <2>1, TraitsBoolean DEF Writes
      <3> QED  BY <3>1, <3>2, <2>1, PatchedEntry
    <2>7. CASE PushInvalidate
      <3>1. entry'[k] = Invalidated(entry)[k]
        BY <2>7 DEF PushInvalidate
      <3> QED  BY <3>1, <2>1, InvalidatedEntry DEF CacheTypeOK
    <2>8. CASE UNCHANGED entry
      BY <2>8
    <2>9. \/ \E j \in Keys : EntryStep(j)
          \/ Poll \/ PushPatch \/ PushInvalidate \/ UNCHANGED entry
          \/ \E c \in Calls : OnSuccess(c)
      BY Zenon DEF CacheNext, EntryStep, Hide, Submit, Commit, DropList, CallFails,
         MakeList, StoreList, LapseList, WriteElsewhere, PushOvertaken
    <2> QED  BY <2>2, <2>3, <2>4, <2>5, <2>6, <2>7, <2>8, <2>9
  <1> QED  BY <1>1, CacheInvariant, PTL DEF CacheSpec, NoStepBack

-----------------------------------------------------------------------------
(*****************************************************************************)
(* The gateway page                                                          *)
(*****************************************************************************)
(* A page that has gone on by itself has left its mark in sessionStorage.  *)
MarkKept == autos \in {0, 1} /\ (autos = 1 => redirected)

(* As RedirectingIsWorking, also while the page reports a failed fetch.    *)
RedirectUnderWay ==
    at = "page" /\ view.has /\ view.status = "running" /\ ~ui.ready => auto # "none"

-----------------------------------------------------------------------------
(* The effect of a status: it writes only the variables it names.          *)
LEMMA RedirectTypes ==
    ASSUME GatewayTypeOK, NEW v \in View, NEW u \in Users, Redirect(v, u)
    PROVE  /\ ui' \in Ui /\ redirected' \in BOOLEAN /\ auto' \in Steps
           /\ autos' \in Nat /\ unasked' \in BOOLEAN
  <1>1. [ui EXCEPT !.ready = TRUE] \in Ui
    BY DEF GatewayTypeOK, Ui
  <1>2. ui' \in Ui
    BY <1>1, Zenon DEF GatewayTypeOK, Redirect
  <1>3. autos' \in Nat
    <2>1. autos + 1 \in Nat
      BY DEF GatewayTypeOK
    <2> QED BY <2>1, Zenon DEF GatewayTypeOK, Redirect
  <1>4. redirected' \in BOOLEAN /\ auto' \in Steps
    BY Zenon DEF GatewayTypeOK, Redirect, Steps
  <1>5. unasked' \in BOOLEAN
    BY Zenon DEF GatewayTypeOK, Redirect, Asks
  <1> QED BY <1>2, <1>3, <1>4, <1>5

(* Afterwards a page that shows a running server offers it or goes there.  *)
LEMMA RedirectActs ==
    ASSUME GatewayTypeOK, NEW v, NEW u, Redirect(v, u), v.has, v.status = "running"
    PROVE  ui'.ready \/ auto' # "none"
  BY DEF GatewayTypeOK, Redirect, Ui

(* A fetch started anew leaves what is shown as it is.                     *)
LEMMA InvalidatedStatus ==
    ASSUME NEW v \in View
    PROVE  /\ StatusInvalidated(v) \in View
           /\ StatusInvalidated(v).has = v.has /\ StatusInvalidated(v).status = v.status
  BY DEF StatusInvalidated, View, Statuses

LEMMA GatewayTypeInit == GatewayInit => GatewayTypeOK
  <1> SUFFICES ASSUME GatewayInit PROVE GatewayTypeOK
      OBVIOUS
  <1>1. view \in View /\ ui \in Ui
    BY DEF GatewayInit, View, NotLoaded, Statuses, Ui, Fresh
  <1>2. changes \in 0 .. MaxChanges /\ visits \in 1 .. MaxVisits /\ autos \in Nat
    BY GatewayAssumption DEF GatewayInit
  <1>3. start \subseteq Starts /\ adrift \subseteq Steps \ {"none"} /\ auto \in Steps
        /\ manual \in Steps
    BY DEF GatewayInit, Starts, Steps
  <1> QED BY <1>1, <1>2, <1>3 DEF GatewayInit, GatewayTypeOK

LEMMA GatewayTypeNext == GatewayTypeOK /\ [GatewayNext]_gatewayVars => GatewayTypeOK'
  <1> SUFFICES ASSUME GatewayTypeOK, [GatewayNext]_gatewayVars PROVE GatewayTypeOK'
      OBVIOUS
  <1> USE GatewayAssumption
  <1>1. CASE PollStatus
    BY <1>1, InvalidatedStatus DEF PollStatus, GatewayTypeOK
  <1>2. CASE StatusRead
    BY <1>2 DEF StatusRead, GatewayTypeOK, View
  <1>3. CASE StatusArrives
    <2>1. view' \in View
      BY <1>3 DEF StatusArrives, GatewayTypeOK, View, Statuses
    <2>2. ui' \in Ui /\ redirected' \in BOOLEAN /\ auto' \in Steps /\ autos' \in Nat
          /\ unasked' \in BOOLEAN
      <3>1. CASE Redirect(view', user)
        BY <2>1, <3>1, RedirectTypes DEF GatewayTypeOK
      <3>2. CASE UNCHANGED <<ui, redirected, auto, autos, unasked>>
        BY <3>2 DEF GatewayTypeOK
      <3> QED BY <1>3, <3>1, <3>2 DEF StatusArrives
    <2> QED BY <1>3, <2>1, <2>2 DEF StatusArrives, GatewayTypeOK
  <1>4. CASE StatusFails
    BY <1>4 DEF StatusFails, GatewayTypeOK, View, Statuses
  <1>5. CASE UserLoads
    <2>1. ui' \in Ui /\ redirected' \in BOOLEAN /\ auto' \in Steps /\ autos' \in Nat
          /\ unasked' \in BOOLEAN
      <3>1. CASE Redirect(view, "viewer")
        BY <3>1, RedirectTypes DEF GatewayTypeOK, Users
      <3>2. CASE UNCHANGED <<ui, redirected, auto, autos, unasked>>
        BY <3>2 DEF GatewayTypeOK
      <3> QED BY <1>5, <3>1, <3>2 DEF UserLoads
    <2> QED BY <1>5, <2>1 DEF UserLoads, GatewayTypeOK, Users
  <1>6. CASE HandleStart
    BY <1>6 DEF HandleStart, GatewayTypeOK, Ui, Starts
  <1>7. CASE HandleManualOpen
    BY <1>7 DEF HandleManualOpen, GatewayTypeOK, Ui, Steps, Asks
  <1>8. CASE GiveReason
    BY <1>8 DEF GiveReason, GatewayTypeOK, Ui, Steps, Starts
  <1>9. CASE GiveNoReason
    BY <1>9, InvalidatedStatus DEF GiveNoReason, GatewayTypeOK
  <1>10. ASSUME NEW w \in Starts, StartFails(w) PROVE GatewayTypeOK'
    BY <1>10 DEF StartFails, Answered, GatewayTypeOK, Ui
  <1>11. ASSUME NEW w \in Starts, NEW s \in {"pending", "running"}, StartSucceeds(w, s)
         PROVE  GatewayTypeOK'
    BY <1>11, InvalidatedStatus DEF StartSucceeds, Answered, GatewayTypeOK, Statuses
  <1>12. CASE Token
    BY <1>12 DEF Token, TokenGranted, TokenFails, AutoFails, ManualFails,
       GatewayTypeOK, Ui, Steps
  <1>13. CASE DriftsOn
    BY <1>13 DEF DriftsOn, GatewayTypeOK, Steps
  <1>14. CASE Navigate
    BY <1>14 DEF Navigate, GatewayTypeOK, NotLoaded, View, Statuses, Fresh, Ui, Steps,
       Starts
  <1>15. CASE LeavePage
    BY <1>15 DEF LeavePage, GatewayTypeOK, Fresh, Ui, Steps, Starts
  <1>16. CASE OpenPage
    <2>1. view' \in View
      BY <1>16, InvalidatedStatus DEF OpenPage, GatewayTypeOK
    <2>2. ui' \in Ui /\ redirected' \in BOOLEAN /\ auto' \in Steps /\ autos' \in Nat
          /\ unasked' \in BOOLEAN
      BY <1>16, RedirectTypes DEF OpenPage, GatewayTypeOK
    <2> QED BY <1>16, <2>1, <2>2 DEF OpenPage, GatewayTypeOK
  <1>17. ASSUME NEW s \in Statuses, StatusChanges(s) PROVE GatewayTypeOK'
    BY <1>17 DEF StatusChanges, GatewayTypeOK
  <1>18. CASE UNCHANGED gatewayVars
    BY <1>18 DEF gatewayVars, GatewayTypeOK
  <1> QED
    BY <1>1, <1>2, <1>3, <1>4, <1>5, <1>6, <1>7, <1>8, <1>9, <1>10, <1>11, <1>12, <1>13,
       <1>14, <1>15, <1>16, <1>17, <1>18 DEF GatewayNext

(* Type correctness of the gateway page: every variable keeps its type, in *)
(* whatever order answers, clicks and visits come.                         *)
THEOREM GatewayTypeCorrect == GatewaySpec => []GatewayTypeOK
  BY GatewayTypeInit, GatewayTypeNext, PTL DEF GatewaySpec

-----------------------------------------------------------------------------
(* The page takes the tab away by itself at most once: it leaves its mark  *)
(* in sessionStorage before it asks for the token, and only goes on where  *)
(* there is none (AutoOnce).                                               *)
THEOREM RedirectsOnce == GatewaySpec => []AutoOnce
  <1>1. GatewayInit => MarkKept
    BY DEF GatewayInit, MarkKept
  <1>2. MarkKept /\ [GatewayNext]_gatewayVars => MarkKept'
    <2> SUFFICES ASSUME MarkKept, [GatewayNext]_gatewayVars PROVE MarkKept'
        OBVIOUS
    <2>1. ASSUME NEW v, NEW u, Redirect(v, u) PROVE MarkKept'
      BY <2>1 DEF Redirect, MarkKept
    <2>2. CASE UNCHANGED <<autos, redirected>>
      BY <2>2 DEF MarkKept
    <2>3. CASE StatusArrives
      BY <2>1, <2>2, <2>3 DEF StatusArrives
    <2>4. CASE UserLoads
      BY <2>1, <2>2, <2>4 DEF UserLoads
    <2>5. CASE OpenPage
      BY <2>1, <2>5 DEF OpenPage
    <2> QED
      BY <2>2, <2>3, <2>4, <2>5 DEF GatewayNext, gatewayVars, PollStatus, StatusRead,
         StatusFails, HandleStart,
         HandleManualOpen, GiveReason, GiveNoReason, StartFails, StartSucceeds, Token,
         TokenGranted, TokenFails, DriftsOn, Navigate, LeavePage, StatusChanges
  <1>3. MarkKept => AutoOnce
    BY DEF MarkKept, AutoOnce
  <1> QED BY <1>1, <1>2, <1>3, PTL DEF GatewaySpec

(* A page that says it opens the environment does so, or offers the button *)
(* when the token was refused (RedirectingIsWorking): whatever changes the *)
(* status on screen or who the user is runs the effect again.              *)
THEOREM RedirectingIsReal == GatewaySpec => []RedirectingIsWorking
  <1>1. GatewayInit => RedirectUnderWay
    BY DEF GatewayInit, NotLoaded, RedirectUnderWay
  <1>2. GatewayTypeOK /\ RedirectUnderWay /\ [GatewayNext]_gatewayVars => RedirectUnderWay'
    <2> SUFFICES ASSUME GatewayTypeOK, RedirectUnderWay, [GatewayNext]_gatewayVars
                 PROVE  RedirectUnderWay'
        OBVIOUS
    <2>1. CASE PollStatus \/ GiveNoReason
      BY <2>1, InvalidatedStatus DEF PollStatus, GiveNoReason, GatewayTypeOK,
         RedirectUnderWay
    <2>2. CASE StatusRead \/ StatusFails
      BY <2>2 DEF StatusRead, StatusFails, GatewayTypeOK, View, RedirectUnderWay
    <2>3. CASE StatusArrives
      <3>1. CASE at = "page" /\ (~view.has \/ view.status # view.got)
        BY <2>3, <3>1, RedirectActs DEF StatusArrives, RedirectUnderWay
      <3>2. CASE at = "page" /\ view.has /\ view.status = view.got
        BY <2>3, <3>2 DEF StatusArrives, RedirectUnderWay
      <3>3. CASE at # "page"
        BY <2>3, <3>3 DEF StatusArrives, RedirectUnderWay
      <3> QED BY <3>1, <3>2, <3>3
    <2>4. CASE UserLoads
      <3>1. CASE Redirect(view, "viewer")
        BY <2>4, <3>1, RedirectActs DEF UserLoads, RedirectUnderWay
      <3>2. CASE UNCHANGED <<ui, auto>>
        BY <2>4, <3>2 DEF UserLoads, RedirectUnderWay
      <3> QED BY <2>4, <3>1, <3>2 DEF UserLoads
    <2>5. CASE HandleStart \/ HandleManualOpen \/ GiveReason
      BY <2>5 DEF HandleStart, HandleManualOpen, GiveReason, GatewayTypeOK, Ui,
         RedirectUnderWay
    <2>6. ASSUME NEW w \in Starts, StartFails(w) PROVE RedirectUnderWay'
      BY <2>6 DEF StartFails, GatewayTypeOK, Ui, RedirectUnderWay
    <2>7. ASSUME NEW w \in Starts, NEW s \in {"pending", "running"}, StartSucceeds(w, s)
          PROVE  RedirectUnderWay'
      BY <2>7, InvalidatedStatus DEF StartSucceeds, GatewayTypeOK, RedirectUnderWay
    <2>8. CASE Token
      BY <2>8 DEF Token, TokenGranted, TokenFails, AutoFails, ManualFails,
         GatewayTypeOK, Ui,
         RedirectUnderWay
    <2>9. CASE Navigate \/ LeavePage
      BY <2>9 DEF Navigate, LeavePage, RedirectUnderWay
    <2>10. CASE OpenPage
      <3>1. view'.has = view.has /\ view'.status = view.status
        BY <2>10, InvalidatedStatus DEF OpenPage, GatewayTypeOK
      <3> QED BY <2>10, <3>1, RedirectActs DEF OpenPage, RedirectUnderWay
    <2>11. CASE UNCHANGED <<at, view, ui, auto>>
      BY <2>11 DEF RedirectUnderWay
    <2> QED
      BY <2>1, <2>2, <2>3, <2>4, <2>5, <2>6, <2>7, <2>8, <2>9, <2>10, <2>11
         DEF GatewayNext, gatewayVars, DriftsOn, StatusChanges
  <1>3. GatewayTypeOK /\ RedirectUnderWay => RedirectingIsWorking
    <2> SUFFICES ASSUME GatewayTypeOK, Screen = "redirecting"
                 PROVE  view.has /\ view.status = "running" /\ ~ui.ready
        BY DEF RedirectUnderWay, RedirectingIsWorking
    <2>1. view.failed \in BOOLEAN /\ view.has \in BOOLEAN /\ ui.ready \in BOOLEAN
      BY DEF GatewayTypeOK, View, Ui
    <2> QED BY <2>1 DEF Screen
  <1> QED BY <1>1, <1>2, <1>3, GatewayTypeCorrect, PTL DEF GatewaySpec

(* No token for another's server is asked for without a reason, unless the *)
(* store still has who was signed in before (AskedWithReason).             *)
THEOREM ReasonIsGiven == GatewaySpec => []AskedWithReason
  <1>1. GatewayInit => AskedWithReason
    BY DEF GatewayInit, AskedWithReason
  <1>2. GatewayTypeOK /\ AskedWithReason /\ [GatewayNext]_gatewayVars => AskedWithReason'
    <2> SUFFICES ASSUME GatewayTypeOK, AskedWithReason, [GatewayNext]_gatewayVars
                 PROVE  AskedWithReason'
        OBVIOUS
    <2>1. ASSUME NEW v, NEW u \in {user, "viewer"}, Redirect(v, u) PROVE AskedWithReason'
      BY <2>1 DEF Redirect, IsOwnServer, Asks, GatewayTypeOK, Users, AskedWithReason
    <2>2. CASE UNCHANGED unasked
      BY <2>2 DEF AskedWithReason
    <2>3. CASE StatusArrives
      BY <2>1, <2>2, <2>3 DEF StatusArrives
    <2>4. CASE UserLoads
      BY <2>1, <2>2, <2>4 DEF UserLoads
    <2>5. CASE OpenPage
      BY <2>1, <2>5 DEF OpenPage
    <2>6. CASE HandleManualOpen
      BY <2>6 DEF HandleManualOpen, IsOwnServer, Asks, GatewayTypeOK, Users,
         AskedWithReason
    <2> QED
      BY <2>2, <2>3, <2>4, <2>5, <2>6 DEF GatewayNext, gatewayVars, PollStatus,
         StatusRead, StatusFails, HandleStart,
         GiveReason, GiveNoReason, StartFails, StartSucceeds, Token, TokenGranted,
         TokenFails, DriftsOn, Navigate, LeavePage, StatusChanges
  <1> QED BY <1>1, <1>2, GatewayTypeCorrect, PTL DEF GatewaySpec
=============================================================================

----------------------------- MODULE QueryCache -----------------------------
(***************************************************************************)
(* What a page shows of what its user has just done. The pages of the web   *)
(* client show cached answers (TanStack Query, lib/api.ts: fresh for 30 s)  *)
(* and refresh them after a mutation by invalidating or patching the cache. *)
(*                                                                          *)
(* One page, one query it shows and one mutation it offers are observed at  *)
(* a time; what matters of the three is their Traits. The query has one     *)
(* cache entry for each value of its parameters (page number, filter).      *)
(* Data is the set of writes an answer was computed from.                   *)
(*                                                                          *)
(* The backend keeps a list of servers in Redis for 30 s (core/cache.py)    *)
(* and drops it at the end of each handler that writes one. That is the     *)
(* list of the servers' owner: the calls observed are the owner's, and      *)
(* Redis answers.                                                           *)
(***************************************************************************)
EXTENDS Pages, Integers, FiniteSets

CONSTANTS
    Keys,      \* entries of the observed query, one per parameter value
    Calls,     \* calls of the observed mutation; each is one write
    None       \* no entry on screen

ASSUME KeysAssumption == None \notin Keys /\ Keys # {}

Elsewhere == "elsewhere"
Writes == Calls \cup {Elsewhere}

ASSUME CallsAssumption == Elsewhere \notin Calls

VARIABLES
    pair,      \* the query and the mutation of a page that are observed
    shown,     \* the entry on screen
    entry,     \* the cache: [Keys -> Entry]
    db,        \* writes the backend has committed
    call,      \* where each call of the mutation is
    news,      \* "none", "written", "told": a write by someone else
    list,      \* the list of servers the backend keeps, and the one it makes
    owed       \* own writes each entry has to show by now

cacheVars == <<pair, shown, entry, db, call, news, list, owed>>

Entry ==
    [has : BOOLEAN, data : SUBSET Writes, stale : BOOLEAN, failed : BOOLEAN,
     fetch : {"idle", "asked", "read"}, got : SUBSET Writes]

Empty == [has |-> FALSE, data |-> {}, stale |-> FALSE, failed |-> FALSE,
          fetch |-> "idle", got |-> {}]

\* late: the list kept was read before a write whose handler had dropped the list
\* when it was stored.
List ==
    [has : BOOLEAN, data : SUBSET Writes, late : BOOLEAN,
     making : BOOLEAN, from : SUBSET Writes]

NoList == [has |-> FALSE, data |-> {}, late |-> FALSE, making |-> FALSE, from |-> {}]

-----------------------------------------------------------------------------
\* What is observed

\* The socket patches the list of servers with a status, and a notification
\* invalidates the lists of notifications, one about credits also those of
\* credit requests.
PushPatches     == {<<"servers">>}
PushInvalidates == {<<"notifications">>}
CreditNews      == {<<"credit-requests">>}

\* Nothing is owed where the hooks tell nobody. The list of volumes says what a
\* volume is used by and comes with those of one's workspaces; of servers and
\* workspaces it hears nothing (hooks/use-servers.ts, use-workspaces.ts). A
\* request for credits that is approved at once pays, and the balance and history
\* beside it stay as they were (use-credit-requests.ts). What runs in a server is
\* polled only.
UsesOfVolumes == {"mount", "attachment", "member"}

KnownGaps ==
    ({"volumes"} \X {m \in DOMAIN Mutations : Mutations[m].writes \cap UsesOfVolumes # {}})
    \cup ({"myCreditSummary", "myCreditHistory"} \X {"createRequest"})
    \cup ({"serverLogs", "serverTasks"} \X ServerOperations)

PairTraits(q, m) ==
    [covers  |-> Matches(m.invalidates, q.key),
     patches |-> Matches(m.patches, q.key),
     creates |-> m.creates,
     polls   |-> q.polls,
     zero    |-> q.zero,
     kept    |-> q.kept,
     push    |-> IF q.key \in PushPatches THEN "patch"
                 ELSE IF Matches(PushInvalidates, q.key) THEN "invalidate"
                 ELSE IF Matches(CreditNews, q.key) THEN "credit" ELSE "none"]

\* A query and a mutation that meet on a page, where the one reads what the
\* other writes.
ObservedPairs ==
    {PairTraits(Queries[qm[1]], Mutations[qm[2]]) :
        qm \in {x \in UNION {p.shows \X p.offers : p \in Pages} :
                  /\ Queries[x[1]].reads \cap Mutations[x[2]].writes # {}
                  /\ x \notin KnownGaps}}

\* Every write that is observed is told to the cache, by an invalidation unless
\* it is patched into what is there. A fact about the data, settled by
\* evaluating it.
ASSUME HooksAssumption ==
    \A t \in ObservedPairs :
        /\ {t.covers, t.patches, t.creates, t.kept} \subseteq BOOLEAN
        /\ t.covers \/ (t.patches /\ ~t.creates)

-----------------------------------------------------------------------------
\* The library (external)

Fetch(e) == IF e.fetch = "idle" THEN [e EXCEPT !.fetch = "asked"] ELSE e

(* Mutant of Refetch: a fetch under way is joined, always.                 *)
RefetchJoins(e) == Fetch(e)

\* An invalidation restarts a fetch under way (cancelRefetch), except the
\* first load, which it joins.
Refetch(e) ==
    IF e.fetch # "idle" /\ ~e.has THEN e
    ELSE [e EXCEPT !.fetch = "asked", !.got = {}]

(* Mutant of Invalidated: refetchType "none".                              *)
InvalidatedMarksOnly(es) == [k \in Keys |-> [es[k] EXCEPT !.stale = es[k].has]]

\* invalidateQueries: every entry is marked, the one on screen is fetched.
Invalidated(es) ==
    [k \in Keys |->
        IF k = shown THEN Refetch([es[k] EXCEPT !.stale = es[k].has])
        ELSE [es[k] EXCEPT !.stale = es[k].has]]

\* setQueryData: the entry counts as fresh, a fetch under way goes on.
Patched(e, w) ==
    IF e.has \/ (pair.creates /\ w \in Calls)
    THEN [e EXCEPT !.has = TRUE, !.data = @ \cup {w}, !.stale = FALSE, !.failed = FALSE]
    ELSE e

(* Mutant of Show: refetchOnMount is off, what is cached is shown as it is.*)
ShowCached(k) ==
    /\ pair.patches => k = CHOOSE x \in Keys : TRUE
    /\ k # shown
    /\ shown' = k
    /\ entry' = [entry EXCEPT ![k] = IF ~@.has THEN Fetch(@) ELSE @]
    /\ UNCHANGED <<pair, db, call, news, list, owed>>

\* An observer mounts, or changes its parameters.
Show(k) ==
    /\ pair.patches => k = CHOOSE x \in Keys : TRUE    \* such a query has no parameters
    /\ k # shown
    /\ shown' = k
    /\ entry' = [entry EXCEPT ![k] = IF ~@.has \/ @.stale \/ pair.zero THEN Fetch(@) ELSE @]
    /\ UNCHANGED <<pair, db, call, news, list, owed>>

Hide ==
    /\ shown # None
    /\ shown' = None
    /\ UNCHANGED <<pair, entry, db, call, news, list, owed>>

\* staleTime runs out; gcTime runs out.
Expire(k) ==
    /\ entry[k].has /\ ~entry[k].stale
    /\ entry' = [entry EXCEPT ![k].stale = TRUE]
    /\ UNCHANGED <<pair, shown, db, call, news, list, owed>>

Collect(k) ==
    /\ k # shown /\ entry[k].has /\ entry[k].fetch = "idle"
    /\ entry' = [entry EXCEPT ![k] = Empty]
    /\ UNCHANGED <<pair, shown, db, call, news, list, owed>>

Poll ==
    /\ shown # None /\ pair.polls
    /\ entry[shown].fetch = "idle"
    /\ entry' = [entry EXCEPT ![shown] = Fetch(@)]
    /\ UNCHANGED <<pair, shown, db, call, news, list, owed>>

\* The backend computes the answer, or has it in its list; the answer arrives;
\* or, after the retries of queryClient, an error does.
Read(k) ==
    /\ entry[k].fetch = "asked"
    /\ entry' = [entry EXCEPT ![k].fetch = "read",
                              ![k].got = IF pair.kept /\ list.has THEN list.data ELSE db]
    /\ UNCHANGED <<pair, shown, db, call, news, list, owed>>

Arrive(k) ==
    /\ entry[k].fetch = "read"
    /\ entry' = [entry EXCEPT ![k] = [Empty EXCEPT !.has = TRUE, !.data = entry[k].got]]
    /\ UNCHANGED <<pair, shown, db, call, news, list, owed>>

FetchFails(k) ==
    /\ entry[k].fetch # "idle"
    /\ entry' = [entry EXCEPT ![k] = [@ EXCEPT !.fetch = "idle", !.got = {},
                                               !.stale = entry[k].has, !.failed = TRUE]]
    /\ UNCHANGED <<pair, shown, db, call, news, list, owed>>

-----------------------------------------------------------------------------
\* The list the backend keeps (cache_get_or_set)

\* A request that finds no list and gets the lock makes one; others meanwhile
\* answer for themselves.
MakeList ==
    /\ pair.kept /\ ~list.has /\ ~list.making
    /\ list' = [list EXCEPT !.making = TRUE, !.from = db]
    /\ UNCHANGED <<pair, shown, entry, db, call, news, owed>>

Dropped(l) == [l EXCEPT !.has = FALSE, !.data = {}, !.late = FALSE]

\* It is stored whatever has been dropped in between. An old list stands for all
\* its time, and meanwhile nothing is owed.
StoreList ==
    LET late == ~ {c \in Calls : call[c] \in {"done", "settled"}} \subseteq list.from
    IN  /\ list.making
        /\ list' = [NoList EXCEPT !.has = TRUE, !.data = list.from, !.late = late]
        /\ owed' = IF late THEN [k \in Keys |-> {}] ELSE owed
        /\ UNCHANGED <<pair, shown, entry, db, call, news>>

\* _SERVER_LIST_CACHE_TTL runs out.
LapseList ==
    /\ list.has
    /\ list' = Dropped(list)
    /\ UNCHANGED <<pair, shown, entry, db, call, news, owed>>

-----------------------------------------------------------------------------
\* The mutation

Submit(c) ==
    /\ call[c] = "no"
    /\ call' = [call EXCEPT ![c] = "sent"]
    /\ UNCHANGED <<pair, shown, entry, db, news, list, owed>>

Commit(c) ==
    /\ call[c] = "sent"
    /\ call' = [call EXCEPT ![c] = IF pair.kept THEN "written" ELSE "done"]
    /\ db' = db \cup {c}
    /\ UNCHANGED <<pair, shown, entry, news, list, owed>>

\* _invalidate_server_list_cache, before the handler answers
DropList(c) ==
    /\ call[c] = "written"
    /\ call' = [call EXCEPT ![c] = "done"]
    /\ list' = Dropped(list)
    /\ UNCHANGED <<pair, shown, entry, db, news, owed>>

\* onError touches no query: refused, or done with the answer lost.
CallFails(c) ==
    /\ call[c] \in {"sent", "written", "done"}
    /\ call' = [call EXCEPT ![c] = "failed"]
    /\ UNCHANGED <<pair, shown, entry, db, news, list, owed>>

\* From the moment onSuccess runs the page owes its user the write, except
\* where a fetch is under way that nothing restarts, or would be answered from an
\* old list.
OnSuccess(c) ==
    LET patched == IF pair.patches THEN [k \in Keys |-> Patched(entry[k], c)] ELSE entry
        restarts(k) == /\ ~list.late
                       /\ entry[k].fetch = "idle" \/ (pair.covers /\ k = shown /\ patched[k].has)
    IN  /\ call[c] = "done"
        /\ call' = [call EXCEPT ![c] = "settled"]
        /\ entry' = IF pair.covers THEN Invalidated(patched) ELSE patched
        /\ owed' = [k \in Keys |-> IF restarts(k) THEN owed[k] \cup {c} ELSE owed[k]]
        /\ UNCHANGED <<pair, shown, db, news, list>>

-----------------------------------------------------------------------------
\* Someone else

WriteElsewhere ==
    /\ news = "none"
    /\ news' = "written"
    /\ db' = db \cup {Elsewhere}
    /\ UNCHANGED <<pair, shown, entry, call, list, owed>>

\* The status of a server is pushed. The patch makes an entry count as fresh
\* that was marked for a refetch: what it owed is no longer due.
PushPatch ==
    /\ news = "written" /\ pair.push = "patch"
    /\ news' = "told"
    /\ entry' = [k \in Keys |-> Patched(entry[k], Elsewhere)]
    /\ owed' = [k \in Keys |-> IF entry[k].stale /\ entry[k].fetch = "idle" THEN {} ELSE owed[k]]
    /\ UNCHANGED <<pair, shown, db, call, list>>

(* Mutant of PushInvalidate: the toast is shown and no list is refreshed.  *)
PushInvalidateToastOnly ==
    /\ news = "written" /\ pair.push \in {"invalidate", "credit"}
    /\ news' = "told"
    /\ UNCHANGED <<pair, shown, entry, db, call, list, owed>>

\* A notification arrives over the socket or in the next poll of the toasts.
PushInvalidate ==
    /\ news = "written" /\ pair.push \in {"invalidate", "credit"}
    /\ news' = "told"
    /\ entry' = Invalidated(entry)
    /\ UNCHANGED <<pair, shown, db, call, list, owed>>

\* A poll brings the newest first and refreshCaches then passes over what is more
\* than CLOCK_SKEW_TOLERANCE_MS older: behind any later notification, one about
\* credits refreshes nothing but the list of notifications.
PushOvertaken ==
    /\ news = "written" /\ pair.push = "credit"
    /\ news' = "told"
    /\ UNCHANGED <<pair, shown, entry, db, call, list, owed>>

-----------------------------------------------------------------------------
CacheInit ==
    /\ pair \in ObservedPairs
    /\ shown = None
    /\ entry = [k \in Keys |-> Empty]
    /\ db = {} /\ news = "none" /\ list = NoList
    /\ call = [c \in Calls |-> "no"]
    /\ owed = [k \in Keys |-> {}]

Network(k) == Read(k) \/ Arrive(k)

CacheNext ==
    \/ \E k \in Keys : Show(k) \/ Expire(k) \/ Collect(k) \/ Read(k) \/ Arrive(k) \/ FetchFails(k)
    \/ Hide \/ Poll
    \/ MakeList \/ StoreList \/ LapseList
    \/ \E c \in Calls : Submit(c) \/ Commit(c) \/ DropList(c) \/ CallFails(c) \/ OnSuccess(c)
    \/ WriteElsewhere \/ PushPatch \/ PushInvalidate \/ PushOvertaken

CacheSpec == CacheInit /\ [][CacheNext]_cacheVars

\* A request is answered or fails, the timer of a polling query fires, and a
\* notification is delivered (the poll of the toasts backs the socket up).
CacheFairness ==
    /\ \A k \in Keys : WF_cacheVars(Network(k))
    /\ WF_cacheVars(Poll)
    /\ WF_cacheVars(PushInvalidate)

CacheFairSpec == CacheSpec /\ CacheFairness

-----------------------------------------------------------------------------
CacheTypeOK ==
    /\ pair \in ObservedPairs
    /\ shown \in Keys \cup {None}
    /\ entry \in [Keys -> Entry]
    /\ db \subseteq Writes
    /\ call \in [Calls -> {"no", "sent", "written", "done", "settled", "failed"}]
    /\ news \in {"none", "written", "told"}
    /\ list \in List
    /\ owed \in [Keys -> SUBSET Calls]

Settled(k) == entry[k].has /\ entry[k].fetch = "idle" /\ ~entry[k].failed

(* A page at rest shows what its user did: once onSuccess of a mutation    *)
(* ran, an entry that is on screen, loaded and not being fetched contains  *)
(* the write, whatever answers were under way, and also when the page was  *)
(* left and opened again (the invalidations in the hooks' onSuccess, and   *)
(* the list the handlers drop before they answer). Pairs of KnownGaps owe  *)
(* nothing, nor does a list stored too late while it stands.               *)
OwnWritesShown == \A k \in Keys : k = shown /\ Settled(k) => owed[k] \subseteq entry[k].data

(* An answer that was computed before a write of the user was acknowledged *)
(* never replaces a view that already shows it (cancelRefetch).            *)
NoStepBack ==
    [][\A k \in Keys : k = shown /\ k = shown' /\ owed'[k] = owed[k] /\ entry'[k].has
          => \A w \in owed[k] \cap entry[k].data : w \in entry'[k].data]_cacheVars

(* A write that is owed is on screen in the end, unless the user leaves or *)
(* the fetch fails: no refresh is forgotten.                               *)
OwnWritesArrive ==
    \A k \in Keys, c \in Calls :
        (k = shown /\ c \in owed[k])
            ~> (c \in entry[k].data \/ k # shown \/ entry[k].failed \/ c \notin owed[k])

(* A view that polls shows the writes of others in the end, and so does a  *)
(* loaded list of notifications (refetchInterval of the hooks,             *)
(* refreshCaches of notification-toast-provider.tsx).                      *)
OthersArrive ==
    \A k \in Keys :
        (/\ k = shown
         /\ \/ pair.polls /\ news # "none"
            \/ pair.push = "invalidate" /\ news = "written" /\ entry[k].has)
            ~> (Elsewhere \in entry[k].data \/ k # shown \/ entry[k].failed)
=============================================================================

# A TLA+ verification project for NukeLab

NukeLab runs interactive computing servers (containers) for users who pay with
NUKE credits. The backend (`src/backend/app`) is a FastAPI application and a
set of Celery tasks over one PostgreSQL database and one container runtime.
Requests and tasks run concurrently, in several processes; what they share is
the database rows and the containers. The web client (`src/frontend/src`) is a
React application: pages over a cache of answers (TanStack Query), a session kept
in localStorage and shared by all tabs, a socket, and calls whose answers come in
any order, also after the page or dialog that asked is gone. This directory models
the parts where that concurrency decides whether the system is right: in the
backend who has how many credits, what a server costs, which request gets room and
who runs on which GPU, in the client whether
what a page shows, offers and does is what its user was told.

## Inventory

| Component | State | Operations | Hard parts | What makes it correct |
|---|---|---|---|---|
| Credit ledger (`credit_service.py`) | `users.nuke_balance`, `credit_transactions` | grant, deduct, consume, daily allowance, reconcile on stop, hand-set balance | row lock against stale ORM objects, cap, overlapping daily batches, lock cycles | balance = sum of the ledger; no double spend; one allowance a day; the cap |
| Credit requests (`credit_request_service.py`) | `credit_requests`, user blocks | create (auto-approve), approve, reject, cancel, message, block, bulk review | an approval is two commits; unique index; crash between commits; a bulk review keeps row locks | paid exactly when approved, once; one open request per user; closed stays closed |
| GPU allocator (`gpu_allocator.py`) | `gpu_allocations` | allocate, release, reconcile | snapshot then insert; grace period; reconcile beside spawns | no device for two servers |
| Server lifecycle (`api/servers.py`, `api/admin.py`, `tasks.py`) | `servers`, containers | create, start, stop, restart, delete, update, expiry, bulk actions, status correction | no lock on the server; runtime calls that fail; several commits per handler | a container runs on devices it owns; "stopped" is true |
| Spawner and drivers (`container/`) | containers | spawn, stop, delete, status | "unknown" for both absent and unreachable; failed cleanup | one container per server |
| Pool and queue (`resource_pool_service.py`, `process_server_queue`, `create_server`) | `server_queue`, `servers` | admit, enqueue, start queued, time out | check then act; nothing marks an entry as taken; debit, server and entry in different commits | no over-admission; an entry comes to its end, which is true; no server without a debit |
| Quotas (`quota_service.py`) | usage counters | recalculate, check | check then act | no over-admission |
| Billing (`process_nuke_billing`, `reconcile_server_billing`) | `total_cost`, `started_at`, the balance | tick, settle on stop, stop when depleted | debit and bookkeeping in different commits; sessions with an old `total_cost` | a run costs its time, once; a depleted server stops; the cost shown was paid |
| Schedules, health checks | `server_schedules`, `health_checks` | evaluate, auto-restart | still due after a failure; retry limit | a due schedule runs once; restarts are bounded |
| Maintenance windows | windows, one switch | enable, disable, notify | overlapping windows | maintenance holds while any window is open |
| Authentication, tokens, sidecar | refresh tokens, revocation in Redis | login, rotate, revoke | concurrent rotation | a rotated token is not accepted twice |
| Client session (`lib/api.ts`, `use-websocket.ts`) | tokens in localStorage, a renewal per tab, the socket | request, renew, retry, connect, reconnect, log in and out | several callers and tabs renew at once; a refresh token is good once; lost answers | nobody is signed out without a cause; requests settle; the socket returns |
| Query cache and hooks (`hooks/`), the backend's list of servers (`core/cache.py`) | cached answers, fetches under way, the list in Redis | show, fetch, poll, invalidate, patch | an answer from before a write; pushes out of order | own writes are shown and stay; news arrive |
| Page operations (`routes/`, `components/`) | calls under way, dialogs, marks of rows, selections | submit, confirm, dismiss, answer | double submission; late answers; rows that are gone | done once, failures told, drafts kept, controls released |
| Tables (`use-data-table.ts`, `components/data/`) | search, filters, sort, page | search, filter, sort, turn, set length | state in three places, passed on in part | the rows are what the controls say |
| Server gateway (`user.$username.$serverName.tsx`) | status, redirect mark, calls under way | poll, start, open, redirect | answers after leaving; redirect loops; user unknown at first | one redirect; no dead screen; a reason is given |
| Other caches, rate limit, shutdown, metrics, notifications, volumes, workspaces, charts, scripts | - | - | - | see `components` in `PROJECT.json` |

Interactions: every handler and task that moves credits calls
`CreditService._create_transaction`. Credit requests grant through the ledger,
whose commit is also the commit of the caller's transaction, because both use
the session they were given. Server handlers settle credits on stop and reserve
devices through the allocator; create, change of plan and every quota read call
`recalculate_usage`, which reconciles the reservations of all servers. In the
client, a page reads through query hooks and writes through mutation hooks; what
links them is the key prefixes a mutation invalidates. All calls go through
`apiFetch`, which renews the session when it has to.

`PROJECT.json` lists the hazards found in this survey, each at its line, with
the properties aimed at it.

## Modules

| Module | Models |
|---|---|
| `CreditLedger` | the ledger with database sessions, row locks and loaded objects |
| `AtomicLedger` | what the ledger promises: entries that move a balance at once |
| `CreditRequests` | the life of credit requests under concurrent reviewers |
| `GpuServers` | servers, reservations and containers under concurrent handlers |
| `GpuPool` | what the allocator promises: devices that are free, reserved or in use |
| `ServerBilling` | what a server costs: ticks, settlement on stop, depletion |
| `ServerQueue` | requests that wait for room: pool, queue entries, workers |
| `ClientSession` | tokens, renewals, requests and sockets of several tabs |
| `QueryHooks`, `Pages` | data: every query and mutation hook, and which of them meet on a page |
| `QueryCache` | one query and one mutation of a page over the cache |
| `Operations` | data: every operation a page or dialog offers |
| `PageOperations` | one operation between the click and the answer |
| `Listings` | data: every table, its columns, filters and wiring |
| `TableState` | one table in use |
| `ServerGateway` | the gateway page of a server, over several visits of a tab |
| `MC...` | the constants and symmetries of the TLC instances |
| `...Proofs` | theorems and TLAPS proofs |

`CreditLedger` implements `AtomicLedger` (`Atomic`, a refinement by the identity),
and `GpuServers`, when calm, `GpuPool` (`Pool`: the devices used by a server are those of
its container while that runs).
`QueryCache` extends `Pages`, which extends `QueryHooks`; `PageOperations` extends
`Operations`, which extends `Pages`; `TableState` extends `Listings`.

### CreditLedger

A *session* is one request or task. `balance`, `ledger`, `dailyRows` are what is
committed; `lock` is the row lock; `cached` is the balance of a `User` object
the session has loaded and `seen` the balance it computes with. The path of a
session is `Begin`, (`Quote`,) `LockRow`, `Compute`, `Commit` or `Refuse`: the
statements of `_create_transaction` separated where other sessions can act.

The important detail is `LoadedBalance`. SQLAlchemy does not refresh an object
already in the identity map when it is selected again, not even `FOR UPDATE`,
unless asked to with `populate_existing()`, and `expire_on_commit=False` keeps
objects over commits. The callers in `Preloading` come with a loaded user; for
the others the locked read is the committed row.

The daily batch visits its users one after the other in one session. A refused
grant is caught without a rollback, so the row lock stays with the batch until
its next commit: two batches that skip some users can lock rows in opposite
orders. The way out is `command_timeout` (`LockTimeout`).

The user form (`BeginSet`, `WriteSet`) writes a balance outside the ledger;
`adjusted` accounts for the difference so that the remaining property is about
the ledger alone. Balances typed in are assumed not to be negative.
Reactivating a user is left out (it only makes more users eligible).

### CreditRequests

`LockOpen` is `_get_open_for_update`. `Decide` is reject, cancel and
`add_message`: one transaction. Approving is `Grant` and then `Mark`: the commit
inside `grant_credits` (or `update_user`) releases the request row, and `Mark`
stamps the object the session still holds over whatever the row says by then.
Auto-approval goes the same way without ever locking. `Crash` between the two
leaves the credits granted and the request open. `grants` counts the payouts of
a request (the ledger rows with its id in their metadata).

A bulk review is one session that decides a list: `rest` is what it has still to
decide, `Proceed` takes the next (in any order, each once), `Done` ends a decision.
`bulk_review` catches the refusal of a row that is closed and goes on without a
rollback, so the row stays locked until the next commit of the session
(`AlreadyClosed`). Sessions that wait for each other's rows are then possible, and
`Deadlock` is the database that aborts one of them: the error is none that
`bulk_review` catches, so the rest of its list is not decided.

### GpuServers

`status`, `cid`, `gpu` are columns of the server row, `rows` the reservations,
`box`, `up`, `baked` the runtime's truth. A session has loaded `myCid` and
`mySt` from the row and works with those to the end, as the handlers do; a flush
writes only attributes that differ from what was loaded (`WriteDown`). The
labels of `pc` are the points between two commits or runtime calls. `FirstStep`,
`AfterProbe` and `AfterRemove` are the branches of the handlers: "remove" is a
delete that must succeed, "clear" one whose failure is logged and passed over.

`Faults` says which runtime calls may fail: status lookups, deletes, spawns and
the cleanup after a failed spawn. `Serial` restricts an instance to one
operation per server at a time (the code has no such lock: the restriction is
there to tell races from plain mistakes). `Age` is the passing of
`_RECONCILE_GRACE`; a handler and a reconcile end before rows they work with
reach that age.

Left out: the allocator switched off; the stop-and-start restart of CPU-only
servers; renaming; paused containers; volumes. A bulk action is its servers one
at a time. `"starting"` is a status no handler of these writes.

### ServerBilling

One server and the balance of its owner. Time is kept as ages (`age` of the run,
`myAge` in a session), so that it may pass for ever; `mode.quarter` is the number
of units in the 15 minutes of the beat, `due` the ticks that wait for a worker. A
session loads the server object once (`Load`) and works with that `total_cost` and
that `started_at` to its end. `Remove` is the deletion of the container and the
commit that comes with the release of the devices; `Quote`, `Debit` and `Record` are
the unlocked read of the balance, the debit (one step: its lock is the subject of
`CreditLedger`) and the commit that writes `total_cost`. `Settling` are the stops
that bill: the stop request, idle shutdown, volume quota, schedule, logout, and the
task itself when the balance is gone. `"expire"` stands for the runtime limit and the
bulk stop, which do not. `usage` sums the debits of the server, `paid` those since
its last start. A restart settles nothing and starts `started_at` anew. The plan costs
something, credits are on and `server_auto_stop_on_depletion` is set, as by default.
Left out: a page view that corrects `started_at`, the bulk start, the owner's stale
object (`CreditLedger_stale`), the deletion of the server.

### ServerQueue

The requests of one user. `st`, `wants`, `old` are the queue entries, `server` the rows
of servers, `failing` the entries a task has set to failed and not yet committed: they
are locked for others (`Unlocked`), and the next commit of the session writes them.
`Create`, `Admit`, `CreateServer` are the steps of `create_server` between which others
can act, `ProcessQueue`, `Pick`, `Check`, `Charge`, `StartServer`, `Mark` those of the
task. Plans, users, quota, credits and devices may refuse at any time (`Check`). The
pool has one number instead of three, and a plan takes its `size`. `made` and `charged`
count the servers and the debits of an entry. Notifications in the application are on,
as by default: then `NotificationService.create` commits the status with it. The
timeouts of one task are one step. Requests that do not wait are not charged by
`create_server`; what they cost is in `ServerBilling`.

### ClientSession

A pair of tokens is its serial number; `stored` is what localStorage holds,
`live` and `valid` what the backend accepts. A tab has a set of calls of
`/auth/refresh` under way (`calls`; `isRefreshing` keeps it to one), one request
that is followed and a socket. `RefreshGranted`, `RefreshFailed` are the backend's
answers and `RefreshArrives`, `RefreshFailureArrives` what the tab does with them,
all its waiting callers at once. The backend is external to this module: a refresh
token is traded once, unless two calls overlap. `user` remembers which tab alone
has presented a token, for the property. `Connect`, `Closed`, `Reconnecting`,
`Recover` are the functions of `useWebSocket`. Left out: the store's permission
checks, the cookie, subscriptions of the socket.

### QueryHooks, Pages, QueryCache

The hooks are data: `Q` (key prefix, what the answer is computed from, polling,
staleTime) and `M` (what the endpoint writes, which prefixes `onSuccess`
invalidates or patches, whether it raises a toast). A page is the queries it shows
and the mutations it offers. `QueryCache` takes each query and mutation that meet
on a page, where the one reads what the other writes, by their `Traits`, and runs
them over the library: fetches that are asked, read by the backend and arrive
separately, invalidation that replaces a fetch under way (`cancelRefetch`),
garbage collection, failures, polls, patches and notifications. Data is the set
of writes an answer was computed from. What `reads` and `writes` say of the
backend is read off the endpoints, with all that a call does: creating a request for
credits may approve it and pay at once, and then writes the balance and its history
too. `KnownGaps` are the pairs that meet and for which the hooks refresh nothing:
they are left out of the properties and listed under Findings (18, 20 and 21). They are
23 of 161 pairs: the credit summary and history beside a request that is approved at
once, the list of volumes beside what uses or shares a volume, and what runs in a server
(logs, tasks) beside operations on it. That every other write is told to the cache is
`HooksAssumption`, which TLC evaluates.

The list of servers is answered from Redis (`kept`, `KeptByBackend`): `list` is the
list kept and the one being made. `MakeList` and `StoreList` are the two ends of
`cache_get_or_set` in the request that has got the lock; `DropList` is the handler's
`_invalidate_server_list_cache`, before it answers; `LapseList` the TTL. A list that
was read before a write is stored after the handler has dropped it when the two overlap
(`late`): it stands until it lapses, and meanwhile the page is owed nothing
(finding 19). The calls are those of the owner of the list, and Redis answers.

Not observed: `me` and `health`, which the frame around every page shows and which
therefore meet every mutation. `me` is read anew at each visit.

### Operations, PageOperations

An operation is how it starts (a row, the ticked rows, the selection map, the
page), what it asks first, one call or one for each row, what closes its form,
how it tells of a failure and what holds its control meanwhile. `PageOperations`
takes each by its `Traits` through a small table, a dialog and calls that are
answered in any order: `Send`, `Succeed`, `Fail` are the hooks' and pages'
callbacks (of `mutate`, which only run for the latest call of a mounted observer;
of the hook, which always run; after an await). `Marked`, `Unmarked`,
`MarkExpires` are the marks of rows. Of forms only the number of the opening is
kept: what is filled in is left out.

### Listings, TableState

A listing is the columns with an accessor, the filters of the toolbar, who
searches, sorts and cuts (backend, page, nobody), what of the state reaches the
rows, and how the page wires the header. `TableState` takes each table with each
of its filters and columns. `wish` is what the user has clicked, `table` what the
page keeps, `answer` what `DataTable` is given. The tables, filters and columns
in `SearchGaps`, `PageGaps`, `TurnGaps`, `FilterGaps`, `SortGaps` and `HideGaps` do not
do what they offer; they take part, and the properties ask of them only the rest
(`ListingsAssumption`, which TLC evaluates, says what the others have in common). No two
rows are equal in a column, and `Sorted` places a row by how many are ahead of it: the
order of equal rows is left out.

What the backend answers may depend on the reader. The pages of plans and of
environments are open to whoever may manage them, so each is a listing twice: for an
administrator, and (`ModeratedPlanListing`, `ModeratedEnvironmentListing`) for a role
such as moderator, which has those permissions and not ADMIN_ACCESS. The latter gets only active environments
whatever the filter says. Of plans `PlanService.list_plans` counts all that match
(`Total`), cuts the page (`Given`) and only then drops the rows this reader may not see
(`Shown`; `Visible` is the set of rows he may see): a page may be short or empty though
visible plans stand on another. `HideGaps` names that table; `ShownAsOffered` and
`NotStranded` say nothing of it, since TLC has a counterexample of two states for each
(finding 10).

### ServerGateway

`view` is the query by path with its fetch, `ui` the component's state, `auto`
and `manual` the two ways to the environment at their await points, `adrift` and
the calls in `start` marked "gone" what earlier visits have left running.
`Redirect` is the effect on the status. `user` is the auth store: it may be empty
or hold the user of an earlier session until `/users/me/profile` has answered.
`Navigate` ends all scripts of the tab, whoever asked for it. The clock, progress
steps and the activity heartbeat are left out.

## Runs

| Run | Shows | Bounds |
|---|---|---|
| `CreditLedger_fresh` | no lost update, one allowance a day, cap, every session ends, refinement of `AtomicLedger`; callers without a loaded user | 2 users, 2 sessions, 2 units of work, 2 caps, 2 days |
| `CreditLedger_stale` | **violation** of `BalanceIsLedger` by a preloaded user | 1 user, 2 sessions, 2 units of work |
| `CreditRequests_reviews` | one open request, approved means paid, closed stays closed, reviews end; when calm, paid once, and nothing paid for a rejection | 3 requests of 2 users; `Concurrent`: 2 sessions, crashes, 4 calls; `Bulk`: 2 sessions, lists of 2 requests, 5 calls; `Sequential`: lists of 2 requests, 6 calls one after the other |
| `GpuServers_fixed` | devices exclusive, refinement of `GpuPool`; "stopped" is true | 2 servers, 2 devices, plans of 0 to 2, 5 operations, failing lookups and deletes |
| `GpuServers_chaos` | one reservation per device | all operations, 3 of them, all faults, crashes, no serialisation |
| `ServerBilling_modes` | one operation at a time a run costs its time or its ticks, rounding and waiting ticks apart; the cost shown was paid; a depleted server stops | `Exact`: 2 credits a quarter of 2 units, 8 credits, 2 runs of up to 3 quarters, 1 waiting tick, 1 fault; `Poor`: the same with 2 credits and a grant; `Cheap`: 1 credit an hour, billed 1 a quarter, 5 credits; `Overlapping`: 2 sessions, 1 credit a quarter |
| `ServerQueue_modes` | when calm, entries say what has happened; no server without a debit; entries come to an end | `Competing`: 2 plans, pool of 2, 2 entries, one operation at a time; `Overlapping`: 2 workers, 1 request, 1 entry, 1 crash; `Restarting`: 1 worker and restarts; 3 servers |
| `QueryCache_pages` | own writes are shown, stay and arrive; those of others arrive | every query and mutation that meet on a page, but `KnownGaps`; 1 cache entry, 2 calls, 1 write of others |
| `PageOperations_all` | submitted once, failures told, drafts kept, controls released, bulk actions on visible rows | every operation; 2 rows on 2 pages, 2 calls, 2 openings of the dialog |
| `ClientSession_tabs` | signed out for a cause only, requests settle, the socket returns | 2 tabs, 2 pairs of tokens, 1 broken connection, 1 timer |
| `TableState_all` | rows are what the controls say, nobody stranded, the page asked for stays | every table, filter and column; 4 rows, 2 of them visible to all, pages of 1 and 2 |
| `ServerGateway_tab` | one redirect, no dead redirect screen, a reason is given, pending is followed | 3 visits, 3 changes of status |

`CreditRequests`, `ServerBilling` and `ServerQueue` have a variable `mode` that `Init`
chooses from the constant `Modes` and nothing changes: the settings of one run, such as
prices, bounds, and whether operations overlap. One run so checks several instances
side by side, and a property that needs a condition names it (`mode.serial`, `Calm`).

Why the bounds are enough to be interesting: every hazard listed involves two
sessions and one contended row or device; two users are needed for a lock
cycle, two servers for a shared device. A pool of two with plans of up to two
devices makes a plan fit exactly, partly and not at all. A quarter of two units lets
a stop fall between two ticks, a price of two credits a quarter lets rounding show; a
second entry with another priority is needed for an entry that waits behind another,
a third server for one that is made twice. In the client two calls
are needed for answers out of order, two rows on two pages for a row off screen,
two tabs and two pairs for a token presented twice, four rows so that search,
filter and order each select differently and a page can become empty, three
visits for a redirect, a return and a second return. `MaxOps`, `MaxDay`,
`MaxEntries`, `MaxServers`, `MaxCalls`, `MaxOpens`, `MaxPairs`, `MaxChanges`,
`MaxVisits` and the bounds in a `mode` end a behaviour, which is why deadlock is not
checked in those runs: a system with nothing left to do is idle. Sessions (and servers) are interchangeable, hence the
symmetry; runs with a liveness property use none.

Every property of a passing run has a mutant: a named variant of one definition
(`... == ` with a comment "Mutant of") that a plausible slip in the code would
amount to, under which TLC reports the property violated.

### Fairness

`CreditLedger`: weak fairness of each session's `Step`. The event loop keeps
running an open request, PostgreSQL answers, and a statement that waits for a
lock ends by `command_timeout` if nothing else. No fairness for crashes, new
work, settings or midnight.

`CreditRequests`: the same, and strong fairness for the three steps that wait for
a row lock: PostgreSQL queues lock waiters, so a waiter is not overtaken for
ever. Of bulk reviews that wait for each other PostgreSQL aborts one (`Deadlock`, a
step like the others); without that action TLC shows `ReviewsEnd` violated by two
lists that name the same closed rows.

`ServerBilling`: time passes, a step of a session ends, and a worker takes the task the
beat has sent (`Bill`). None for stops, starts, grants or faults, of which there are
`mode.faults`.

`ServerQueue`: the beat sends the task for ever and a worker that is free takes it
(`ProcessQueue`), its steps and those of a request end, and entries grow old (`Age`).
None for room becoming free, and none for requests.

`QueryCache`, `PageOperations`, `ClientSession`: a call is answered or fails
(`fetch` ends, if only by a network error), timers fire, a notification is
delivered (the poll of the toasts backs the socket up). For `SocketReturns` also
`Recover`: the user comes back to the tab, or the network returns, as long as the
socket needs it; without it a socket whose attempts are used up stays down, by
design. No fairness for what the user does.

`ServerGateway`: the poll fires, and reading and arriving are strongly fair: each
poll replaces the fetch under way, so an answer must again and again be faster
than the two seconds between polls. Where answers always take longer the page
never learns anything; that is a property of the code, not of the model.

## Findings

1. **Stale balance under the lock** (`credit_service.py:126`). A self-approving
   request, the queue task and an owner's stop hold the `User` before the ledger
   locks the row; a balance committed in between is overwritten.
2. **Double payment of a request** (`credit_request_service.py:438`). The commit
   of the grant drops the lock on the request while it still reads pending. The
   same window lets a rejection or cancellation be paid, and a crash in it
   leaves a paid request open. Alone and without crashes requests are right (`Calm`);
   TLC gives the double payment when `PaidOnce` is stated without it.
3. **Stop against start** (`servers.py:1358`). The release by server id hits the
   devices of the container a concurrent start has created.
4. **Change of plan** (`servers.py:1844`). Devices go back to the pool while the
   old container runs on them.
5. **Reaping of reused rows** (`gpu_allocator.py:133`). A start takes over old
   reservations, which the grace period does not protect.

Findings 3 to 5 are counterexamples TLC gives to `Exclusive` and
`ImplementsPool` when an instance of `GpuServers` leaves out one condition of
`Calm` (see Proofs): `Serial = FALSE` with operations create, start and stop;
plan changes among the operations; page views and quota reads among them.

6. **A button that does not hold** (`ui/button.tsx:20`). `disabled={props.disabled
   || loading}` is followed by `{...props}`, so a `disabled` that is passed replaces
   it. The forms that pass both can be submitted again while the first call runs:
   credit adjustment, bulk credits, allowance override, daily allowance, deploy and
   edit server, thread message, workspace transfer, invite and add volume. The form
   that creates a token watches the observer of another component. `SubmittedOnce`
   is about the controls that do hold.
7. **Renewal failures sign everybody out** (`lib/api.ts:80`). Any failed renewal
   clears the tokens, also those another tab has stored in the meantime: of two tabs
   that renew with the same token the loser removes the winner's pair. A reload while
   a renewal is under way loses the new pair. `SignedOutForCause` excepts both.
8. **Notifications** (`notification-toast-provider.tsx`). A poll answers newest
   first, and the watermark of `refreshCaches` then passes over an older credit
   notification of the same answer (`PushOvertaken`); the cutoff of the toasts is 5 s
   before the last one, so an unread notification is toasted at every poll.
9. **Gateway** (`user.$username.$serverName.tsx:818`). "Starting server..." is
   shown, and nothing polls, for a server in error and after a start whose reason
   prompt was put away. Leaving the page does not cancel a redirect under way: the tab
   is pulled to the environment later. The token is asked for by a plain `fetch`,
   which does not renew an expired session.
10. **Tables that do not do what they offer** (`Listings`, the `...Gaps`). No
   column for the filter: status in users and workspaces, owner in servers, category
   in plans. A reader without ADMIN_ACCESS gets only active environments, whatever
   the filter for is_active says (`api/environments.py:44`). His page of plans is cut
   before the plans he may not see are dropped and counted with them
   (`plan_service.py:66`, `:72`): the first page can be "No results found" without page
   numbers though he may see plans of the second. TLC has both as counterexamples
   of `ShownAsOffered` and `NotStranded` without `HideGaps`. Search is ignored
   in activity, audit logs, workspace activity, IP restrictions and maintenance
   windows, plans' search is not forwarded; pages are ignored in the last two; sorting
   in activity, audit logs, quotas, environments, plans and workspace activity. Some
   columns of volumes and workspaces fall back to the default order, where a third
   click on a header also keeps the old sort. With a role filter the members table of
   a workspace cannot leave page 1 (`workspaces.$workspaceId.tsx:165`). When the rows
   of the last page go, the table is empty and shows no page numbers
   (`data-table.tsx:174`).
11. **Overlapping stops bill twice** (`credit_service.py:307`). Each stop has loaded
   `total_cost` before the other wrote it.
12. **A second run is not billed** (`credit_service.py:307`). `total_cost` counts all
   runs, the exact cost only the last.
13. **Names** (`tasks.py:814`). The queue makes a server whose name was free when it
   was asked for.
14. **Starts do not ask the pool** (`servers.py:1067`). Two requests that overlap can
   also both find the same room.
15. **Started, then cancelled** (`tasks.py:815`). The entry is committed after its
   server. In the same window, or with two workers that pick the same entry, it is
   started and charged twice.
16. **Queue position** (`resource_pool_service.py:126`). It is always 0: the list that
   is searched leaves the entry itself out. Seen in the code, not modelled.
17. **Cheap plans cost 4 an hour** (`tasks.py:481`). A quarter is billed at least 1
   credit, so a plan below 4 NUKE an hour, as two of the seeded ones are, takes more
   than the price that is shown, and the settlement gives nothing back. Met when the
   bound of `FairPrice` resisted its proof: it now names the price of the ticks beside
   that of the time, and `RunCostsItsTime` is about the plans where they agree.

18. **Credits that are approved at once do not show** (`use-credit-requests.ts:232`).
   A request at or below the limit pays in the same call
   (`credit_request_service.py:182`); the hook invalidates only the requests, so the
   balance and the history beside them stay as they were until they grow stale, and the
   toast says that the request is pending.
19. **The list of servers in Redis** (`api/servers.py:41`). A list read before a
   change may be stored after the handler has dropped it (`core/cache.py:311`) and
   then stands for 30 s, not the 10 s its docstring names (`servers.py:826`). A drop that fails is
   logged and passed over (`core/cache.py:205`). A handler drops only the list of the
   server's owner (`servers.py:54`): an administrator who acts on the server of another
   finds his own list as it was.
20. **The list of volumes** (`use-servers.ts`, `use-workspaces.ts`). Mounting a volume
   when a server is deployed or edited, attaching it to a workspace and changes of
   members refresh no list of volumes.
21. **Logs and tasks** (`use-servers.ts:376`). After an operation on a server they wait
   for their next poll.
22. **Bulk reviews can wait for each other** (`credit_request_service.py:858`). Two lists
   that name the same closed requests in another order lock them both ways round; one is
   aborted with an error, and the rest of its list is not decided.

Findings 11 and 15 are counterexamples to `FairPrice` and `FateIsTrue` without the
condition on `mode` and faults they begin with; 12, 13 and 14 are counterexamples to
`RunIsBilled`, `NamesUnique` and `WithinPool`, which the modules define for that and
no run lists.

Seen while reading the client, and left out of the properties: operations that tell
nobody of a failure (environments, volumes, schedules, deleting an IP rule,
notifications, pins, the system configuration); forms of plans, environments and
schedules that close as they are submitted; a late answer of a dismissed dialog that
closes the draft opened after it; the row marks of the volume pages and `isStarting`,
which some answers leave set; the results of a bulk grant, which close with their
dialog.

Seen while reading the backend, and not the subject of a run: the user form writes the
balance that was typed in over whatever the ledger committed since the user was loaded
(`user_service.py:232`; `BalanceIsLedger` counts the difference as adjusted by hand and
does not see it); a page view that corrects a status from an old probe (`servers.py:857`;
`StopIsReal` and `ImplementsPool` are checked without views); a stop whose debit is
refused answers with an error although the server is stopped; deleting a server deletes
its ledger rows (`servers.py:1601`); a server
whose owner has credits left, but fewer than one tick costs, is neither billed nor
stopped (`tasks.py:490`); a restart, the runtime limit and a bulk stop settle nothing;
an entry of the queue that is charged and whose spawn fails is not given the credits
back (`tasks.py:836`), and what it was charged is not in `total_cost`; when an
exception follows the insert, its devices are released while its container runs.

## Proofs

All theorems hold for every value of the constants that satisfies the ASSUME of
the module; TLC evaluates these assumptions in every run of it.

`CreditLedgerProofs`. `TypeCorrect` needs, besides types, `LockInv`: a session
past the lock holds it, and one about to commit has `seen + eff >= 0`.
`DailyAllowanceOnce` rests on `DailyInv`: no day after today has a row, and a
session ready to pay has an active user with no row for today; the lock keeps
both true until it commits, also if midnight passes. `InactiveGetsNothing` uses
the same invariant against `Deactivate`. `BalanceUnderCap` needs that what a
session has cached, has seen or is about to write is under the ceiling, also if
it is stale: it was once a balance. The theorems that need callers without a
loaded user say so (`NoPreload`, that is `Callers \cap Preloading = {}`). Their
invariant `FreshInv` adds that nothing is cached and that `AuthoritativeRead`
holds; it gives `NoLostUpdate`, `CreditsSpentOnce` and, step by step,
`ImplementsAtomic`: `Commit` is `Post` (or a stutter for an amount of zero),
`WriteSet` is `Adjust`, all else stutters. The condition is necessary: that is
`CreditLedger_stale`.

`CreditRequestsProofs`. `AtMostOneOpen` and `ClosedStaysClosed` need that a
session that is deciding holds the lock of an open row; approvals do not keep
that, but all they write is "approved". `ApprovedMeansPaid` needs that a session
about to mark has granted. `CalmPaysOnce` and `CalmRejectionIsFree` hold for requests
that neither overlap nor crash (`Calm`): then one session is at work (`OneAtWork`), the
row it grants or marks is open (`StillOpen`), and what was paid is approved or about to
be marked so (`PaidIsApproved`). A session ends, or leaves a request for the next of its
list, by several paths (`Leaves`); the invariants ask next to nothing of one that is about
to lock, so that leaving keeps them (`LeaveKeeps`, `CalmLeave`).

`GpuServersProofs`. `GpuTypeCorrect` carries which operation may stand at which
label (`OpsAt`). `DeviceReservedOnce` follows from it alone. The theorems
about containers assume `Calm`: operations on one server do not overlap, plans
are fixed, no status correction by a page view, no failing spawns, no crashes.
Each condition is needed: findings 3, 4 and 5 are the counterexamples for the
first three, and a spawn that fails, or a crash after one, leaves a container or
rows the server row does not tell of. Under `Calm` the inductive invariant `CalmInv`
says: what a handler loaded is still what the row says (`Loaded`, `WantIsPlan`); rows
it inserted are fresh
(`MineFresh`); a handler about to spawn holds its devices (`Equipped`), one about
to write a stop has taken the container down (`Down`); a running container is the
one the row names or the one being recorded (`KnownBox`); a row belongs to a
server that reads running, or to a handler that is releasing it or has just
inserted it (`Guarded`), so that what a reconcile has found stale is being
released anyway (`Doomed`). `StoppedMeansDown` is the action property `StopIsReal`
from the same invariant: a step that writes "stopped" stands at a label where `Down`
says that the container is gone. `DevicesComeFromThePool` is the refinement of `GpuPool`,
step by step (`PoolStep`): `Reserve` is `Grant`, `Spawn` is `Attach` by `Equipped`, what
takes a container down is `Attach` with no devices, and what deletes rows is `Return`,
since rows that go belong to a server that is down (`OnlyIdleRowsGo`, by `Down` and
`Doomed`); all else stutters.

`ClientViewsProofs` is about three separate systems, `TableState`, `QueryCache` and
`ServerGateway`: each theorem is about the specification of one and leaves the variables
of the others free. That is why these modules say `TableSpec`, `CacheSpec` and
`GatewaySpec` where the others say `Spec`.

Tables, for any rows, page lengths and order of the column: `TablesShownAsOffered`,
`TablesNotStranded` and `TablesTurnStays` rest on `TableInv`. The filter the page uses is
the one the toolbar marks (`ToolbarKept`), the arrow of the header is the sort where the
page keeps both (`HeaderKept`), an answer on screen was given for the state of the page
(`AnswerKept`), and unless rows have gone the page begins before the last row that
matches (`PageKept`). `Sorted` takes for each place the row with that many rows ahead of
it; that there is one, and one only, is `PlacesTaken`: counting the rows ahead maps a
finite set one to one into as many places, so that none is left over. `KeyDecides` says
that what a page asks for decides what it is given, and `OfferedBegins` is the arithmetic of
the page numbers offered. The first two are about the tables outside `HideGaps`, where a
page is the cut itself (`Shown` drops nothing).

The query cache, for any number of entries and calls: `OwnWritesAreShown` and the action
property `CacheNeverStepsBack` rest on `CacheInv`. What an entry owes is committed
(`OwedIsDone`), an answer read and under way contains what is owed (`AnswersInTime`), and
so does an entry that has data and is fresh (`FreshShows`), as does the list the backend
keeps or makes, unless it is late (`ListInTime`). `AnswersInTime` and `FreshShows` are about
one entry (`EntryKept`), and the actions are taken by what they do to one
(`OneEntryNext`), also those that touch all (`OnSuccessEntries`, `PushEntries`).

The gateway page, for any number of visits and changes of status. `GatewayTypeCorrect`
goes action by action; the lemmas `RedirectTypes`, `RedirectActs` and `InvalidatedStatus`
say once what the effect and an invalidation leave behind. `RedirectsOnce` needs that a
page that has gone on has left its mark (`MarkKept`): the mark is set before the token is
asked for and never removed. `RedirectingIsReal` strengthens the property to pages that
also report a failed fetch (`RedirectUnderWay`), as the next fetch takes the error away.
`ReasonIsGiven` is inductive given the types.

`ClientSessionProofs`. `SignedOutOnlyForCause` needs `TokenInv`: a tab has one
renewal under way at most (`OneRenewal`, a theorem of its own); the pair in
localStorage is accepted unless it was presented (`StoredIsGood`); a token only one
page has presented is accepted until the renewal is answered, and not refused
(`LoneIsGood`); and the new pair of a renewal is unknown to all pages until it
arrives (`NewIsUnused`, with `UpToIssued` for the order of pairs). The lemmas take
the actions by what they do to the tokens, `OnlyTwoClear` says which two clear them.

`ServerBillingProofs`. `CostIsPaid` for any number of sessions: what a session has
loaded was paid then, as debits are only added, and what it has taken since comes on
top of that whoever overwrites `total_cost` in between (`KnownIsPaid`); a session that
asks for the balance has something to settle, so that amounts are not negative
(`Owes`). `RunIsFair` is about one operation at a time (`mode.serial`, which the
property begins with). Its invariant `FairInv`: the session at work is the only one and
holds what the row says (`Solo`, `Current`); what a running server has paid is a number
of ticks that, with those waiting and the one at work, is no more than the beats of its
age and those that had waited before (`Ticks`, `Ticking`); what was paid is recorded in
`total_cost` but for faults and the debit about to be recorded (`Recorded`), so that a
settlement tops up to the exact cost (`Settled`). The rest
is arithmetic with `\div` (`TicksInTime`, `TicksAreFair`, `ExactIsFair`).
`RunCostsItsTime` follows for prices from 4 on, where the price of a quarter is not
raised to the minimum.

`ServerQueueProofs`. `QueuedIsCharged` counts for each entry the workers that have
charged and not yet spawned (`Paying`): together with the servers made they are no more
than the debits (`ChargedAhead`). The lemmas follow that set through the steps; a
worker that fails or dies only leaves it. `FatesAreTrue` is about one request or task
at a time without faults, the condition of `FateIsTrue`: finding 15 needs a second or a crash. `FateInv`
says that whoever rests holds nothing (`Rested`, `Solo`), what the task holds is as the
row says (`Held`), an entry whose timeout is not committed yet has no server
(`Dropped`), and the one that has its server is about to be marked (`Marking`).

`PageOperationsProofs`, for any table and any number of calls and openings.
`FailuresReachTheUser` is inductive as it stands: a report that fails to appear is one
whose observer or form has gone (`FailureIsTold`). `DraftsSurvive` needs `DialogBody`: a
call bears the number of a dialog already opened, and a dialog closed by an answer was
closed by a success. `WorkIsSubmittedOnce` has two arguments. Where a control waits for
`isPending`, only the latest call is awaited (`OneAwaited`), so its success is one that
closes the form, and a form that is open has no success behind it (`FormSpent`); a
confirmation is modal and opens with nothing awaited. Where rows are marked, the rows of
awaited calls are marked and disjoint, and those of an open confirmation are none of
them (`RowsApart`); `isStarting` is one flag for the page (`FlagForPage`).
`BulkIsOnScreen` needs that the rows of a bulk operation can be taken one by one
(`InOrder`, from the least element of a set of numbers, so that the `CHOOSE` of `Sent`
finds its row). What these proofs need of the operations is `OperationsAssumption`, a
formula without constants about the data of `Operations`, which TLC decides.

What the tables and the cache need of the listings, hooks and pages there are is likewise
a formula about data that TLC decides: `ListingsAssumption` and `HooksAssumption`.

Only model-checked: liveness (`SessionsEnd`, `ReviewsEnd`, `DepletedStops`,
`EntriesSettle`, `OwnWritesArrive`, `OthersArrive`, `ControlsReleased`,
`RequestsSettle`, `SocketReturns`, `PendingIsFollowed`), which needs fairness and is
out of the prover's reach. Every invariant and every action property of the passing runs
is stated by a theorem. Theorems and in no run: `RunCostsItsTime`,
the types of the pages' operations, of the backend
modules and of the gateway, no allowance for a deactivated user
(`InactiveGetsNothing`), `AuthoritativeRead` and `NoDoubleSpend` of the ledger,
`RunsOnOwnDevices` and `NotReapedWhileUp` of the devices.

## Not modelled

In the backend: quota counters, schedules, health checks,
maintenance windows, authentication tables, the sidecar, rate limits, the cache but for
the list of servers,
volumes and workspaces, metrics and notifications, as `components` says of each. In
the client: charts, metrics streams, logs, search, theme, layout, animations, the
content and validation of forms, the permission checks that hide controls, and the
deduplication of toasts. TanStack Query, React and the browser are external: they are
modelled by what the code relies on, and their definitions are marked so in the map.

## Plan

1. Schedules and the health check's restarts as further actors beside `ServerQueue` and
   `ServerBilling`. Properties: a due schedule runs once, restarts are bounded.
2. Quota counters; refresh-token rotation in the backend, composed with
   `ClientSession`; maintenance windows, in this order.

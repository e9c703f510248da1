--------------------------- MODULE ServerGateway ---------------------------
(***************************************************************************)
(* The gateway page of a server (routes/user.$username.$serverName.tsx): it *)
(* shows the status of the server, starts it, polls while it is starting    *)
(* and, when it runs, asks for an access token and goes to the environment, *)
(* by itself once per tab and after that when the user clicks. The answers  *)
(* of its calls come at any time, also after the user has left the page.    *)
(***************************************************************************)
EXTENDS Integers

CONSTANTS
    MaxChanges,    \* changes of the server's status
    MaxVisits      \* times the page is opened

ASSUME GatewayAssumption == MaxChanges \in Nat /\ MaxVisits \in Nat \ {0}

VARIABLES
    status,        \* of the server, in the backend
    changes,
    own,           \* the server belongs to whoever is signed in
    user,          \* the auth store: nobody, the viewer, or who was signed in before
    at,            \* where the tab is
    visits,
    redirected,    \* server-redirect-<id> in sessionStorage
    view,          \* the query by path: its data, and the fetch under way
    ui,            \* the state of the component
    prompt,        \* what the reason dialog asks for
    start,         \* calls of /start under way: of this visit, of one before
    auto,          \* getAccessTokenAndRedirect under way: at its token, at its worker
    manual,        \* handleManualOpen likewise
    adrift,        \* where those of earlier visits are that are still under way
    autos,         \* times the page has gone on by itself
    unasked        \* a token for another's server was asked for without a reason

gatewayVars ==
    <<status, changes, own, user, at, visits, redirected, view, ui, prompt,
      start, auto, manual, adrift, autos, unasked>>

Statuses == {"stopped", "pending", "running", "error"}
Users    == {"nobody", "viewer", "previous"}
Steps    == {"none", "token", "worker"}

View == [has : BOOLEAN, status : Statuses, failed : BOOLEAN,
         fetch : {"idle", "asked", "read"}, got : Statuses]

NotLoaded == [has |-> FALSE, status |-> "stopped", failed |-> FALSE,
              fetch |-> "asked", got |-> "stopped"]

\* isStarting, manualOpenReady, isOpening
Ui == [starting : BOOLEAN, ready : BOOLEAN, opening : BOOLEAN]

Fresh == [starting |-> FALSE, ready |-> FALSE, opening |-> FALSE]

\* Whether the call is this visit's or left over from one before.
Starts == {"here", "gone"}

-----------------------------------------------------------------------------
(* Mutant of IsOwnServer: as long as the user is not known the server is   *)
(* taken for one's own.                                                    *)
IsOwnServerUnknown(u) == u = "nobody" \/ (IF u = "viewer" THEN own ELSE ~own)

\* Who was signed in before may be the owner of a server that is not the viewer's.
IsOwnServer(u) == IF u = "nobody" THEN FALSE ELSE IF u = "viewer" THEN own ELSE ~own

\* Which screen the page is.
Screen ==
    IF view.failed THEN "failed"
    ELSE IF ~view.has THEN "loading"
    ELSE IF view.status = "running" THEN IF ui.ready THEN "open" ELSE "redirecting"
    ELSE IF view.status \in {"pending", "error"} \/ ui.starting THEN "starting"
    ELSE "stopped"

Asks == unasked' = (unasked \/ (~own /\ user # "previous"))

(* Mutant of Redirect: that the page has gone on is kept by the component. *)
RedirectAnew(v, u) ==
    IF ~v.has \/ v.status # "running" THEN UNCHANGED <<ui, redirected, auto, autos, unasked>>
    ELSE IF (redirected /\ at = "page") \/ ~IsOwnServer(u)
         THEN ui' = [ui EXCEPT !.ready = TRUE] /\ UNCHANGED <<redirected, auto, autos, unasked>>
         ELSE /\ redirected' = TRUE /\ auto' = "token" /\ autos' = autos + 1 /\ Asks
              /\ UNCHANGED ui

\* The effect on the status: go on by itself, or offer the button.
Redirect(v, u) ==
    IF ~v.has \/ v.status # "running" THEN UNCHANGED <<ui, redirected, auto, autos, unasked>>
    ELSE IF redirected \/ ~IsOwnServer(u)
         THEN ui' = [ui EXCEPT !.ready = TRUE] /\ UNCHANGED <<redirected, auto, autos, unasked>>
         ELSE /\ redirected' = TRUE /\ auto' = "token" /\ autos' = autos + 1 /\ Asks
              /\ UNCHANGED ui

\* invalidateQueries: a fetch under way is given up for another. An error is
\* taken back when there is nothing else to show.
StatusInvalidated(v) ==
    [v EXCEPT !.fetch = "asked", !.got = "stopped", !.failed = @ /\ v.has]

-----------------------------------------------------------------------------
\* The status on screen

(* Mutant of PollStatus: only the visit that has started the server polls. *)
PollIfStarting ==
    /\ at = "page" /\ view.has /\ view.status = "pending" /\ ui.starting
    /\ view' = StatusInvalidated(view)
    /\ UNCHANGED <<status, changes, own, user, at, visits, redirected, ui, prompt,
                   start, auto, manual, autos, unasked, adrift>>

\* Every 2 s while the status on screen is pending.
PollStatus ==
    /\ at = "page" /\ view.has /\ view.status = "pending"
    /\ view' = StatusInvalidated(view)
    /\ UNCHANGED <<status, changes, own, user, at, visits, redirected, ui, prompt,
                   start, auto, manual, autos, unasked, adrift>>

StatusRead ==
    /\ view.fetch = "asked"
    /\ view' = [view EXCEPT !.fetch = "read", !.got = status]
    /\ UNCHANGED <<status, changes, own, user, at, visits, redirected, ui, prompt,
                   start, auto, manual, autos, unasked, adrift>>

\* The effect runs when the status it depends on has changed.
StatusArrives ==
    /\ view.fetch = "read"
    /\ view' = [has |-> TRUE, status |-> view.got, failed |-> FALSE,
                fetch |-> "idle", got |-> "stopped"]
    /\ IF at = "page" /\ (~view.has \/ view.status # view.got)
       THEN Redirect(view', user)
       ELSE UNCHANGED <<ui, redirected, auto, autos, unasked>>
    /\ UNCHANGED <<status, changes, own, user, at, visits, prompt, start, manual, adrift>>

\* The page says so and keeps what it had.
StatusFails ==
    /\ view.fetch # "idle"
    /\ view' = [view EXCEPT !.fetch = "idle", !.got = "stopped", !.failed = TRUE]
    /\ UNCHANGED <<status, changes, own, user, at, visits, redirected, ui, prompt,
                   start, auto, manual, autos, unasked, adrift>>

\* useCurrentUser: the store has the viewer, and isOwnServer may change.
UserLoads ==
    /\ user # "viewer"
    /\ user' = "viewer"
    /\ IF at = "page" /\ view.has /\ IsOwnServer("viewer") # IsOwnServer(user)
       THEN Redirect(view, "viewer")
       ELSE UNCHANGED <<ui, redirected, auto, autos, unasked>>
    /\ UNCHANGED <<status, changes, own, at, visits, view, prompt, start, manual, adrift>>

-----------------------------------------------------------------------------
\* handleStart, and startServerAsync with its reason

HandleStart ==
    /\ at = "page" /\ Screen = "stopped" /\ prompt = "none"
    /\ ui' = [ui EXCEPT !.starting = TRUE]
    /\ IF IsOwnServer(user) THEN start' = start \cup {"here"} /\ UNCHANGED prompt
                            ELSE prompt' = "start" /\ UNCHANGED start
    /\ UNCHANGED <<status, changes, own, user, at, visits, redirected, view, auto,
                   manual, autos, unasked, adrift>>

\* Of the calls left behind there may be more.
Answered(w) == start' = start \ {w} \/ (w = "gone" /\ UNCHANGED start)

\* The server is starting or, when the call waits for it, runs. The page that
\* sent the call, or is there by now, asks anew.
StartSucceeds(w, s) ==
    /\ w \in start /\ changes < MaxChanges
    /\ status' = s /\ changes' = changes + 1
    /\ Answered(w)
    /\ view' = IF at = "page" THEN StatusInvalidated(view) ELSE view
    /\ UNCHANGED <<own, user, at, visits, redirected, ui, prompt, auto, manual, autos,
                   unasked, adrift>>

StartFails(w) ==
    /\ w \in start
    /\ ui' = IF w = "here" THEN [ui EXCEPT !.starting = FALSE] ELSE ui
    /\ Answered(w)
    /\ UNCHANGED <<status, changes, own, user, at, visits, redirected, view, prompt,
                   auto, manual, autos, unasked, adrift>>

-----------------------------------------------------------------------------
\* handleManualOpen

HandleManualOpen ==
    /\ at = "page" /\ Screen = "open" /\ ~ui.opening /\ prompt = "none"
    /\ IF IsOwnServer(user)
       THEN /\ manual' = "token" /\ ui' = [ui EXCEPT !.opening = TRUE] /\ Asks
            /\ UNCHANGED prompt
       ELSE prompt' = "open" /\ UNCHANGED <<manual, ui, unasked>>
    /\ UNCHANGED <<status, changes, own, user, at, visits, redirected, view, start, auto,
                   autos, adrift>>

\* The reason dialog: a reason is given, or the dialog is put away. A start
\* without a reason is not sent, and handleStart goes on as if it were.
GiveReason ==
    /\ at = "page" /\ prompt # "none"
    /\ prompt' = "none"
    /\ IF prompt = "start"
       THEN start' = start \cup {"here"} /\ UNCHANGED <<ui, manual>>
       ELSE manual' = "token" /\ ui' = [ui EXCEPT !.opening = TRUE] /\ UNCHANGED start
    /\ UNCHANGED <<status, changes, own, user, at, visits, redirected, view, auto, autos,
                   unasked, adrift>>

GiveNoReason ==
    /\ at = "page" /\ prompt # "none"
    /\ prompt' = "none"
    /\ view' = IF prompt = "start" THEN StatusInvalidated(view) ELSE view
    /\ UNCHANGED <<status, changes, own, user, at, visits, redirected, ui, start, auto,
                   manual, autos, unasked, adrift>>

-----------------------------------------------------------------------------
\* getServerAccessToken, ensureServiceWorkerUpdated and the way to the environment

TokenGranted ==
    /\ \/ auto = "token" /\ auto' = "worker" /\ UNCHANGED manual
       \/ manual = "token" /\ manual' = "worker" /\ UNCHANGED auto
    /\ UNCHANGED <<status, changes, own, user, at, visits, redirected, view, ui, prompt,
                   start, autos, unasked, adrift>>

(* Mutant of AutoFails: the error is kept and the button is not offered.   *)
AutoFailsSilently ==
    /\ auto = "token" /\ auto' = "none"
    /\ UNCHANGED <<ui, manual>>

AutoFails ==
    /\ auto = "token" /\ auto' = "none"
    /\ ui' = [ui EXCEPT !.ready = TRUE]
    /\ UNCHANGED manual

ManualFails ==
    /\ manual = "token" /\ manual' = "none"
    /\ ui' = [ui EXCEPT !.opening = FALSE]
    /\ UNCHANGED auto

TokenFails ==
    /\ AutoFails \/ ManualFails
    /\ UNCHANGED <<status, changes, own, user, at, visits, redirected, view, prompt,
                   start, autos, unasked, adrift>>

\* Nobody is told of one that an earlier visit has left.
DriftsOn ==
    /\ "token" \in adrift
    /\ \E rest \in {adrift, adrift \ {"token"}} : adrift' \in {rest \cup {"worker"}, rest}
    /\ UNCHANGED <<status, changes, own, user, at, visits, redirected, view, ui, prompt,
                   start, auto, manual, autos, unasked>>

\* The service worker is up to date, fails to be or takes 2 s; the tab goes to
\* the environment, from wherever it is by now, and all scripts end.
Navigate ==
    /\ "worker" \in {auto, manual} \cup adrift
    /\ at' = "environment"
    /\ auto' = "none" /\ manual' = "none" /\ adrift' = {} /\ start' = {} /\ prompt' = "none"
    /\ ui' = Fresh
    /\ view' = NotLoaded
    /\ UNCHANGED <<status, changes, own, user, visits, redirected, autos, unasked>>

-----------------------------------------------------------------------------
\* Coming and going. A link of the page leaves what is under way to itself; the
\* cache stays, and the page opened again starts from it.

LeavePage ==
    /\ at = "page"
    /\ at' = "elsewhere"
    /\ ui' = Fresh /\ prompt' = "none"
    /\ start' = IF start = {} THEN {} ELSE {"gone"}
    /\ auto' = "none" /\ manual' = "none"
    /\ adrift' = adrift \cup ({auto, manual} \ {"none"})
    /\ UNCHANGED <<status, changes, own, user, visits, redirected, view, autos, unasked>>

\* From elsewhere, or back from the environment: the page is loaded anew. A
\* later visit finds a fetch under way, cached data that is fresh, or fetches.
OpenPage ==
    /\ at # "page" /\ visits < MaxVisits
    /\ at' = "page" /\ visits' = visits + 1
    /\ \E stale \in BOOLEAN :
          view' = IF view.fetch = "idle" /\ (~view.has \/ view.failed \/ stale)
                  THEN StatusInvalidated(view) ELSE view
    /\ Redirect(view, user)
    /\ UNCHANGED <<status, changes, own, user, prompt, start, manual, adrift>>

\* The backend: what others, the scheduler and the server itself do.
StatusChanges(s) ==
    /\ changes < MaxChanges /\ s # status
    /\ status' = s /\ changes' = changes + 1
    /\ UNCHANGED <<own, user, at, visits, redirected, view, ui, prompt, start, auto,
                   manual, autos, unasked, adrift>>

-----------------------------------------------------------------------------
GatewayInit ==
    /\ status \in Statuses /\ changes = 0
    /\ own \in BOOLEAN /\ user \in Users
    /\ at = "page" /\ visits = 1
    /\ redirected = FALSE
    /\ view = NotLoaded /\ ui = Fresh /\ prompt = "none"
    /\ start = {} /\ auto = "none" /\ manual = "none" /\ adrift = {}
    /\ autos = 0 /\ unasked = FALSE

Token == TokenGranted \/ TokenFails

GatewayNext ==
    \/ PollStatus \/ StatusRead \/ StatusArrives \/ StatusFails \/ UserLoads
    \/ HandleStart \/ HandleManualOpen \/ GiveReason \/ GiveNoReason
    \/ \E w \in Starts : StartFails(w) \/ \E s \in {"pending", "running"} : StartSucceeds(w, s)
    \/ Token \/ DriftsOn \/ Navigate
    \/ LeavePage \/ OpenPage
    \/ \E s \in Statuses : StatusChanges(s)

GatewaySpec == GatewayInit /\ [][GatewayNext]_gatewayVars

\* Timers fire and requests are answered. A poll starts a request anew, so this
\* is strong: again and again an answer takes less than the 2 s of the poll.
GatewayFairness ==
    /\ WF_gatewayVars(PollStatus)
    /\ SF_gatewayVars(StatusRead) /\ SF_gatewayVars(StatusArrives)

GatewayFairSpec == GatewaySpec /\ GatewayFairness

-----------------------------------------------------------------------------
GatewayTypeOK ==
    /\ status \in Statuses /\ changes \in 0 .. MaxChanges
    /\ own \in BOOLEAN /\ user \in Users
    /\ at \in {"page", "elsewhere", "environment"} /\ visits \in 1 .. MaxVisits
    /\ redirected \in BOOLEAN
    /\ view \in View /\ ui \in Ui
    /\ prompt \in {"none", "start", "open"} /\ start \subseteq Starts
    /\ auto \in Steps /\ manual \in Steps /\ adrift \subseteq Steps \ {"none"}
    /\ autos \in Nat /\ unasked \in BOOLEAN

\* The page takes the tab away by itself at most once (redirectKey in
\* sessionStorage): whatever the status does, however often the token fails and
\* the page is left, loaded anew or opened again, no loop of redirects.
AutoOnce == autos <= 1

\* A page that says it is opening the environment is doing so: a redirect is
\* under way, and when its token is refused the button is there (the catch of
\* getAccessTokenAndRedirect, setManualOpenReady).
RedirectingIsWorking == at = "page" /\ Screen = "redirecting" => auto # "none"

\* A token for the server of another is asked for with a reason (isOwnServer,
\* promptAccessReason), also when the server is known before the user is; the
\* one exception is a store that still has who was signed in before.
AskedWithReason == ~unasked

\* "The page will automatically redirect when the server is ready": a page that
\* shows a server as pending does not stay there when it no longer is (the poll),
\* as long as requests are answered. (An answer from before a change may still
\* end the polling: what is shown then is not pending, but not the last word.)
PendingIsFollowed ==
    (at = "page" /\ view.has /\ view.status = "pending" /\ status # "pending")
        ~> (view.status # "pending" \/ view.failed \/ at # "page" \/ status = "pending")
=============================================================================

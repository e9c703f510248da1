--------------------------- MODULE ClientSession ---------------------------
(***************************************************************************)
(* The signed-in session of the web client. Every tab reads one pair of     *)
(* tokens (access, refresh) from localStorage; a request that meets a 401   *)
(* renews the pair once per tab at a time and is sent again (lib/api.ts),   *)
(* and so does the tab's socket when its token is refused                   *)
(* (hooks/use-websocket.ts). The backend accepts a refresh token once.      *)
(*                                                                          *)
(* A pair is its serial number: setTokens and clearTokens always write      *)
(* both halves. Of the requests of a tab one is followed, next to its       *)
(* socket: the two callers a renewal can have at the same time.             *)
(***************************************************************************)
EXTENDS Integers

CONSTANTS
    Tabs,
    Socketed,      \* tabs whose page has loaded its user, and so has a socket
    Uses,          \* for each tab, the kinds of request followed, and "logout"
    MaxPairs,      \* pairs issued; past it /auth/refresh answers with an error
    MaxAttempts,   \* maxReconnectAttempts
    MaxFaults,     \* connections of a socket that break
    MaxTimers      \* reconnect timers, and calls of a socket that wait for a renewal

ASSUME SessionAssumption ==
    /\ Socketed \subseteq Tabs /\ {"nobody", "others"} \cap Tabs = {}
    /\ MaxPairs \in Nat \ {0} /\ MaxAttempts \in Nat /\ MaxFaults \in Nat
    /\ MaxTimers \in Nat \ {0}

VARIABLES
    stored,        \* the pair in localStorage, 0 for none
    issued,        \* pairs the backend has issued
    live,          \* pairs whose access token it accepts
    valid,         \* pairs whose refresh token it accepts
    page,          \* [Tabs -> {"login", "app"}]
    request,       \* [Tabs -> Request]
    calls,         \* [Tabs -> SUBSET Call]: calls of /auth/refresh under way
    socket,        \* [Tabs -> Socket]
    signOut,       \* [Tabs -> SignOut]: the call of /auth/logout under way
    faults,        \* connections that have broken
    user           \* [Pairs -> Tabs \cup {"nobody", "others"}]: the page that alone has
                   \* presented a refresh token, or ended it; "nobody" for none

backend == <<issued, live, valid>>
vars == <<stored, backend, page, request, calls, socket, signOut, faults, user>>

Pairs == 1 .. MaxPairs

Kinds == {"fetch", "download", "tool"}

Request == [st : {"idle", "sent", "denied", "waiting"}, kind : Kinds,
            tok : 0 .. MaxPairs, retried : BOOLEAN]

Call == [by : {"request", "socket"}, tok : Pairs, got : 0 .. MaxPairs,
         st : {"sent", "granted", "failed"}]

\* connecting is isConnectingRef, attempts reconnectAttemptsRef; timers are the
\* reconnect timers set, waits the closed sockets that wait for a renewal.
Socket == [ws : {"none", "opening", "asked", "up", "dead"}, tok : 0 .. MaxPairs,
           on : BOOLEAN, connecting : BOOLEAN, attempts : 0 .. MaxAttempts,
           timers : 0 .. MaxTimers, waits : 0 .. MaxTimers]

SignOut == [asked : BOOLEAN, tok : 0 .. MaxPairs]

IdleRequest == [st |-> "idle", kind |-> "fetch", tok |-> 0, retried |-> FALSE]
NoSocket == [ws |-> "none", tok |-> 0, on |-> FALSE, connecting |-> FALSE,
             attempts |-> 0, timers |-> 0, waits |-> 0]
NoSignOut == [asked |-> FALSE, tok |-> 0]

Init ==
    /\ stored = 0 /\ issued = 0 /\ live = {} /\ valid = {}
    /\ page = [t \in Tabs |-> "login"]
    /\ request = [t \in Tabs |-> IdleRequest]
    /\ calls = [t \in Tabs |-> {}]
    /\ socket = [t \in Tabs |-> NoSocket]
    /\ signOut = [t \in Tabs |-> NoSignOut]
    /\ faults = 0
    /\ user = [p \in Pairs |-> "nobody"]

-----------------------------------------------------------------------------
\* A page is left for another: what its scripts held is gone. A renewal it
\* had sent may still be carried out, and nobody gets the new pair. The pair
\* revoked is the one signed out, if any.

Leave(t, to, revoked) ==
    /\ page' = [page EXCEPT ![t] = to]
    /\ request' = [request EXCEPT ![t] = IdleRequest]
    /\ calls' = [calls EXCEPT ![t] = {}]
    /\ socket' = [socket EXCEPT ![t] = NoSocket]
    /\ signOut' = [signOut EXCEPT ![t] = NoSignOut]
    /\ user' = [p \in Pairs |-> IF user[p] = t \/ p = revoked THEN "others" ELSE user[p]]
    /\ \E done \in SUBSET {c \in calls[t] : c.st = "sent"}, gone \in {{}, {revoked}} :
          /\ valid' = valid \ (gone \cup {c.tok : c \in done})
          /\ live' = live \ gone
    /\ UNCHANGED issued

\* redirectToLogin, and openMonitoringTool when the pair is not renewed
RedirectToLogin(t) == Leave(t, "login", 0)

\* The page is loaded anew (F5, a typed address): without tokens the shell
\* goes to the login page.
Reload(t) ==
    /\ Leave(t, IF stored = 0 THEN "login" ELSE "app", 0)
    /\ UNCHANGED <<stored, faults>>

-----------------------------------------------------------------------------
\* Renewal: refreshAccessToken and doRefresh

IsRefreshing(t) == calls[t] # {}

\* The caller waits for the answer under way, or asks for one.
RefreshAccessToken(t, by) ==
    IF IsRefreshing(t)
    THEN UNCHANGED <<calls, user>>
    ELSE /\ stored # 0
         /\ calls' = [calls EXCEPT ![t] =
                @ \cup {[by |-> by, tok |-> stored, got |-> 0, st |-> "sent"]}]
         /\ user' = [user EXCEPT ![stored] = IF @ \in {"nobody", t} THEN t ELSE "others"]

\* doRefresh finds no token: false at once.
NothingToPresent(t) == ~IsRefreshing(t) /\ stored = 0

\* The backend trades a refresh token it accepts for a new pair. Two calls that
\* overlap may both find it unrevoked.
RefreshGranted(t, c) ==
    /\ c \in calls[t] /\ c.st = "sent" /\ issued < MaxPairs
    /\ \/ c.tok \in valid
       \/ \E u \in Tabs : \E d \in calls[u] : d.tok = c.tok /\ d.st = "granted"
    /\ issued' = issued + 1
    /\ live' = live \cup {issued'}
    /\ valid' = (valid \ {c.tok}) \cup {issued'}
    /\ calls' = [calls EXCEPT ![t] =
            (@ \ {c}) \cup {[c EXCEPT !.st = "granted", !.got = issued']}]
    /\ UNCHANGED <<stored, page, request, socket, signOut, faults, user>>

\* It refuses the token, answers with an error (the rate limit), or the answer
\* is lost after the trade. got is the pair the answer would have brought.
RefreshFailed(t, c) ==
    /\ c \in calls[t] /\ c.st = "sent"
    /\ \/ c.tok \notin valid /\ UNCHANGED valid
       \/ c.tok \in valid /\ valid' \in {valid, valid \ {c.tok}}
    /\ calls' = [calls EXCEPT ![t] =
            (@ \ {c}) \cup {[c EXCEPT !.st = "failed",
                                      !.got = IF c.tok \in valid THEN c.tok ELSE 0]}]
    /\ UNCHANGED <<stored, issued, live, page, request, socket, signOut,
                   faults, user>>

\* The retry of a request after the renewal.
Retry(r, tok) ==
    IF r.st # "waiting" THEN r
    ELSE IF r.kind = "tool" THEN IdleRequest
    ELSE [r EXCEPT !.st = "sent", !.tok = tok, !.retried = TRUE]

(* Mutant of Renewed: only the caller that asked is answered.              *)
RenewedCaller(t, c) ==
    /\ stored' = c.got
    /\ request' = IF c.by = "socket" THEN request
                  ELSE [request EXCEPT ![t] = Retry(@, c.got)]
    /\ socket' = IF c.by = "request" THEN socket
                 ELSE [socket EXCEPT ![t] =
                         [@ EXCEPT !.attempts = 0, !.timers = MaxTimers, !.waits = 0]]

(* Mutant of Renewed: the new refresh token is not kept.                   *)
RenewedNotKept(t, c) ==
    /\ UNCHANGED <<stored, socket>>
    /\ request' = [request EXCEPT ![t] = Retry(@, c.got)]

\* All that wait go on, before anything else happens in the tab.
Renewed(t, c) ==
    /\ stored' = c.got
    /\ request' = [request EXCEPT ![t] = Retry(@, c.got)]
    /\ socket' =
         IF socket[t].waits = 0 THEN socket
         ELSE [socket EXCEPT ![t] =
                 [@ EXCEPT !.attempts = 0, !.waits = 0,
                           !.timers = IF @ + socket[t].waits > MaxTimers
                                      THEN MaxTimers ELSE @ + socket[t].waits]]

RefreshArrives(t, c) ==
    /\ c \in calls[t] /\ c.st = "granted"
    /\ Renewed(t, c)
    /\ calls' = [calls EXCEPT ![t] = @ \ {c}]
    /\ UNCHANGED <<backend, page, signOut, faults, user>>

\* clearTokens, whichever pair is stored by now; a request that waits goes to
\* the login page, a socket gives up.
RefreshFailureArrives(t, c) ==
    /\ c \in calls[t] /\ c.st = "failed"
    /\ stored' = 0
    /\ \/ request[t].st = "waiting" /\ RedirectToLogin(t)
       \/ /\ request[t].st # "waiting"
          /\ calls' = [calls EXCEPT ![t] = @ \ {c}]
          /\ socket' = [socket EXCEPT ![t].waits = 0]
          /\ UNCHANGED <<backend, page, request, signOut, user>>
    /\ UNCHANGED faults

-----------------------------------------------------------------------------
\* Requests: apiFetch, api.download and openMonitoringTool

Send(t, kind) ==
    /\ page[t] = "app" /\ request[t].st = "idle" /\ kind \in Uses[t]
    /\ \/ /\ kind # "tool"
          /\ request' = [request EXCEPT ![t] =
                [st |-> "sent", kind |-> kind, tok |-> stored, retried |-> FALSE]]
          /\ UNCHANGED <<backend, page, calls, socket, signOut, user>>
       \/ /\ kind = "tool" /\ NothingToPresent(t)
          /\ RedirectToLogin(t)
       \/ /\ kind = "tool" /\ RefreshAccessToken(t, "request")
          /\ request' = [request EXCEPT ![t] = [IdleRequest EXCEPT !.st = "waiting", !.kind = kind]]
          /\ UNCHANGED <<backend, page, socket, signOut>>
    /\ UNCHANGED <<stored, faults>>

\* The backend looks at the token: the page has its data, or a 401.
Serve(t) ==
    /\ request[t].st = "sent"
    /\ request' = [request EXCEPT ![t] =
            IF @.tok \in live THEN IdleRequest ELSE [@ EXCEPT !.st = "denied", !.tok = 0]]
    /\ UNCHANGED <<stored, backend, page, calls, socket, signOut, faults, user>>

\* The call fails and throws.
Lose(t) ==
    /\ request[t].st = "sent"
    /\ request' = [request EXCEPT ![t] = IdleRequest]
    /\ UNCHANGED <<stored, backend, page, calls, socket, signOut, faults, user>>

\* A second 401 of a fetch is an error; a download starts over.
Final(r) == r.retried /\ r.kind = "fetch"

Answer(t) ==
    /\ request[t].st = "denied"
    /\ \/ /\ Final(request[t])
          /\ request' = [request EXCEPT ![t] = IdleRequest]
          /\ UNCHANGED <<backend, page, calls, socket, signOut, user>>
       \/ /\ ~Final(request[t])
          /\ \/ NothingToPresent(t) /\ RedirectToLogin(t)
             \/ /\ RefreshAccessToken(t, "request")
                /\ request' = [request EXCEPT ![t].st = "waiting"]
                /\ UNCHANGED <<backend, page, socket, signOut>>
    /\ UNCHANGED <<stored, faults>>

-----------------------------------------------------------------------------
\* The socket: useWebSocket

\* connect
Connect(s) ==
    IF s.ws \in {"asked", "up", "dead"} \/ s.connecting THEN s
    ELSE [s EXCEPT !.ws = "opening", !.connecting = TRUE]

OnlySocket(t, s) ==
    /\ socket' = [socket EXCEPT ![t] = s]
    /\ UNCHANGED <<stored, backend, page, request, calls, signOut, user>>

\* WebSocketProvider: the page has its user and a token.
Mount(t) ==
    /\ t \in Socketed /\ page[t] = "app" /\ stored # 0 /\ ~socket[t].on
    /\ OnlySocket(t, Connect([socket[t] EXCEPT !.on = TRUE]))
    /\ UNCHANGED faults

\* onopen: the token of this moment is sent, if there is one.
OnOpen(t) ==
    /\ socket[t].ws = "opening"
    /\ OnlySocket(t, [socket[t] EXCEPT !.ws = "asked", !.tok = stored])
    /\ UNCHANGED faults

\* onmessage, auth:success
AuthSuccess(t) ==
    /\ socket[t].ws = "asked" /\ socket[t].tok \in live
    /\ OnlySocket(t, [socket[t] EXCEPT !.ws = "up", !.tok = 0, !.connecting = FALSE,
                                       !.attempts = 0])
    /\ UNCHANGED faults

\* onclose, and onerror before it
Closed(s) == [s EXCEPT !.ws = "none", !.tok = 0, !.connecting = FALSE]

(* Mutant of ClosedByAuth: the early return comes before the reset.        *)
ClosedByAuthConnecting(s) == [s EXCEPT !.ws = "none", !.tok = 0]

ClosedByAuth(s) == Closed(s)

\* onmessage, auth:error, then onclose; or onclose with 4001 after 5 s without
\* a token: the pair is renewed and the socket tried again.
AuthError(t) ==
    /\ socket[t].ws = "asked" /\ socket[t].tok \notin live
    /\ \/ /\ NothingToPresent(t)
          /\ OnlySocket(t, ClosedByAuth(socket[t]))
       \/ /\ socket[t].waits < MaxTimers
          /\ RefreshAccessToken(t, "socket")
          /\ socket' = [socket EXCEPT ![t] = [ClosedByAuth(@) EXCEPT !.waits = @ + 1]]
          /\ UNCHANGED <<stored, backend, page, request, signOut>>
    /\ UNCHANGED faults

\* onclose of any other kind. (Of more timers than MaxTimers those that are kept
\* do the work: the first that runs out connects, the others find it so.)
Reconnecting(s) ==
    IF s.attempts < MaxAttempts /\ s.timers < MaxTimers
    THEN [Closed(s) EXCEPT !.attempts = @ + 1, !.timers = @ + 1]
    ELSE Closed(s)

Break(t) ==
    /\ socket[t].ws \in {"opening", "asked", "up"} /\ faults < MaxFaults
    /\ OnlySocket(t, Reconnecting(socket[t]))
    /\ faults' = faults + 1

\* The connection goes without a close event.
GoDead(t) ==
    /\ socket[t].ws = "up" /\ faults < MaxFaults
    /\ OnlySocket(t, [socket[t] EXCEPT !.ws = "dead"])
    /\ faults' = faults + 1

Timer(t) ==
    /\ socket[t].timers > 0
    /\ OnlySocket(t, Connect([socket[t] EXCEPT !.timers = @ - 1]))
    /\ UNCHANGED faults

\* recover: the tab becomes visible, or the network returns. A socket that has
\* been silent too long is closed and its onclose sets a timer.
Recover(t) ==
    /\ socket[t].on /\ ~socket[t].connecting
    /\ LET s == [socket[t] EXCEPT !.attempts = 0]
       IN  /\ s.ws \in {"none", "dead"}
           /\ OnlySocket(t, IF s.ws = "dead" THEN Reconnecting(s) ELSE Connect(s))
    /\ UNCHANGED faults

-----------------------------------------------------------------------------
\* Signing in and out

\* handleSubmit, and the effect that takes the tokens from the address
Login(t) ==
    /\ page[t] = "login" /\ issued < MaxPairs
    /\ issued' = issued + 1
    /\ live' = live \cup {issued'}
    /\ valid' = valid \cup {issued'}
    /\ stored' = issued'
    /\ page' = [page EXCEPT ![t] = "app"]
    /\ UNCHANGED <<request, calls, socket, signOut, faults, user>>

\* logout: the tokens of this moment are sent, the page goes on until the answer.
Logout(t) ==
    /\ page[t] = "app" /\ ~signOut[t].asked /\ "logout" \in Uses[t]
    /\ signOut' = [signOut EXCEPT ![t] = [asked |-> TRUE, tok |-> stored]]
    /\ UNCHANGED <<stored, backend, page, request, calls, socket, faults, user>>

\* The backend ends the pair it was sent, or the call fails; the tokens of this
\* moment are cleared. (An answer that takes its time is a pair that the backend
\* ends, and then a call that fails.)
LogoutArrives(t) ==
    /\ signOut[t].asked
    /\ stored' = 0
    /\ Leave(t, "login", signOut[t].tok)
    /\ UNCHANGED faults

\* The backend: an access token ends, a refresh token ends (its life, a change
\* of password, an administrator). Only tokens somebody still holds are told apart.
Held == {stored} \cup {c.tok : c \in UNION {calls[t] : t \in Tabs}}
                 \cup {c.got : c \in UNION {calls[t] : t \in Tabs}}

ExpireAccess(p) ==
    /\ p \in live /\ p \in Held /\ issued < MaxPairs
    /\ live' = live \ {p}
    /\ UNCHANGED <<stored, issued, valid, page, request, calls, socket,
                   signOut, faults, user>>

EndRefresh(p) ==
    /\ p \in valid /\ p \in Held
    /\ valid' = valid \ {p}
    /\ user' = [user EXCEPT ![p] = "others"]
    /\ UNCHANGED <<stored, issued, live, page, request, calls, socket, signOut, faults>>

-----------------------------------------------------------------------------
RefreshStep(t) ==
    \E c \in calls[t] :
        RefreshGranted(t, c) \/ RefreshFailed(t, c)
        \/ RefreshArrives(t, c) \/ RefreshFailureArrives(t, c)

RequestStep(t) == Serve(t) \/ Lose(t) \/ Answer(t)

SocketStep(t) == OnOpen(t) \/ AuthSuccess(t) \/ AuthError(t) \/ Timer(t)

Next ==
    \/ \E t \in Tabs :
          \/ Reload(t) \/ Login(t) \/ Logout(t) \/ LogoutArrives(t)
          \/ \E kind \in Kinds : Send(t, kind)
          \/ RefreshStep(t) \/ RequestStep(t) \/ SocketStep(t)
          \/ Mount(t) \/ Break(t) \/ GoDead(t) \/ Recover(t)
    \/ \E p \in Pairs : ExpireAccess(p) \/ EndRefresh(p)

Spec == Init /\ [][Next]_vars

\* Calls are answered or fail, timers run out; and the user comes back to the
\* tab, or the network does, as often as a socket needs it.
Fairness ==
    \A t \in Tabs : /\ WF_vars(RefreshStep(t)) /\ WF_vars(RequestStep(t))
                    /\ WF_vars(SocketStep(t)) /\ WF_vars(Mount(t))
                    /\ WF_vars(Recover(t))

FairSpec == Spec /\ Fairness

-----------------------------------------------------------------------------
\* The state is what the code can hold; a tab has at most one renewal under way.
TypeOK ==
    /\ stored \in 0 .. MaxPairs /\ issued \in 0 .. MaxPairs
    /\ live \subseteq Pairs /\ valid \subseteq Pairs
    /\ page \in [Tabs -> {"login", "app"}]
    /\ request \in [Tabs -> Request]
    /\ calls \in [Tabs -> SUBSET Call] /\ \A t \in Tabs : \A c, d \in calls[t] : c = d
    /\ socket \in [Tabs -> Socket]
    /\ signOut \in [Tabs -> SignOut]
    /\ faults \in 0 .. MaxFaults
    /\ user \in [Pairs -> Tabs \cup {"nobody", "others"}]

\* The tokens vanish from localStorage (clearTokens, lib/api.ts) only for a cause
\* outside the page that clears them: the user has signed out, the call failed,
\* the backend has ended the session, or the refresh token was presented by
\* another page as well. A page does not sign its user out by itself.
SignedOutForCause ==
    [][stored # 0 /\ stored' = 0 =>
          \E t \in Tabs :
             \/ signOut[t].asked
             \/ \E c \in calls[t] :
                   /\ c.st = "failed"
                   /\ c.got # 0 \/ user[c.tok] # t]_vars

\* A request ends (lib/api.ts): whatever the tokens, the renewals and the other
\* tabs do, its page gets data or an error, or is left for the login page.
RequestsSettle ==
    \A t \in Tabs : request[t].st # "idle" ~> request[t].st = "idle"

\* A socket that is wanted comes back (hooks/use-websocket.ts): after broken and
\* silently dead connections, refused tokens and spent attempts it is up again,
\* unless the page is left or the tokens are gone.
SocketReturns ==
    \A t \in Socketed :
        socket[t].on ~> (socket[t].ws = "up" \/ ~socket[t].on \/ stored = 0)
=============================================================================

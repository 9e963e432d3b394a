---- MODULE Browser ----
(***************************************************************************)
(* The other end of the refresh cookie: browsers that hold one account's   *)
(* cookies, the routes of AuthController that set, clear and receive them, *)
(* and answers that arrive late, in another order, or never.  The service  *)
(* and its tables are AuthService.                                         *)
(***************************************************************************)
EXTENDS AuthService

CONSTANT Browsers

VARIABLES
    cookie,     \* the refresh_token cookie of each browser
    bearer,     \* the account whose access token the browser has
    tab,        \* who sent a request, where to, and with which cookie at hand
    answer,     \* what an answer on its way does to the cookie
    disturbed,  \* history: browsers whose cookie may not be current
    fate        \* history: how an open session left its browser unclosed

browserVars == <<cookie, bearer, tab, answer, disturbed, fate>>
allVars == <<vars, browserVars>>

Routes == {"login", "refresh", "logout", "logoutAll"}
Tab == [browser: Browsers, route: Routes, held: Maybe(Tokens)]
ASSUME BrowsersAssumption == None \notin Tab \cup {"clear"} /\ "clear" \notin Tokens

BrowserInit ==
    /\ Init
    /\ cookie = [b \in Browsers |-> None]
    /\ bearer = [b \in Browsers |-> None]
    /\ tab = [r \in Requests |-> None]
    /\ answer = [r \in Requests |-> None]
    /\ disturbed = {}
    /\ fate = [t \in Tokens |-> "kept"]

InFlight(b) == \E r \in Requests : tab[r] # None /\ tab[r].browser = b

\* path: '/api/v1/auth/refresh' is no prefix of any other route's path.
CookieAttached(route) == route = "refresh"

\* Mutation: refresh answers with the access token only.
OnlyLoginSetsCookie(route) == route = "login"

\* The handlers that call setRefreshTokenCookie.
SetsCookie(route) == route \in {"login", "refresh"}

\* The handlers that call clearRefreshTokenCookie.
ClearsCookie(route) == route \in {"logout", "logoutAll"}
----------------------------------------------------------------------------
(* A browser sends a request *)

\* Only a browser that signs in with the right password, and does nothing else
\* meanwhile, starts anew.
Sends(r, b, route) ==
    /\ tab[r] = None
    /\ tab' = [tab EXCEPT ![r] = [browser |-> b, route |-> route, held |-> cookie[b]]]
    /\ disturbed' = IF InFlight(b) THEN disturbed \cup {b}
                    ELSE IF At(r, "login.issue")' THEN disturbed \ {b} ELSE disturbed
    /\ UNCHANGED <<cookie, bearer, fate>>

SendLogin(r, b) ==
    /\ LoginLookup(r)
    /\ Sends(r, b, "login")
    /\ UNCHANGED answer

SendRefresh(r, b) ==
    /\ CookieAttached("refresh")
    /\ RefreshLookup(r) /\ req'[r].token = cookie[b]
    /\ Sends(r, b, "refresh")
    /\ UNCHANGED answer

\* Without a cookie the handler does not call the service.
SendLogout(r, b) ==
    /\ IF CookieAttached("logout") /\ cookie[b] # None
       THEN LogoutAuthorize(r) /\ req'[r].token = cookie[b] /\ UNCHANGED answer
       ELSE /\ Calls(r, "logout")
            /\ bearer[b] # None /\ Authorized(bearer[b])
            /\ answer' = [answer EXCEPT ![r] = "clear"]
            /\ UNCHANGED vars
    /\ Sends(r, b, "logout")

SendLogoutAll(r, b) ==
    /\ LogoutAllAuthorize(r) /\ req'[r].user = bearer[b]
    /\ Sends(r, b, "logoutAll")
    /\ UNCHANGED answer
----------------------------------------------------------------------------
(* The service works on it, and answers *)

IssuedNow == {t \in Tokens : ~Issued(t) /\ refreshTokens'[t].user # None}

\* A refused request answers without Set-Cookie: no handler runs to its end.
AnswerOf(r) ==
    IF ClearsCookie(tab[r].route) THEN "clear"
    ELSE IF SetsCookie(tab[r].route) /\ IssuedNow # {}
         THEN CHOOSE t \in IssuedNow : TRUE ELSE None

\* The browsers that may hold a session of the account a sweep closes.
Swept(r) == IF req[r].pc \in {"refresh.reuse", "logoutAll"}
            THEN {b \in Browsers : bearer[b] = req[r].user \/ InFlight(b)} ELSE {}

\* A 401 for an expired token revokes it, and leaves the cookie in place.
Refused(r) == IF At(r, "refresh.expired") THEN {tab[r].browser} ELSE {}

Serve(r) ==
    /\ ~At(r, "idle") /\ Step(r)
    /\ answer' = IF At(r, "idle")' THEN [answer EXCEPT ![r] = AnswerOf(r)] ELSE answer
    /\ tab' = IF At(r, "idle")' /\ AnswerOf(r) = None
              THEN [tab EXCEPT ![r] = None] ELSE tab
    /\ disturbed' = disturbed \cup Swept(r) \cup Refused(r)
    /\ fate' = [t \in Tokens |-> IF Open(t)' THEN fate[t] ELSE "kept"]
    /\ UNCHANGED <<cookie, bearer>>

\* The replica dies, or the statement fails: the browser sees an error.
ServiceAborts(r) ==
    /\ Abort(r)
    /\ tab' = [tab EXCEPT ![r] = None]
    /\ disturbed' = IF tab[r].route = "login"
                    THEN disturbed \cup {tab[r].browser} ELSE disturbed
    /\ UNCHANGED <<cookie, bearer, answer, fate>>

\* What becomes of the session whose cookie an answer replaces or clears:
\* refresh and logout-all close the one they were sent with.
Left(r, b) ==
    IF tab[r].route = "logout" THEN "logged out"
    ELSE IF tab[r].route = "login" \/ cookie[b] # tab[r].held THEN "dropped"
    ELSE "kept"

Leaves(t, how) == IF t \in Tokens /\ Open(t) THEN [fate EXCEPT ![t] = how] ELSE fate

Deliver(r) == LET b == tab[r].browser IN
    /\ answer[r] # None
    /\ cookie' = [cookie EXCEPT ![b] = IF answer[r] = "clear" THEN None ELSE answer[r]]
    /\ bearer' = IF answer[r] = "clear" THEN bearer
                 ELSE [bearer EXCEPT ![b] = refreshTokens[answer[r]].user]
    /\ fate' = Leaves(cookie[b], Left(r, b))
    /\ answer' = [answer EXCEPT ![r] = None]
    /\ tab' = [tab EXCEPT ![r] = None]
    /\ UNCHANGED <<vars, disturbed>>

\* The connection breaks after the handler has finished.
Lose(r) ==
    /\ answer[r] # None
    /\ fate' = Leaves(answer[r], "dropped")
    /\ disturbed' = disturbed \cup {tab[r].browser}
    /\ answer' = [answer EXCEPT ![r] = None]
    /\ tab' = [tab EXCEPT ![r] = None]
    /\ UNCHANGED <<vars, cookie, bearer>>

\* maxAge is counted from the delivery, expiresAt from the insertion before it,
\* and both are JWT_REFRESH_EXPIRES_IN: a cookie never expires before its row.
CookieExpires == \E b \in Browsers :
    /\ cookie[b] # None /\ refreshTokens[cookie[b]].state # "valid"
    /\ cookie' = [cookie EXCEPT ![b] = None]
    /\ fate' = Leaves(cookie[b], "dropped")
    /\ UNCHANGED <<vars, bearer, tab, answer, disturbed>>

BrowserNext ==
    \/ \E r \in Requests, b \in Browsers :
         SendLogin(r, b) \/ SendRefresh(r, b) \/ SendLogout(r, b) \/ SendLogoutAll(r, b)
    \/ \E r \in Requests : Serve(r) \/ ServiceAborts(r) \/ Deliver(r) \/ Lose(r)
    \/ CookieExpires
    \/ TokenExpires /\ UNCHANGED browserVars

BrowserSpec == BrowserInit /\ [][BrowserNext]_allVars
----------------------------------------------------------------------------
(* Properties *)

\* Every variable has its type: tables, requests, cookies, answers, histories.
BrowserTypeOK ==
    /\ TypeOK
    /\ cookie \in [Browsers -> Maybe(Tokens)]
    /\ bearer \in [Browsers -> Maybe(UserIds)]
    /\ tab \in [Requests -> Maybe(Tab)]
    /\ answer \in [Requests -> Maybe(Tokens) \cup {"clear"}]
    /\ disturbed \in SUBSET Browsers
    /\ fate \in [Tokens -> {"kept", "dropped", "logged out"}]

\* The replay alarm of refresh logs everybody out, so an honest browser must
\* not trip it.  A browser that sends one request at a time, loses no answer,
\* does not retry after a 401 and whose account nobody sweeps always holds a
\* token that refresh accepts, or finds expired: never a revoked one.
QuietCookieValid == \A b \in Browsers :
    b \notin disturbed /\ ~InFlight(b) /\ cookie[b] # None
    => refreshTokens[cookie[b]].state # "revoked"

\* Which sessions nobody can refresh or close any more: an unrevoked token is
\* some browser's cookie, or on its way to it, or left it unclosed because an
\* answer was lost, a sign-in or a late answer replaced the cookie, it expired,
\* or the user logged out.  Rotation and logout-all leave none behind.
OpenSessionsAccounted == \A t \in Tokens :
    Open(t) => \/ \E b \in Browsers : cookie[b] = t
               \/ \E r \in Requests : answer[r] = t
               \/ fate[t] # "kept"

\* README, on POST /auth/logout: "Revokes the current device's session".
LogoutRevokesSession == \A t \in Tokens :
    fate[t] = "logged out" => refreshTokens[t].state # "valid"
====

---- MODULE BrowserProofs ----
(***************************************************************************)
(* Browser for any number of browsers, accounts, tokens and requests: its  *)
(* types, the validity of a quiet browser's cookie, and the account of the *)
(* sessions nobody holds any more.                                         *)
(***************************************************************************)
EXTENDS Browser, AuthServiceProofs

\* The awaits a request that a browser sent can be suspended at, and the
\* route it was sent to.
LoginAwaits == {"login.issue", "login.failed", "login.lock"}
RefreshAwaits == {"refresh.reuse", "refresh.expired", "refresh.user", "refresh.rotate"}

\* A request that is worked on or answered has its tab; what a refresh has in
\* hand is the cookie it was sent with, and so is what logout-all sweeps; both
\* have closed that session by the time they answer.
Tabbed(r) ==
    /\ req[r].pc \in LoginAwaits \cup RefreshAwaits \cup {"logoutAll", "idle"}
    /\ tab[r] # None <=> req[r].pc # "idle" \/ answer[r] # None
    /\ answer[r] # None => req[r].pc = "idle"
    /\ req[r].pc \in LoginAwaits => tab[r].route = "login"
    /\ req[r].pc \in RefreshAwaits => tab[r].route = "refresh" /\ req[r].token = tab[r].held
    /\ req[r].pc = "logoutAll" =>
         /\ tab[r].route = "logoutAll"
         /\ tab[r].held # None => refreshTokens[tab[r].held].user = req[r].user
    /\ answer[r] \in Tokens =>
         \/ tab[r].route = "login"
         \/ /\ tab[r].route = "refresh" /\ tab[r].held \in Tokens
            /\ refreshTokens[tab[r].held].state = "revoked"
    /\ answer[r] = "clear" =>
         \/ tab[r].route = "logout"
         \/ /\ tab[r].route = "logoutAll"
            /\ tab[r].held # None => refreshTokens[tab[r].held].state = "revoked"

\* What browsers, requests and answers carry are tokens the table has.
HeldInv ==
    /\ \A b \in Browsers : cookie[b] # None =>
         Issued(cookie[b]) /\ refreshTokens[cookie[b]].user = bearer[b]
    /\ \A r \in Requests : tab[r] # None /\ tab[r].held # None => Issued(tab[r].held)
    /\ \A r \in Requests : answer[r] \in Tokens => Issued(answer[r])

\* A token on its way has been seen nowhere else, and no two browsers hold one.
UnseenInv ==
    /\ \A r \in Requests : answer[r] \in Tokens =>
         /\ \A b \in Browsers : cookie[b] # answer[r]
         /\ \A s \in Requests : /\ answer[s] = answer[r] => s = r
                                /\ tab[s] # None => tab[s].held # answer[r]
    /\ \A b, c \in Browsers : cookie[b] = cookie[c] /\ cookie[b] # None => b = c
    /\ \A r \in Requests, b \in Browsers :
         tab[r] # None /\ tab[r].held = cookie[b] /\ cookie[b] # None => tab[r].browser = b

\* An undisturbed browser has one request under way at most.  The token that
\* answers it is good, and a revoked cookie is about to be replaced.
Of(b, r) == tab[r] # None /\ tab[r].browser = b
Quiet(b) ==
    /\ \A r, s \in Requests : Of(b, r) /\ Of(b, s) => r = s
    /\ \A r \in Requests : Of(b, r) /\ answer[r] \in Tokens
                           => refreshTokens[answer[r]].state # "revoked"
    /\ cookie[b] # None /\ refreshTokens[cookie[b]].state = "revoked"
         => \E r \in Requests : Of(b, r) /\ (req[r].pc = "login.issue" \/ answer[r] \in Tokens)

\* The inductive invariant: each part is needed to keep another.
BrowserInv ==
    /\ BrowserTypeOK /\ RememberedRows
    /\ \A r \in Requests : Tabbed(r)
    /\ HeldInv /\ UnseenInv
    /\ \A b \in Browsers \ disturbed : Quiet(b)
    /\ OpenSessionsAccounted

\* No browser has a cookie at first, and no request is under way.
LEMMA BrowserStart == BrowserInit => BrowserInv
<1> SUFFICES ASSUME BrowserInit PROVE BrowserInv
  OBVIOUS
<1>1. TypeOK /\ RememberedRows
  BY InitialType, InitialRemembered DEF BrowserInit
<1>2. BrowserTypeOK
  BY <1>1 DEF BrowserInit, BrowserTypeOK, Maybe
<1>3. /\ \A b \in Browsers : cookie[b] = None
      /\ \A r \in Requests : tab[r] = None /\ answer[r] = None /\ req[r].pc = "idle"
      /\ \A t \in Tokens : ~Issued(t)
  BY DEF BrowserInit, Init, NoRequest, Issued
<1>4. (\A r \in Requests : Tabbed(r)) /\ HeldInv /\ UnseenInv
  BY <1>3, NoneAssumption, BrowsersAssumption
  DEF Tabbed, HeldInv, UnseenInv, LoginAwaits, RefreshAwaits
<1>5. (\A b \in Browsers : Quiet(b)) /\ OpenSessionsAccounted
  BY <1>3 DEF Quiet, Of, OpenSessionsAccounted, Open
<1> QED BY <1>1, <1>2, <1>4, <1>5 DEF BrowserInv
----------------------------------------------------------------------------
(* A browser sends a request.                                              *)

\* The four requests a browser makes with the cookie, or for it.
Sending(r, b) ==
    \/ SendLogin(r, b) \/ SendRefresh(r, b) \/ SendLogout(r, b) \/ SendLogoutAll(r, b)

\* What the request and its tab are afterwards.
Sent(r, b) ==
    \/ /\ tab'[r].route = "login" /\ req'[r].pc \in {"login.issue", "login.failed"}
       /\ answer'[r] = None
    \/ /\ tab'[r].route = "refresh" /\ req'[r].pc \in RefreshAwaits
       /\ req'[r].token = cookie[b] /\ answer'[r] = None
    \/ /\ tab'[r].route = "logout" /\ req'[r].pc = "idle" /\ answer'[r] = "clear"
    \/ /\ tab'[r].route = "logoutAll" /\ req'[r].pc = "logoutAll"
       /\ req'[r].user = bearer[b] /\ answer'[r] = None

\* Each of them is a step of the service on one request, which takes the cookie
\* along and opens no session.
LEMMA SendingSends ==
  ASSUME BrowserInv, NEW r \in Requests, NEW b \in Browsers, Sending(r, b)
  PROVE  /\ TypeOK' /\ RememberedRows'
         /\ tab[r] = None /\ answer[r] = None /\ tab'[r] \in Tab
         /\ tab'[r].browser = b /\ tab'[r].held = cookie[b]
         /\ UNCHANGED <<refreshTokens, cookie, bearer, fate>>
         /\ \A s \in Requests \ {r} :
              tab'[s] = tab[s] /\ req'[s] = req[s] /\ answer'[s] = answer[s]
         /\ disturbed' = IF InFlight(b) THEN disturbed \cup {b}
                         ELSE IF At(r, "login.issue")' THEN disturbed \ {b} ELSE disturbed
         /\ answer' \in [Requests -> Maybe(Tokens) \cup {"clear"}]
         /\ tab' \in [Requests -> Maybe(Tab)]
         /\ Sent(r, b)
<1>0. /\ TypeOK /\ RememberedRows /\ Tabbed(r)
      /\ req \in [Requests -> Request] /\ tab \in [Requests -> Maybe(Tab)]
      /\ cookie \in [Browsers -> Maybe(Tokens)]
      /\ answer \in [Requests -> Maybe(Tokens) \cup {"clear"}]
  BY DEF BrowserInv, BrowserTypeOK, TypeOK
<1>1. PICK route \in Routes :
        /\ Sends(r, b, route)
        /\ \/ route = "login" /\ LoginLookup(r) /\ answer' = answer
           \/ /\ route = "refresh" /\ RefreshLookup(r) /\ req'[r].token = cookie[b]
              /\ answer' = answer
           \/ /\ route = "logout" /\ Calls(r, "logout") /\ UNCHANGED vars
              /\ answer' = [answer EXCEPT ![r] = "clear"]
           \/ /\ route = "logoutAll" /\ LogoutAllAuthorize(r) /\ req'[r].user = bearer[b]
              /\ answer' = answer
  BY DEF Sending, SendLogin, SendRefresh, SendLogout, SendLogoutAll, CookieAttached, Routes
<1>2. /\ tab[r] = None /\ answer[r] = None
      /\ tab'[r] = [browser |-> b, route |-> route, held |-> cookie[b]]
      /\ tab'[r] \in Tab
      /\ \A s \in Requests \ {r} : tab'[s] = tab[s]
      /\ tab' \in [Requests -> Maybe(Tab)]
  BY <1>0, <1>1 DEF Sends, Tabbed, Tab, Maybe
<1>3. /\ answer' \in [Requests -> Maybe(Tokens) \cup {"clear"}]
      /\ \A s \in Requests \ {r} : answer'[s] = answer[s]
      /\ answer'[r] = IF route = "logout" THEN "clear" ELSE None
  BY <1>0, <1>1, <1>2
<1>4. /\ TypeOK' /\ RememberedRows' /\ refreshTokens' = refreshTokens
      /\ \A s \in Requests \ {r} : req'[s] = req[s]
  <2>1. CASE UNCHANGED vars
    BY <1>0, <2>1 DEF vars, TypeOK, RememberedRows, OwnedTokens, Remembers
  <2>2. CASE LoginLookup(r) \/ RefreshLookup(r) \/ LogoutAllAuthorize(r)
    <3>1. Step(r) /\ refreshTokens' = refreshTokens
      BY <2>2 DEF Step, LoginLookup, RefreshLookup, LogoutAllAuthorize
    <3> QED BY <1>0, <3>1, StepType, StepRemembers, StepMoves
  <2> QED BY <1>1, <2>1, <2>2
<1>5. Sent(r, b)
  <2>1. CASE route = "login"
    <3>1. PICK u \in UserIds, pc \in {"login.issue", "login.failed"} :
            req' = [req EXCEPT ![r] = [NoRequest EXCEPT !.user = u, !.pc = pc]]
      BY <1>1, <2>1 DEF LoginLookup
    <3> QED BY <1>0, <1>2, <1>3, <2>1, <3>1 DEF Sent, NoRequest
  <2>2. CASE route = "refresh"
    BY <1>0, <1>1, <1>2, <1>3, <2>2, RefreshBegins DEF Sent, RefreshAwaits
  <2>3. CASE route = "logout"
    BY <1>1, <1>2, <1>3, <2>3 DEF Sent, Calls, At, vars
  <2>4. CASE route = "logoutAll"
    <3>1. PICK u \in UserIds :
            req' = [req EXCEPT ![r] = [NoRequest EXCEPT !.pc = "logoutAll", !.user = u]]
      BY <1>1, <2>4 DEF LogoutAllAuthorize
    <3>2. req'[r].pc = "logoutAll"
      BY <1>0, <3>1 DEF NoRequest
    <3> QED BY <1>1, <1>2, <1>3, <2>4, <3>2 DEF Sent
  <2> QED BY <2>1, <2>2, <2>3, <2>4 DEF Routes
<1> QED BY <1>1, <1>2, <1>3, <1>4, <1>5 DEF Sends

\* Hence it keeps the invariant.
LEMMA SendKeeps ==
  ASSUME BrowserInv, NEW r \in Requests, NEW b \in Browsers, Sending(r, b)
  PROVE  BrowserInv'
<1>0. /\ BrowserTypeOK /\ HeldInv /\ UnseenInv /\ OpenSessionsAccounted
      /\ refreshTokens' = refreshTokens /\ cookie' = cookie /\ bearer' = bearer /\ fate' = fate
      /\ \A s \in Requests : Tabbed(s)
      /\ tab[r] = None /\ answer[r] = None /\ tab'[r] # None
      /\ tab'[r].browser = b /\ tab'[r].held = cookie[b] /\ Sent(r, b)
      /\ \A s \in Requests \ {r} : tab'[s] = tab[s] /\ req'[s] = req[s] /\ answer'[s] = answer[s]
  BY SendingSends, BrowsersAssumption DEF BrowserInv
<1>1. BrowserTypeOK' /\ RememberedRows'
  <2>1. disturbed' \subseteq Browsers
    <3>1. disturbed' \in {disturbed, disturbed \cup {b}, disturbed \ {b}}
      BY SendingSends, Zenon
    <3>2. disturbed \subseteq Browsers
      BY <1>0 DEF BrowserTypeOK
    <3> QED BY <3>1, <3>2
  <2>2. TypeOK' /\ RememberedRows' /\ tab' \in [Requests -> Maybe(Tab)]
        /\ answer' \in [Requests -> Maybe(Tokens) \cup {"clear"}]
    BY SendingSends
  <2> QED BY <1>0, <2>1, <2>2 DEF BrowserTypeOK
<1>2. answer'[r] \in {None, "clear"} /\ answer'[r] \notin Tokens
  BY <1>0, NoneAssumption, BrowsersAssumption DEF Sent
<1>3. ASSUME NEW s \in Requests PROVE Tabbed(s)'
  <2>1. CASE s # r
    BY <1>0, <1>3, <2>1 DEF Tabbed
  <2>2. CASE s = r
    BY <1>0, <1>2, <2>2, BrowsersAssumption
    DEF Sent, Tabbed, HeldInv, LoginAwaits, RefreshAwaits
  <2> QED BY <2>1, <2>2
<1>4. HeldInv'
  BY <1>0, <1>2 DEF HeldInv, Issued
<1>5. UnseenInv'
  BY <1>0, <1>2 DEF UnseenInv
<1>6. ASSUME NEW c \in Browsers \ disturbed' PROVE Quiet(c)'
  <2>1. CASE c # b
    <3>1. Quiet(c)
      BY <1>6, <2>1, SendingSends DEF BrowserInv
    <3>2. \A s \in Requests : Of(c, s)' <=> Of(c, s)
      BY <1>0, <2>1 DEF Of
    <3> QED BY <1>0, <1>2, <3>1, <3>2 DEF Quiet, Of
  <2>2. CASE c = b
    <3>1. ~InFlight(b) /\ (b \in disturbed => req'[r].pc = "login.issue")
      BY <1>6, <2>2, SendingSends DEF At
    <3>2. \A s \in Requests : Of(b, s)' <=> s = r
      BY <1>0, <3>1 DEF Of, InFlight
    <3>3. b \notin disturbed => Quiet(b) /\ \A s \in Requests : ~Of(b, s)
      BY <3>1 DEF BrowserInv, Of, InFlight
    <3> QED BY <1>0, <1>2, <2>2, <3>1, <3>2, <3>3 DEF Quiet
  <2> QED BY <2>1, <2>2
<1>7. OpenSessionsAccounted'
  BY <1>0, NoneAssumption DEF OpenSessionsAccounted, Open, Issued
<1> QED BY <1>1, <1>3, <1>4, <1>5, <1>6, <1>7 DEF BrowserInv
----------------------------------------------------------------------------
(* The service works on a request.                                         *)

\* It awaits something else, ...
WorksOn(r) ==
    /\ \/ req[r].pc = "login.failed" /\ req'[r].pc = "login.lock"
       \/ req[r].pc = "refresh.user" /\ req'[r].pc = "refresh.rotate"
    /\ req'[r].token = req[r].token /\ tab'[r] = tab[r] /\ answer'[r] = None
    /\ \A t \in Tokens : ~Opens(t)

\* ... or answers with a new token, ...
AnswersWith(r, new) ==
    /\ req[r].pc \in {"login.issue", "refresh.rotate"} /\ req'[r].pc = "idle"
    /\ tab'[r] = tab[r] /\ answer'[r] = new /\ Opens(new)
    /\ refreshTokens'[new].user # None /\ refreshTokens'[new].state = "valid"
    /\ \A t \in Tokens : Opens(t) => t = new

\* ... or with an order to clear the cookie, ...
AnswersClear(r) ==
    /\ req[r].pc = "logoutAll" /\ req'[r].pc = "idle"
    /\ tab'[r] = tab[r] /\ answer'[r] = "clear"
    /\ \A t \in Tokens : ~Opens(t)

\* ... or with an error.
AnswersError(r) ==
    /\ req[r].pc \in {"login.failed", "login.lock", "refresh.reuse", "refresh.expired",
                      "refresh.user"}
    /\ req'[r].pc = "idle" /\ tab'[r] = None /\ answer'[r] = None
    /\ \A t \in Tokens : ~Opens(t)

\* A step of the service on a request of a browser is one of the four.
Served(r) ==
    \/ WorksOn(r) \/ (\E new \in Tokens : AnswersWith(r, new))
    \/ AnswersClear(r) \/ AnswersError(r)

\* The service is done with a request.
LEMMA ServingEnds ==
  ASSUME BrowserInv, NEW r \in Requests, Serve(r), Ends(r)
  PROVE  (\E new \in Tokens : AnswersWith(r, new)) \/ AnswersClear(r) \/ AnswersError(r)
<1>0. /\ TypeOK /\ RememberedRows /\ Tabbed(r) /\ Step(r) /\ req[r].pc # "idle"
      /\ req'[r].pc = "idle"
      /\ tab \in [Requests -> Maybe(Tab)]
      /\ answer \in [Requests -> Maybe(Tokens) \cup {"clear"}]
  <2>1. req'[r].pc = "idle"
    BY DEF Ends, NoRequest
  <2> QED BY <2>1 DEF BrowserInv, BrowserTypeOK, Serve, At
<1>1. /\ answer' = [answer EXCEPT ![r] = AnswerOf(r)]
      /\ tab' = IF AnswerOf(r) = None THEN [tab EXCEPT ![r] = None] ELSE tab
  BY <1>0 DEF Serve, At
<1>2. answer'[r] = AnswerOf(r) /\ tab'[r] = IF AnswerOf(r) = None THEN None ELSE tab[r]
  BY <1>0, <1>1
<1>3. IssuedNow = {t \in Tokens : Opens(t)}
  BY DEF IssuedNow, Opens
<1>4. CASE req[r].pc \in {"login.issue", "refresh.rotate"}
  <2>1. tab[r].route \in {"login", "refresh"}
    BY <1>0, <1>4 DEF Tabbed, LoginAwaits, RefreshAwaits
  <2>2. PICK new \in Tokens : Opens(new)
    BY <1>0, <1>4, TokenMoves DEF Opening
  <2>3. \A t \in Tokens : Opens(t) => t = new
    BY <1>0, <2>2, TokenMoves
  <2>4. IssuedNow = {new}
    BY <1>3, <2>2, <2>3
  <2>5. AnswerOf(r) = new
    <3>1. (CHOOSE t \in IssuedNow : TRUE) = new
      BY <2>4
    <3>2. AnswerOf(r) = CHOOSE t \in IssuedNow : TRUE
      BY <2>1, <2>4 DEF AnswerOf, SetsCookie, ClearsCookie
    <3> QED BY <3>1, <3>2
  <2>6. refreshTokens'[new].user # None /\ refreshTokens'[new].state = "valid"
    <3>1. refreshTokens'[new] = NewSession(req[r].user) /\ req[r].user \in UserIds
      BY <1>0, <2>2, TokenMoves
    <3> QED BY <3>1, NoneAssumption DEF NewSession
  <2> QED BY <1>0, <1>2, <1>4, <2>2, <2>3, <2>5, <2>6, NoneAssumption DEF AnswersWith
<1>5. CASE req[r].pc \notin {"login.issue", "refresh.rotate"}
  <2>1. /\ \A t \in Tokens : ~Opens(t)
        /\ req[r].pc = "logoutAll" \/ req[r].pc \in {"login.failed", "login.lock",
             "refresh.reuse", "refresh.expired", "refresh.user"}
    BY <1>0, <1>5, TokenMoves DEF Opening, Tabbed, LoginAwaits, RefreshAwaits
  <2>2. IssuedNow = {}
    BY <1>3, <2>1
  <2>3. CASE req[r].pc = "logoutAll"
    <3>1. AnswerOf(r) = "clear"
      BY <1>0, <2>3 DEF Tabbed, AnswerOf, ClearsCookie
    <3> QED BY <1>0, <1>2, <2>1, <2>3, <3>1, BrowsersAssumption DEF AnswersClear
  <2>4. CASE req[r].pc # "logoutAll"
    <3>1. tab[r].route \in {"login", "refresh"}
      BY <1>0, <2>1, <2>4 DEF Tabbed, LoginAwaits, RefreshAwaits
    <3>2. AnswerOf(r) = None
      BY <2>2, <3>1 DEF AnswerOf, ClearsCookie
    <3> QED BY <1>0, <1>2, <2>1, <2>4, <3>2 DEF AnswersError
  <2> QED BY <2>3, <2>4
<1> QED BY <1>4, <1>5

\* The service works on a request: one of the four, no cookie changes, and only
\* the tokens it opens or closes.
LEMMA Serving ==
  ASSUME BrowserInv, NEW r \in Requests, Serve(r)
  PROVE  /\ TypeOK' /\ RememberedRows' /\ tab[r] \in Tab /\ answer[r] = None
         /\ cookie' = cookie /\ bearer' = bearer
         /\ \A s \in Requests \ {r} :
              tab'[s] = tab[s] /\ req'[s] = req[s] /\ answer'[s] = answer[s]
         /\ answer' \in [Requests -> Maybe(Tokens) \cup {"clear"}]
         /\ tab' \in [Requests -> Maybe(Tab)]
         /\ \A t \in Tokens : Issued(t) =>
              /\ refreshTokens'[t].user = refreshTokens[t].user
              /\ refreshTokens'[t].state =
                   IF Closes(r, t) THEN "revoked" ELSE refreshTokens[t].state
         /\ Served(r)
<1>0. /\ TypeOK /\ RememberedRows /\ Tabbed(r) /\ Step(r) /\ req[r].pc # "idle"
      /\ tab \in [Requests -> Maybe(Tab)]
      /\ answer \in [Requests -> Maybe(Tokens) \cup {"clear"}]
  BY DEF BrowserInv, BrowserTypeOK, Serve, At
<1>1. TypeOK' /\ RememberedRows' /\ \A s \in Requests \ {r} : req'[s] = req[s]
  BY <1>0, StepType, StepRemembers, StepMoves
<1>2. tab[r] \in Tab /\ answer[r] = None
  BY <1>0 DEF Tabbed, Maybe
<1>3. \A t \in Tokens : Issued(t) =>
        /\ refreshTokens'[t].user = refreshTokens[t].user
        /\ refreshTokens'[t].state =
             IF Closes(r, t) THEN "revoked" ELSE refreshTokens[t].state
  BY <1>0, TokenMoves DEF Opens
<1>4. /\ answer' \in {answer, [answer EXCEPT ![r] = AnswerOf(r)]}
      /\ tab' \in {tab, [tab EXCEPT ![r] = None]}
      /\ cookie' = cookie /\ bearer' = bearer
  BY DEF Serve
<1>5. Served(r)
  <2>1. CASE Ends(r)
    BY <2>1, ServingEnds DEF Served
  <2>2. CASE GoesOn(r)
    <3>1. \/ req[r].pc = "login.failed" /\ req'[r].pc = "login.lock"
          \/ req[r].pc = "refresh.user" /\ req'[r].pc = "refresh.rotate"
      BY <1>0, <2>2 DEF GoesOn, Tabbed, LoginAwaits, RefreshAwaits
    <3>2. answer' = answer /\ tab' = tab
      BY <3>1 DEF Serve, At
    <3>3. \A t \in Tokens : ~Opens(t)
      BY <1>0, <3>1, TokenMoves DEF Opening
    <3> QED BY <1>2, <2>2, <3>1, <3>2, <3>3 DEF GoesOn, Served, WorksOn
  <2> QED BY <1>0, <2>1, <2>2, StepMoves DEF Begins, Register, Calls, At
<1>6. answer'[r] \in Maybe(Tokens) \cup {"clear"}
  BY <1>5 DEF Served, WorksOn, AnswersWith, AnswersClear, AnswersError, Maybe
<1>7. /\ answer' \in [Requests -> Maybe(Tokens) \cup {"clear"}]
      /\ tab' \in [Requests -> Maybe(Tab)]
      /\ \A s \in Requests \ {r} : tab'[s] = tab[s] /\ answer'[s] = answer[s]
  BY <1>0, <1>4, <1>6 DEF Maybe
<1> QED BY <1>1, <1>2, <1>3, <1>4, <1>5, <1>7

\* Hence it keeps the invariant.
LEMMA ServeKeeps ==
  ASSUME BrowserInv, NEW r \in Requests, Serve(r)
  PROVE  BrowserInv'
<1>0. /\ BrowserTypeOK /\ HeldInv /\ UnseenInv /\ OpenSessionsAccounted
      /\ cookie' = cookie /\ bearer' = bearer /\ Remembers(req[r])
      /\ \A s \in Requests : Tabbed(s)
      /\ tab[r] \in Tab /\ tab[r] # None /\ answer[r] = None /\ Served(r)
      /\ req[r].pc # "idle"
      /\ \A s \in Requests \ {r} : tab'[s] = tab[s] /\ req'[s] = req[s] /\ answer'[s] = answer[s]
  BY Serving, BrowsersAssumption DEF BrowserInv, Serve, At, RememberedRows
<1>1. /\ \A t \in Tokens : Issued(t) =>
           /\ Issued(t)' /\ refreshTokens'[t].user = refreshTokens[t].user
           /\ refreshTokens[t].state = "revoked" => refreshTokens'[t].state = "revoked"
           /\ Closes(r, t) => refreshTokens'[t].state = "revoked"
           /\ ~Closes(r, t) => refreshTokens'[t].state = refreshTokens[t].state
      /\ disturbed \subseteq disturbed' /\ Swept(r) \subseteq disturbed'
      /\ Refused(r) \subseteq disturbed'
      /\ \A t \in Tokens : fate'[t] = IF Open(t)' THEN fate[t] ELSE "kept"
  BY Serving DEF Issued, Serve
<1>2. /\ cookie \in [Browsers -> Maybe(Tokens)] /\ bearer \in [Browsers -> Maybe(UserIds)]
      /\ answer \in [Requests -> Maybe(Tokens) \cup {"clear"}]
      /\ \A s \in Requests : tab[s] # None =>
           tab[s].held \in Maybe(Tokens) /\ tab[s].browser \in Browsers
      /\ \A s \in Requests : tab'[s] # None => tab'[s] = tab[s]
      /\ \A s \in Requests : tab'[s] # None => tab[s] # None
  BY <1>0 DEF BrowserTypeOK, Maybe, Tab, Served, WorksOn, AnswersWith, AnswersClear,
              AnswersError
<1>3. BrowserTypeOK' /\ RememberedRows'
  <2>1. disturbed' \subseteq Browsers
    BY <1>0, <1>2 DEF Serve, Swept, Refused, BrowserTypeOK
  <2>2. fate' \in [Tokens -> {"kept", "dropped", "logged out"}]
    BY <1>0 DEF Serve, BrowserTypeOK
  <2>3. TypeOK' /\ RememberedRows' /\ tab' \in [Requests -> Maybe(Tab)]
        /\ answer' \in [Requests -> Maybe(Tokens) \cup {"clear"}]
    BY Serving
  <2> QED BY <1>0, <2>1, <2>2, <2>3 DEF BrowserTypeOK
<1>4. ASSUME NEW s \in Requests PROVE Tabbed(s)'
  <2>0. tab[s] # None /\ tab[s].held # None => tab[s].held \in Tokens /\ Issued(tab[s].held)
    BY <1>0, <1>2 DEF HeldInv, Maybe
  <2>1. CASE s # r
    <3>1. tab[s] # None /\ tab[s].held # None =>
            /\ refreshTokens'[tab[s].held].user = refreshTokens[tab[s].held].user
            /\ refreshTokens[tab[s].held].state = "revoked"
                 => refreshTokens'[tab[s].held].state = "revoked"
      BY <1>1, <2>0
    <3>2. tab'[s] = tab[s] /\ req'[s] = req[s] /\ answer'[s] = answer[s] /\ Tabbed(s)
      BY <1>0, <1>4, <2>1
    <3> QED BY <3>1, <3>2, BrowsersAssumption, NoneAssumption DEF Tabbed
  <2>2. CASE s = r /\ WorksOn(r)
    BY <1>0, <2>2, BrowsersAssumption, NoneAssumption
    DEF Tabbed, WorksOn, LoginAwaits, RefreshAwaits
  <2>3. CASE s = r /\ \E new \in Tokens : AnswersWith(r, new)
    <3>1. PICK new \in Tokens : AnswersWith(r, new)
      BY <2>3
    <3>2. CASE req[r].pc = "login.issue"
      BY <1>0, <2>3, <3>1, <3>2, BrowsersAssumption, NoneAssumption
      DEF Tabbed, AnswersWith, LoginAwaits, RefreshAwaits
    <3>3. CASE req[r].pc = "refresh.rotate"
      <4>1. /\ tab[r].held \in Tokens /\ Closes(r, tab[r].held) /\ tab[r].route = "refresh"
            /\ tab[r].held # None
        BY <1>0, <3>3, NoneAssumption
        DEF Tabbed, RefreshAwaits, Remembers, Closes, Closing
      <4>2. refreshTokens'[tab[r].held].state = "revoked"
        BY <1>0, <1>1, <2>0, <2>3, <4>1
      <4> QED BY <1>0, <2>3, <3>1, <4>1, <4>2, BrowsersAssumption, NoneAssumption
              DEF Tabbed, AnswersWith, LoginAwaits, RefreshAwaits
    <3> QED BY <3>1, <3>2, <3>3 DEF AnswersWith
  <2>4. CASE s = r /\ AnswersClear(r)
    <3>1. tab[r].route = "logoutAll"
          /\ (tab[r].held # None => Closes(r, tab[r].held))
      BY <1>0, <2>4 DEF Tabbed, AnswersClear, Closes, Sweeping
    <3>2. tab[r].held # None => refreshTokens'[tab[r].held].state = "revoked"
      BY <1>0, <1>1, <2>0, <2>4, <3>1
    <3> QED BY <1>0, <2>4, <3>1, <3>2, BrowsersAssumption
            DEF Tabbed, AnswersClear, LoginAwaits, RefreshAwaits
  <2>5. CASE s = r /\ AnswersError(r)
    BY <1>0, <2>5, BrowsersAssumption, NoneAssumption
    DEF Tabbed, AnswersError, LoginAwaits, RefreshAwaits
  <2> QED BY <1>0, <2>1, <2>2, <2>3, <2>4, <2>5 DEF Served
<1>5. ASSUME NEW s \in Requests, answer'[s] \in Tokens
      PROVE  \/ answer'[s] = answer[s]
             \/ s = r /\ AnswersWith(r, answer'[r])
  BY <1>0, <1>5, NoneAssumption, BrowsersAssumption
  DEF Served, WorksOn, AnswersWith, AnswersClear, AnswersError
<1>6. HeldInv'
  <2>1. \A b \in Browsers : cookie'[b] # None =>
          /\ refreshTokens'[cookie'[b]].user # None
          /\ refreshTokens'[cookie'[b]].user = bearer'[b]
    BY <1>0, <1>1, <1>2 DEF HeldInv, Maybe, Issued
  <2>2. \A s \in Requests : tab'[s] # None /\ tab'[s].held # None =>
          refreshTokens'[tab'[s].held].user # None
    BY <1>0, <1>1, <1>2 DEF HeldInv, Maybe, Issued
  <2>3. \A s \in Requests : answer'[s] \in Tokens => refreshTokens'[answer'[s]].user # None
    BY <1>0, <1>1, <1>5 DEF HeldInv, AnswersWith, Issued
  <2> QED BY <2>1, <2>2, <2>3 DEF HeldInv, Issued
<1>7. UnseenInv'
  <2>1. ASSUME NEW n, AnswersWith(r, n), n \in Tokens
        PROVE  /\ \A b \in Browsers : cookie[b] # n
               /\ \A s \in Requests : answer[s] # n /\ (tab[s] # None => tab[s].held # n)
    BY <1>0, <2>1, NoneAssumption DEF HeldInv, AnswersWith, Opens
  <2>2. ASSUME NEW q \in Requests, answer'[q] \in Tokens
        PROVE  /\ \A b \in Browsers : cookie'[b] # answer'[q]
               /\ \A s \in Requests : /\ answer'[s] = answer'[q] => s = q
                                      /\ tab'[s] # None => tab'[s].held # answer'[q]
    <3>1. CASE answer'[q] = answer[q]
      BY <1>0, <1>2, <1>5, <2>1, <2>2, <3>1 DEF UnseenInv
    <3>2. CASE q = r /\ AnswersWith(r, answer'[r])
      BY <1>0, <1>2, <2>1, <2>2, <3>2
    <3> QED BY <1>5, <2>2, <3>1, <3>2
  <2>3. \A b, c \in Browsers : cookie'[b] = cookie'[c] /\ cookie'[b] # None => b = c
    BY <1>0 DEF UnseenInv
  <2>4. \A s \in Requests, b \in Browsers :
          tab'[s] # None /\ tab'[s].held = cookie'[b] /\ cookie'[b] # None => tab'[s].browser = b
    BY <1>0, <1>2 DEF UnseenInv
  <2> QED BY <2>2, <2>3, <2>4 DEF UnseenInv
<1>8. ASSUME NEW b \in Browsers \ disturbed' PROVE Quiet(b)'
  <2>0. Quiet(b) /\ b \notin Swept(r) /\ b \notin Refused(r)
    BY <1>1, <1>8 DEF BrowserInv
  <2>1. \A s \in Requests : Of(b, s)' => Of(b, s)
    BY <1>2 DEF Of
  <2>2. ASSUME NEW s \in Requests, Of(b, s), NEW t \in Tokens, Issued(t), Closes(r, t)
        PROVE  /\ req[r].pc \in Closing /\ t = req[r].token
               /\ req[r].pc = "refresh.rotate" \/ ~Of(b, r)
    <3>1. req[r].pc \notin Sweeping
      BY <1>0, <2>0, <2>2 DEF Swept, InFlight, Of, Tabbed, Sweeping, LoginAwaits, RefreshAwaits
    <3>2. req[r].pc # "refresh.expired" \/ ~Of(b, r)
      BY <1>0, <2>0 DEF Refused, At, Of
    <3> QED BY <1>0, <2>2, <3>1, <3>2 DEF Closes, Closing, Tabbed, LoginAwaits, RefreshAwaits
  <2>3. ASSUME NEW s \in Requests, Of(b, s)', answer'[s] \in Tokens
        PROVE  refreshTokens'[answer'[s]].state # "revoked"
    <3>1. CASE s = r /\ AnswersWith(r, answer'[r])
      BY <3>1 DEF AnswersWith
    <3>2. CASE answer'[s] = answer[s]
      <4>1. /\ refreshTokens[answer[s]].state # "revoked" /\ Issued(answer[s])
            /\ answer[s] # req[r].token \/ req[r].pc \notin Closing
        BY <1>0, <2>0, <2>1, <2>3, <3>2
        DEF Quiet, HeldInv, UnseenInv, Tabbed, RefreshAwaits, Closing, LoginAwaits
      <4>2. ~Closes(r, answer[s])
        BY <2>1, <2>2, <2>3, <3>2, <4>1
      <4> QED BY <1>1, <2>3, <3>2, <4>1, <4>2
    <3> QED BY <1>5, <2>3, <3>1, <3>2
  <2>4. ASSUME cookie[b] # None, refreshTokens'[cookie[b]].state = "revoked"
        PROVE  \E s \in Requests :
                 Of(b, s)' /\ (req'[s].pc = "login.issue" \/ answer'[s] \in Tokens)
    <3>0. cookie[b] \in Tokens /\ Issued(cookie[b])
          /\ refreshTokens[cookie[b]].user = bearer[b]
      BY <1>0, <1>2, <2>4 DEF HeldInv, Maybe
    <3>1. CASE refreshTokens[cookie[b]].state = "revoked"
      <4>1. PICK s \in Requests : Of(b, s) /\ (req[s].pc = "login.issue" \/ answer[s] \in Tokens)
        BY <2>0, <2>4, <3>1 DEF Quiet
      <4>2. CASE s # r
        BY <1>0, <4>1, <4>2 DEF Of
      <4>3. CASE s = r
        <5>1. \E new \in Tokens : AnswersWith(r, new)
          BY <1>0, <4>1, <4>3, NoneAssumption DEF Served, WorksOn, AnswersClear, AnswersError
        <5> QED BY <4>1, <4>3, <5>1 DEF AnswersWith, Of
      <4> QED BY <4>2, <4>3
    <3>2. CASE refreshTokens[cookie[b]].state # "revoked"
      <4>1. Closes(r, cookie[b])
        BY <1>1, <2>4, <3>0, <3>2
      <4>2. req[r].pc \notin Sweeping
        BY <1>0, <2>0, <3>0, <4>1 DEF Swept, Closes, Closing, Tabbed, Sweeping,
                                      LoginAwaits, RefreshAwaits
      <4>3. Of(b, r)
        BY <1>0, <2>4, <4>1, <4>2
        DEF Closes, Closing, Tabbed, LoginAwaits, RefreshAwaits, UnseenInv, Of
      <4>4. req[r].pc = "refresh.rotate"
        BY <2>2, <3>0, <4>1, <4>3, <1>0
        DEF Closing, Tabbed, LoginAwaits, RefreshAwaits, Refused, At, Of
      <4>5. \E new \in Tokens : AnswersWith(r, new)
        BY <1>0, <4>4 DEF Served, WorksOn, AnswersClear, AnswersError
      <4> QED BY <4>3, <4>5 DEF AnswersWith, Of
    <3> QED BY <3>1, <3>2
  <2> QED BY <1>0, <2>0, <2>1, <2>3, <2>4 DEF Quiet
<1>9. OpenSessionsAccounted'
  <2> SUFFICES ASSUME NEW t \in Tokens, Open(t)'
               PROVE  \/ \E b \in Browsers : cookie[b] = t
                      \/ \E s \in Requests : answer'[s] = t
                      \/ fate'[t] # "kept"
    BY <1>0 DEF OpenSessionsAccounted
  <2>1. CASE Opens(t)
    BY <1>0, <2>1 DEF Served, WorksOn, AnswersWith, AnswersClear, AnswersError
  <2>2. CASE ~Opens(t)
    <3>1. Open(t) /\ fate'[t] = fate[t]
      BY <1>1, <2>2 DEF Opens, Open, Issued
    <3> QED BY <1>0, <3>1, NoneAssumption DEF OpenSessionsAccounted
  <2> QED BY <2>1, <2>2
<1> QED BY <1>3, <1>4, <1>6, <1>7, <1>8, <1>9 DEF BrowserInv
----------------------------------------------------------------------------
(* The replica dies; an answer arrives, or is lost; time passes.           *)

\* A request dies with its replica, and with the answer it would have had.
LEMMA AbortKeeps ==
  ASSUME BrowserInv, NEW r \in Requests, ServiceAborts(r)
  PROVE  BrowserInv'
<1>0. /\ BrowserTypeOK /\ HeldInv /\ UnseenInv /\ OpenSessionsAccounted
      /\ Abort(r) /\ TypeOK /\ RememberedRows
      /\ \A s \in Requests : Tabbed(s)
      /\ tab \in [Requests -> Maybe(Tab)]
  BY DEF BrowserInv, ServiceAborts, BrowserTypeOK
<1>1. /\ refreshTokens' = refreshTokens /\ cookie' = cookie /\ bearer' = bearer
      /\ answer' = answer /\ fate' = fate /\ tab' = [tab EXCEPT ![r] = None]
      /\ disturbed' = IF tab[r].route = "login"
                      THEN disturbed \cup {tab[r].browser} ELSE disturbed
      /\ req[r].pc # "idle"
  BY <1>0 DEF ServiceAborts, Abort, At
<1>2. /\ req'[r].pc = "idle" /\ tab'[r] = None /\ answer[r] = None /\ tab[r] # None
      /\ \A s \in Requests \ {r} : req'[s] = req[s] /\ tab'[s] = tab[s]
      /\ tab[r] \in Tab
  BY <1>0, <1>1, Responded, BrowsersAssumption DEF Abort, Tabbed, Maybe
<1>3. BrowserTypeOK' /\ RememberedRows'
  <2>1. disturbed' \subseteq Browsers
    BY <1>0, <1>1, <1>2 DEF BrowserTypeOK, Tab
  <2>2. TypeOK' /\ RememberedRows'
    BY <1>0, AbortInvariant
  <2> QED BY <1>0, <1>1, <2>1, <2>2 DEF BrowserTypeOK, Maybe
<1>4. ASSUME NEW s \in Requests PROVE Tabbed(s)'
  BY <1>0, <1>1, <1>2, NoneAssumption, BrowsersAssumption
  DEF Tabbed, LoginAwaits, RefreshAwaits
<1>5. HeldInv' /\ UnseenInv'
  BY <1>0, <1>1, <1>2 DEF HeldInv, UnseenInv, Issued
<1>6. ASSUME NEW b \in Browsers \ disturbed' PROVE Quiet(b)'
  <2>1. Quiet(b) /\ \A s \in Requests : Of(b, s)' <=> s # r /\ Of(b, s)
    BY <1>1, <1>2, <1>6 DEF BrowserInv, Of
  <2>2. Of(b, r) => req[r].pc # "login.issue"
    BY <1>0, <1>1, <1>6 DEF Of, Tabbed, LoginAwaits
  <2> QED BY <1>1, <1>2, <2>1, <2>2, NoneAssumption DEF Quiet
<1>7. OpenSessionsAccounted'
  BY <1>0, <1>1 DEF OpenSessionsAccounted, Open, Issued
<1> QED BY <1>3, <1>4, <1>5, <1>6, <1>7 DEF BrowserInv

\* An answer is gone once it has arrived or is lost: what that leaves behind.
LEMMA Answered ==
  ASSUME BrowserInv, NEW r \in Requests, answer[r] # None,
         answer' = [answer EXCEPT ![r] = None], tab' = [tab EXCEPT ![r] = None],
         UNCHANGED vars
  PROVE  /\ TypeOK' /\ RememberedRows' /\ tab[r] \in Tab
         /\ answer[r] \in Tokens \/ answer[r] = "clear"
         /\ answer' \in [Requests -> Maybe(Tokens) \cup {"clear"}]
         /\ tab' \in [Requests -> Maybe(Tab)]
         /\ answer'[r] = None /\ tab'[r] = None
         /\ \A s \in Requests \ {r} : answer'[s] = answer[s] /\ tab'[s] = tab[s]
         /\ \A s \in Requests : Tabbed(s)'
<1>0. /\ TypeOK /\ RememberedRows /\ \A s \in Requests : Tabbed(s)
      /\ tab \in [Requests -> Maybe(Tab)]
      /\ answer \in [Requests -> Maybe(Tokens) \cup {"clear"}]
  BY DEF BrowserInv, BrowserTypeOK
<1>1. TypeOK' /\ RememberedRows' /\ req' = req /\ refreshTokens' = refreshTokens
  BY <1>0 DEF vars, TypeOK, RememberedRows, OwnedTokens, Remembers
<1>2. /\ answer[r] \in Tokens \/ answer[r] = "clear"
      /\ tab[r] \in Tab /\ req[r].pc = "idle"
  BY <1>0 DEF Tabbed, Maybe
<1>3. /\ answer' \in [Requests -> Maybe(Tokens) \cup {"clear"}]
      /\ tab' \in [Requests -> Maybe(Tab)]
      /\ answer'[r] = None /\ tab'[r] = None
      /\ \A s \in Requests \ {r} : answer'[s] = answer[s] /\ tab'[s] = tab[s]
  BY <1>0 DEF Maybe
<1>4. ASSUME NEW s \in Requests PROVE Tabbed(s)'
  BY <1>0, <1>1, <1>2, <1>3, <1>4, NoneAssumption, BrowsersAssumption
  DEF Tabbed, LoginAwaits, RefreshAwaits
<1> QED BY <1>1, <1>2, <1>3, <1>4

\* What becomes of a session says so only of that session, while it is open.
LEMMA Leaving ==
  ASSUME BrowserTypeOK, NEW t, NEW how \in {"kept", "dropped", "logged out"},
         fate' = Leaves(t, how)
  PROVE  /\ fate' \in [Tokens -> {"kept", "dropped", "logged out"}]
         /\ \A s \in Tokens : s # t => fate'[s] = fate[s]
         /\ t \in Tokens /\ Open(t) => fate'[t] = how
  BY DEF BrowserTypeOK, Leaves

\* The answer is lost: its session is dropped, its browser disturbed.
LEMMA LoseKeeps ==
  ASSUME BrowserInv, NEW r \in Requests, Lose(r)
  PROVE  BrowserInv'
<1>0. /\ BrowserTypeOK /\ HeldInv /\ UnseenInv /\ OpenSessionsAccounted
      /\ answer[r] # None /\ UNCHANGED vars /\ UNCHANGED <<cookie, bearer>>
      /\ req' = req /\ refreshTokens' = refreshTokens
      /\ disturbed' = disturbed \cup {tab[r].browser}
  BY DEF BrowserInv, Lose, vars
<1>1. /\ TypeOK' /\ RememberedRows' /\ tab[r] \in Tab
      /\ answer'[r] = None /\ tab'[r] = None
      /\ \A s \in Requests \ {r} : answer'[s] = answer[s] /\ tab'[s] = tab[s]
      /\ \A s \in Requests : Tabbed(s)'
      /\ answer' \in [Requests -> Maybe(Tokens) \cup {"clear"}]
      /\ tab' \in [Requests -> Maybe(Tab)]
  BY <1>0, Answered DEF Lose
<1>2. /\ fate' \in [Tokens -> {"kept", "dropped", "logged out"}]
      /\ \A s \in Tokens : s # answer[r] => fate'[s] = fate[s]
      /\ answer[r] \in Tokens /\ Open(answer[r]) => fate'[answer[r]] = "dropped"
  BY <1>0, Leaving DEF Lose
<1>3. BrowserTypeOK'
  <2>1. disturbed' \subseteq Browsers
    BY <1>0, <1>1 DEF BrowserTypeOK, Tab
  <2> QED BY <1>0, <1>1, <1>2, <2>1 DEF BrowserTypeOK
<1>4. HeldInv' /\ UnseenInv'
  BY <1>0, <1>1, NoneAssumption DEF HeldInv, UnseenInv, Issued
<1>5. ASSUME NEW b \in Browsers \ disturbed' PROVE Quiet(b)'
  <2>1. Quiet(b) /\ \A s \in Requests : Of(b, s)' <=> Of(b, s)
    BY <1>0, <1>1, <1>5 DEF BrowserInv, Of
  <2>2. ~Of(b, r)
    BY <1>0, <1>5 DEF Of
  <2> QED BY <1>0, <1>1, <2>1, <2>2 DEF Quiet
<1>6. OpenSessionsAccounted'
  <2> SUFFICES ASSUME NEW t \in Tokens, Open(t)
               PROVE  \/ \E b \in Browsers : cookie[b] = t
                      \/ \E s \in Requests : answer'[s] = t
                      \/ fate'[t] # "kept"
    BY <1>0 DEF OpenSessionsAccounted, Open, Issued
  <2>1. CASE answer[r] = t
    BY <1>2, <2>1
  <2>2. CASE answer[r] # t
    <3>1. \/ \E b \in Browsers : cookie[b] = t
          \/ \E s \in Requests : answer[s] = t
          \/ fate[t] # "kept"
      BY <1>0 DEF OpenSessionsAccounted
    <3> QED BY <1>1, <1>2, <2>2, <3>1
  <2> QED BY <2>1, <2>2
<1> QED BY <1>1, <1>3, <1>4, <1>5, <1>6 DEF BrowserInv

\* The answer arrives: its token replaces the cookie, or clears it.
LEMMA DeliverKeeps ==
  ASSUME BrowserInv, NEW r \in Requests, Deliver(r)
  PROVE  BrowserInv'
<1> DEFINE b == tab[r].browser
<1>0. /\ BrowserTypeOK /\ HeldInv /\ UnseenInv /\ OpenSessionsAccounted /\ Tabbed(r)
      /\ answer[r] # None /\ UNCHANGED vars /\ disturbed' = disturbed
      /\ req' = req /\ refreshTokens' = refreshTokens
      /\ cookie' = [cookie EXCEPT ![b] = IF answer[r] = "clear" THEN None ELSE answer[r]]
      /\ bearer' = IF answer[r] = "clear" THEN bearer
                   ELSE [bearer EXCEPT ![b] = refreshTokens[answer[r]].user]
      /\ fate' = Leaves(cookie[b], Left(r, b))
  BY DEF BrowserInv, Deliver, vars
<1>1. /\ TypeOK' /\ RememberedRows' /\ tab[r] \in Tab /\ tab[r] # None
      /\ answer[r] \in Tokens \/ answer[r] = "clear"
      /\ answer'[r] = None /\ tab'[r] = None
      /\ \A s \in Requests \ {r} : answer'[s] = answer[s] /\ tab'[s] = tab[s]
      /\ \A s \in Requests : Tabbed(s)'
      /\ answer' \in [Requests -> Maybe(Tokens) \cup {"clear"}]
      /\ tab' \in [Requests -> Maybe(Tab)]
  BY <1>0, Answered, BrowsersAssumption DEF Deliver
<1>2. /\ fate' \in [Tokens -> {"kept", "dropped", "logged out"}]
      /\ \A s \in Tokens : s # cookie[b] => fate'[s] = fate[s]
      /\ cookie[b] \in Tokens /\ Open(cookie[b]) => fate'[cookie[b]] = Left(r, b)
  <2>1. Left(r, b) \in {"kept", "dropped", "logged out"}
    BY DEF Left
  <2> HIDE DEF b
  <2>2. fate' = Leaves(cookie[b], Left(r, b))
    BY <1>0
  <2> QED BY <1>0, <2>1, <2>2, Leaving, Zenon
<1>3. /\ b \in Browsers
      /\ cookie' \in [Browsers -> Maybe(Tokens)] /\ bearer' \in [Browsers -> Maybe(UserIds)]
      /\ \A c \in Browsers \ {b} : cookie'[c] = cookie[c] /\ bearer'[c] = bearer[c]
      /\ answer[r] = "clear" => cookie'[b] = None
      /\ answer[r] \in Tokens =>
           cookie'[b] = answer[r] /\ bearer'[b] = refreshTokens[answer[r]].user
  <2>1. b \in Browsers
    BY <1>1 DEF Tab
  <2>2. answer[r] \in Tokens => refreshTokens[answer[r]].user \in Maybe(UserIds)
    BY <1>0 DEF BrowserTypeOK, TypeOK, TokenRow
  <2>3. cookie \in [Browsers -> Maybe(Tokens)] /\ bearer \in [Browsers -> Maybe(UserIds)]
    BY <1>0 DEF BrowserTypeOK
  <2> HIDE DEF b
  <2> QED BY <1>0, <1>1, <2>1, <2>2, <2>3, BrowsersAssumption DEF Maybe
<1> HIDE DEF b
<1>4. BrowserTypeOK'
  BY <1>0, <1>1, <1>2, <1>3 DEF BrowserTypeOK
<1>5. HeldInv'
  BY <1>0, <1>1, <1>3, NoneAssumption DEF HeldInv, Issued
<1>6. UnseenInv'
  BY <1>0, <1>1, <1>3, NoneAssumption DEF UnseenInv
<1>7. ASSUME NEW c \in Browsers \ disturbed' PROVE Quiet(c)'
  <2>1. Quiet(c) /\ \A s \in Requests : Of(c, s)' <=> s # r /\ Of(c, s)
    BY <1>0, <1>1, <1>7 DEF BrowserInv, Of
  <2>2. CASE c = b
    <3>1. Of(c, r)
      BY <1>1, <2>2 DEF Of, b
    <3>2. \A s \in Requests : ~Of(c, s)'
      BY <2>1, <3>1 DEF Quiet
    <3> QED BY <1>0, <1>1, <1>3, <2>1, <2>2, <3>1, <3>2 DEF Quiet
  <2>3. CASE c # b
    <3>1. ~Of(c, r)
      BY <2>3 DEF Of, b
    <3> QED BY <1>0, <1>1, <1>3, <2>1, <2>3, <3>1 DEF Quiet
  <2> QED BY <2>2, <2>3
<1>8. OpenSessionsAccounted'
  <2> SUFFICES ASSUME NEW t \in Tokens, Open(t)
               PROVE  \/ \E c \in Browsers : cookie'[c] = t
                      \/ \E s \in Requests : answer'[s] = t
                      \/ fate'[t] # "kept"
    BY <1>0 DEF OpenSessionsAccounted, Open, Issued
  <2>1. CASE cookie[b] = t
    <3>1. CASE Left(r, b) # "kept"
      BY <1>2, <2>1, <3>1
    <3>2. CASE Left(r, b) = "kept"
      <4>1. tab[r].route \notin {"login", "logout"} /\ tab[r].held = t
        BY <2>1, <3>2 DEF Left
      <4>2. refreshTokens[t].state = "revoked"
        BY <1>0, <1>1, <4>1, NoneAssumption DEF Tabbed
      <4> QED BY <4>2 DEF Open
    <3> QED BY <3>1, <3>2
  <2>2. CASE answer[r] = t
    BY <1>3, <2>2
  <2>3. CASE cookie[b] # t /\ answer[r] # t
    <3>1. \/ \E c \in Browsers : cookie[c] = t
          \/ \E s \in Requests : answer[s] = t
          \/ fate[t] # "kept"
      BY <1>0 DEF OpenSessionsAccounted
    <3> QED BY <1>1, <1>2, <1>3, <2>3, <3>1
  <2> QED BY <2>1, <2>2, <2>3
<1> QED BY <1>1, <1>4, <1>5, <1>6, <1>7, <1>8 DEF BrowserInv

\* A browser forgets its cookie when its time has passed.
LEMMA CookieExpiryKeeps == BrowserInv /\ CookieExpires => BrowserInv'
<1> SUFFICES ASSUME BrowserInv, NEW b \in Browsers, cookie[b] # None,
                    cookie' = [cookie EXCEPT ![b] = None],
                    fate' = Leaves(cookie[b], "dropped"),
                    UNCHANGED <<vars, bearer, tab, answer, disturbed>>
             PROVE  BrowserInv'
  BY DEF CookieExpires
<1>0. /\ BrowserTypeOK /\ HeldInv /\ UnseenInv /\ OpenSessionsAccounted
      /\ TypeOK /\ RememberedRows
      /\ req' = req /\ refreshTokens' = refreshTokens
      /\ cookie \in [Browsers -> Maybe(Tokens)]
  BY DEF BrowserInv, BrowserTypeOK, vars
<1>1. cookie'[b] = None /\ \A c \in Browsers \ {b} : cookie'[c] = cookie[c]
  BY <1>0
<1>2. /\ fate' \in [Tokens -> {"kept", "dropped", "logged out"}]
      /\ \A s \in Tokens : s # cookie[b] => fate'[s] = fate[s]
      /\ cookie[b] \in Tokens /\ Open(cookie[b]) => fate'[cookie[b]] = "dropped"
  BY <1>0, Leaving
<1>3. TypeOK' /\ RememberedRows'
  BY <1>0 DEF vars, TypeOK, RememberedRows, OwnedTokens, Remembers
<1>4. BrowserTypeOK'
  BY <1>0, <1>2, <1>3 DEF BrowserTypeOK, Maybe
<1>5. \A r \in Requests : Tabbed(r)'
  BY <1>0 DEF BrowserInv, Tabbed
<1>6. HeldInv' /\ UnseenInv'
  <2>1. HeldInv'
    BY <1>0, <1>1 DEF HeldInv, Issued
  <2>2. UnseenInv'
    BY <1>0, <1>1, NoneAssumption DEF UnseenInv
  <2> QED BY <2>1, <2>2
<1>7. \A c \in Browsers \ disturbed' : Quiet(c)'
  BY <1>0, <1>1 DEF BrowserInv, Quiet, Of
<1>8. OpenSessionsAccounted'
  <2> SUFFICES ASSUME NEW t \in Tokens, Open(t)
               PROVE  \/ \E c \in Browsers : cookie'[c] = t
                      \/ \E r \in Requests : answer[r] = t
                      \/ fate'[t] # "kept"
    BY <1>0 DEF OpenSessionsAccounted, Open, Issued
  <2>1. \/ \E c \in Browsers : cookie[c] = t
        \/ \E r \in Requests : answer[r] = t
        \/ fate[t] # "kept"
    BY <1>0 DEF OpenSessionsAccounted
  <2> QED BY <1>1, <1>2, <2>1
<1> QED BY <1>3, <1>4, <1>5, <1>6, <1>7, <1>8 DEF BrowserInv

\* A session that expires is not revoked by that.
LEMMA TokenExpiryKeeps == BrowserInv /\ TokenExpires /\ UNCHANGED browserVars => BrowserInv'
<1> SUFFICES ASSUME BrowserInv, TokenExpires, UNCHANGED browserVars PROVE BrowserInv'
  OBVIOUS
<1>0. /\ BrowserTypeOK /\ HeldInv /\ OpenSessionsAccounted /\ TypeOK /\ RememberedRows
      /\ cookie' = cookie /\ bearer' = bearer /\ tab' = tab /\ answer' = answer
      /\ disturbed' = disturbed /\ fate' = fate /\ req' = req
  BY DEF BrowserInv, BrowserTypeOK, browserVars, TokenExpires
<1>1. \A t \in Tokens : /\ refreshTokens'[t].user = refreshTokens[t].user
                        /\ refreshTokens'[t].state = "revoked"
                             <=> refreshTokens[t].state = "revoked"
  BY <1>0, EnvironmentKeeps DEF Environment
<1>2. TypeOK' /\ RememberedRows'
  BY <1>0, EnvironmentInvariant DEF Environment
<1>3. BrowserTypeOK'
  BY <1>0, <1>2 DEF BrowserTypeOK
<1>4. /\ \A b \in Browsers : cookie[b] # None => cookie[b] \in Tokens
      /\ \A r \in Requests : tab[r] # None /\ tab[r].held # None => tab[r].held \in Tokens
  BY <1>0 DEF BrowserTypeOK, Maybe, Tab
<1>5. ASSUME NEW r \in Requests PROVE Tabbed(r)'
  <2>1. Tabbed(r) /\ (req[r].pc = "logoutAll" => tab[r] # None)
        /\ (answer[r] # None => tab[r] # None)
    BY DEF BrowserInv, Tabbed
  <2>2. tab[r] # None /\ tab[r].held # None =>
          /\ refreshTokens'[tab[r].held].user = refreshTokens[tab[r].held].user
          /\ refreshTokens[tab[r].held].state = "revoked"
               => refreshTokens'[tab[r].held].state = "revoked"
    BY <1>1, <1>4
  <2> QED BY <1>0, <2>1, <2>2, NoneAssumption, BrowsersAssumption DEF Tabbed
<1>6. HeldInv' /\ UnseenInv'
  BY <1>0, <1>1, <1>4 DEF BrowserInv, HeldInv, UnseenInv, Issued
<1>7. \A b \in Browsers \ disturbed' : Quiet(b)'
  BY <1>0, <1>1, <1>4 DEF BrowserInv, Quiet, Of
<1>8. OpenSessionsAccounted'
  BY <1>0, <1>1 DEF OpenSessionsAccounted, Open, Issued
<1> QED BY <1>2, <1>3, <1>5, <1>6, <1>7, <1>8 DEF BrowserInv

\* Nothing happens.
LEMMA BrowserStutter == BrowserInv /\ UNCHANGED allVars => BrowserInv'
<1> SUFFICES ASSUME BrowserInv, UNCHANGED allVars PROVE BrowserInv'
  OBVIOUS
<1>1. BrowserTypeOK' /\ RememberedRows'
  BY DEF BrowserInv, allVars, vars, browserVars, BrowserTypeOK, TypeOK, RememberedRows,
         OwnedTokens, Remembers
<1>2. (\A r \in Requests : Tabbed(r)') /\ HeldInv' /\ UnseenInv' /\ OpenSessionsAccounted'
  BY DEF BrowserInv, allVars, vars, browserVars, Tabbed, HeldInv, UnseenInv,
         OpenSessionsAccounted, Open, Issued
<1>3. \A b \in Browsers \ disturbed' : Quiet(b)'
  BY DEF BrowserInv, allVars, vars, browserVars, Quiet, Of
<1> QED BY <1>1, <1>2, <1>3 DEF BrowserInv

\* The invariant in every reachable state.
LEMMA BrowserInvariance == BrowserSpec => []BrowserInv
<1>1. BrowserInv /\ [BrowserNext]_allVars => BrowserInv'
  <2> SUFFICES ASSUME BrowserInv, [BrowserNext]_allVars PROVE BrowserInv'
    OBVIOUS
  <2>1. ASSUME NEW r \in Requests, NEW b \in Browsers,
               SendLogin(r, b) \/ SendRefresh(r, b) \/ SendLogout(r, b) \/ SendLogoutAll(r, b)
        PROVE  BrowserInv'
    BY <2>1, SendKeeps DEF Sending
  <2>2. ASSUME NEW r \in Requests, Serve(r) \/ ServiceAborts(r) \/ Deliver(r) \/ Lose(r)
        PROVE  BrowserInv'
    BY <2>2, ServeKeeps, AbortKeeps, DeliverKeeps, LoseKeeps
  <2>3. CASE CookieExpires
    BY <2>3, CookieExpiryKeeps
  <2>4. CASE TokenExpires /\ UNCHANGED browserVars
    BY <2>4, TokenExpiryKeeps
  <2>5. CASE UNCHANGED allVars
    BY <2>5, BrowserStutter
  <2> QED BY <2>1, <2>2, <2>3, <2>4, <2>5 DEF BrowserNext
<1> QED BY <1>1, BrowserStart, PTL DEF BrowserSpec

\* The tables, the requests, the cookies and the answers keep their types.
THEOREM BrowserTypeCorrect == BrowserSpec => []BrowserTypeOK
BY BrowserInvariance, PTL DEF BrowserInv

\* However many browsers and requests there are, and in whatever order answers
\* arrive, a browser that sends one request at a time, loses no answer and whose
\* account nobody sweeps never shows refresh (auth.service.ts:142-211) a revoked
\* token: it does not trip the replay alarm.
THEOREM QuietCookieAlwaysValid == BrowserSpec => []QuietCookieValid
<1>1. BrowserInv => QuietCookieValid
  BY DEF BrowserInv, QuietCookieValid, Quiet, Of, InFlight
<1> QED BY <1>1, BrowserInvariance, PTL

\* Every unrevoked session is in some browser, on its way to one, or was left
\* behind in one of the ways fate names: rotation and logout-all leave none.
THEOREM OpenSessionsAlwaysAccounted == BrowserSpec => []OpenSessionsAccounted
BY BrowserInvariance, PTL DEF BrowserInv

\* What browsers and the network do is nothing AuthService does not allow: what
\* is proved of Spec holds behind the cookie too.
THEOREM BrowserImplementsService == BrowserSpec => Spec
<1>1. BrowserInit => Init
  BY DEF BrowserInit
<1>2. [BrowserNext]_allVars => [Next]_vars
  <2> SUFFICES ASSUME [BrowserNext]_allVars PROVE [Next]_vars
    OBVIOUS
  <2>1. ASSUME NEW r \in Requests, NEW b \in Browsers,
               SendLogin(r, b) \/ SendRefresh(r, b) \/ SendLogout(r, b) \/ SendLogoutAll(r, b)
        PROVE  [Next]_vars
    BY <2>1 DEF SendLogin, SendRefresh, SendLogout, SendLogoutAll, Next, Step
  <2>2. ASSUME NEW r \in Requests, Serve(r) \/ ServiceAborts(r) \/ Deliver(r) \/ Lose(r)
        PROVE  [Next]_vars
    BY <2>2 DEF Serve, ServiceAborts, Deliver, Lose, Next
  <2>3. CASE CookieExpires \/ UNCHANGED allVars
    BY <2>3 DEF CookieExpires, allVars
  <2>4. CASE TokenExpires /\ UNCHANGED browserVars
    BY <2>4 DEF Next, Environment
  <2> QED BY <2>1, <2>2, <2>3, <2>4 DEF BrowserNext
<1> QED BY <1>1, <1>2, PTL DEF BrowserSpec, Spec
====

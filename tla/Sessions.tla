------------------------------- MODULE Sessions -------------------------------
(***************************************************************************)
(* The sessions of one user in one browser: the refresh tokens of          *)
(* backend/app/services/auth_service.py, which are rotated on every use,   *)
(* and the tabs that share the cookie that holds one: frontend/lib/auth.ts *)
(* (one refresh at a time), lib/api.ts (a request that gets a 401          *)
(* refreshes and is sent again) and components/auth-provider.tsx.          *)
(*                                                                         *)
(* The access token is a signed statement that nobody can take back; the   *)
(* server refuses it when it has expired or the user is disabled.          *)
(***************************************************************************)
EXTENDS Naturals, FiniteSets

CONSTANTS
    Tabs,
    Requests,     \* requests for data that a tab may have under way
    TabOf(_),     \* the tab of a request
    MaxTokens,    \* bound on refresh tokens
    MaxLosses     \* bound on answers that get lost

ASSUME SessionsAssumption ==
    /\ \A r \in Requests : TabOf(r) \in Tabs
    /\ MaxTokens \in Nat /\ MaxLosses \in Nat

VARIABLES
    \* the server
    token,     \* refresh_tokens: "unborn", "live" or "revoked"
    disabled,  \* users.disabled
    \* the browser
    cookie,    \* the refresh token in the cookie, 0 without one
    \* each tab
    status,    \* AuthStatus
    access,    \* accessToken of lib/auth.ts: whether it is there and has not expired
    boot,      \* where bootstrap is
    flight,    \* refreshInFlight, and where the server is with it
    request,   \* where each request is
    form,      \* where login or logout is
    \* history
    lost,      \* answers that were lost
    shared     \* a token was presented while another request carried it

serverVars  == <<token, disabled>>
pageVars    == <<status, access>>
sessionVars == <<serverVars, cookie, pageVars, boot, flight, request, form, lost, shared>>

-----------------------------------------------------------------------------
(* Vocabulary *)

Tokens == 1..MaxTokens

\* A POST that presents the cookie's token, or none, 0.
Nothing == [pc |-> "none", token |-> 0, new |-> 0]
Post(pc, n) == [pc |-> pc, token |-> n, new |-> 0]

\* Tokens are handed out in order.
Unborn == {n \in Tokens : token[n] = "unborn"}
Born(n) == n \in Unborn /\ \A m \in Unborn : n <= m

\* What is about to be posted presents a token that another tab's refresh, or
\* a logout, or a logout beside this tab's refresh, has presented and not been
\* answered.
Presents(post) == post.token # 0 /\ post.token = cookie
RefreshShares(t) == \E u \in Tabs : (u # t /\ Presents(flight[u])) \/ Presents(form[u])
LogoutShares(t)  == \E u \in Tabs : Presents(flight[u]) \/ (u # t /\ Presents(form[u]))

SessionsInit ==
    /\ token \in {[n \in Tokens |-> "unborn"],
                  [n \in Tokens |-> IF n = 1 THEN "live" ELSE "unborn"]}
    /\ disabled = FALSE
    /\ cookie = IF 1 \in Tokens /\ token[1] = "live" THEN 1 ELSE 0
    /\ status = [t \in Tabs |-> "loading"] /\ access = [t \in Tabs |-> "none"]
    /\ boot = [t \in Tabs |-> "setup"]
    /\ flight = [t \in Tabs |-> Nothing]
    /\ request = [r \in Requests |-> "no"]
    /\ form = [t \in Tabs |-> Nothing]
    /\ lost = 0 /\ shared = FALSE

\* An administrator disables the user, for good.
Disables ==
    /\ ~disabled /\ disabled' = TRUE
    /\ UNCHANGED <<token, cookie, pageVars, boot, flight, request, form, lost, shared>>

\* The lifetime of the access token is over.
Expires(t) ==
    /\ access[t] = "good"
    /\ access' = [access EXCEPT ![t] = "none"]
    /\ UNCHANGED <<serverVars, cookie, status, boot, flight, request, form, lost, shared>>

-----------------------------------------------------------------------------
(* refreshAccessToken *)

\* Mutant: every caller starts a refresh of its own.
InFlight_Never(t) == FALSE

InFlight(t) == flight[t].pc # "none"

\* A caller joins the refresh under way, or starts one.
JoinsRefresh(t) ==
    IF InFlight(t) THEN UNCHANGED <<flight, shared>>
    ELSE /\ flight' = [flight EXCEPT ![t] = Post("refresh", cookie)]
         /\ shared' = (shared \/ RefreshShares(t))

\* rotate_refresh: a revoked token takes every token of the user with it.
Looks(t) ==
    LET n == flight[t].token
    IN  /\ flight[t].pc = "refresh"
        /\ IF n = 0 \/ token[n] = "revoked"
           THEN flight' = [flight EXCEPT ![t].pc = "refused"]
           ELSE flight' = [flight EXCEPT ![t].pc = "checked"]
        /\ token' = IF n # 0 /\ token[n] = "revoked"
                    THEN [m \in Tokens |-> IF token[m] = "live" THEN "revoked" ELSE token[m]]
                    ELSE token
        /\ UNCHANGED <<disabled, cookie, pageVars, boot, request, form, lost, shared>>

Rotates(t) ==
    /\ flight[t].pc = "checked"
    /\ IF disabled THEN flight' = [flight EXCEPT ![t].pc = "refused"] /\ UNCHANGED token
       ELSE /\ flight' = [flight EXCEPT ![t].pc = "rotated"]
            /\ token' = [token EXCEPT ![flight[t].token] = "revoked"]
    /\ UNCHANGED <<disabled, cookie, pageVars, boot, request, form, lost, shared>>

\* issue_tokens
Issues(t) ==
    /\ flight[t].pc = "rotated"
    /\ \E n \in Tokens :
          /\ Born(n)
          /\ token' = [token EXCEPT ![n] = "live"]
          /\ flight' = [flight EXCEPT ![t].pc = "issued", ![t].new = n]
    /\ UNCHANGED <<disabled, cookie, pageVars, boot, request, form, lost, shared>>

\* The callers of the tab that wait for a new access token.
Waiting(t) == boot[t] = "refresh" \/ \E r \in Requests : TabOf(r) = t /\ request[r] = "refreshing"

\* Mutant: requests are not told that the refresh failed.
Resumes_Done(t, done) ==
    /\ request' = [r \in Requests |->
                     IF TabOf(r) = t /\ request[r] = "refreshing" /\ done THEN "again" ELSE request[r]]
    /\ boot' = [boot EXCEPT ![t] = IF @ = "refresh" THEN (IF done THEN "me" ELSE "over") ELSE @]
    /\ status' = [status EXCEPT ![t] = IF ~done THEN "unauthenticated" ELSE @]

\* What waits for the refresh goes on before anything else happens: a request
\* is sent again, or gives up and takes the tab to the login page.
Resumes(t, done) ==
    /\ request' = [r \in Requests |->
                     IF TabOf(r) = t /\ request[r] = "refreshing"
                     THEN IF done THEN "again" ELSE "no" ELSE request[r]]
    /\ boot' = [boot EXCEPT ![t] = IF @ = "refresh" THEN (IF done THEN "me" ELSE "over") ELSE @]
    /\ status' = [status EXCEPT ![t] =
                    IF ~done /\ Waiting(t) THEN "unauthenticated" ELSE @]

\* Mutant: the cookie keeps the token that was presented.
CookieAfter_Old(p) == p.token

CookieAfter(p) == p.new

RefreshSucceeds(t) ==
    /\ flight[t].pc = "issued"
    /\ cookie' = CookieAfter(flight[t])
    /\ access' = [access EXCEPT ![t] = "good"]
    /\ flight' = [flight EXCEPT ![t] = Nothing]
    /\ Resumes(t, TRUE)
    /\ UNCHANGED <<serverVars, form, lost, shared>>

\* A refusal leaves the cookie alone: the handler clears it on a response that
\* the exception it raises then replaces.
RefreshRefused(t) ==
    /\ flight[t].pc = "refused"
    /\ access' = [access EXCEPT ![t] = "none"]
    /\ flight' = [flight EXCEPT ![t] = Nothing]
    /\ Resumes(t, FALSE)
    /\ UNCHANGED <<serverVars, cookie, form, lost, shared>>

\* The request does not reach the server, or its answer does not come back.
RefreshLost(t) ==
    /\ InFlight(t) /\ lost < MaxLosses
    /\ flight[t].pc \in {"refresh", "refused", "issued"}
    /\ lost' = lost + 1
    /\ access' = [access EXCEPT ![t] = "none"]
    /\ flight' = [flight EXCEPT ![t] = Nothing]
    /\ Resumes(t, FALSE)
    /\ UNCHANGED <<serverVars, cookie, form, shared>>

-----------------------------------------------------------------------------
(* AuthProvider: bootstrap, login, logout *)

\* The tab is loaded again: what it had under way is nobody's any more.
Idle(t) == flight[t].pc = "none" /\ form[t].pc = "none"

Reloads(t) ==
    /\ boot[t] = "over" /\ Idle(t)
    /\ boot' = [boot EXCEPT ![t] = "setup"]
    /\ status' = [status EXCEPT ![t] = "loading"]
    /\ access' = [access EXCEPT ![t] = "none"]
    /\ request' = [r \in Requests |-> IF TabOf(r) = t THEN "no" ELSE request[r]]
    /\ UNCHANGED <<serverVars, cookie, flight, form, lost, shared>>

\* getSetupStatus says that there are users; then the session is refreshed.
BootRefreshes(t) ==
    /\ boot[t] = "setup"
    /\ boot' = [boot EXCEPT ![t] = "refresh"]
    /\ JoinsRefresh(t)
    /\ UNCHANGED <<serverVars, cookie, pageVars, request, form, lost>>

\* The server cannot be reached.
BootFails(t) ==
    /\ boot[t] = "setup" /\ lost < MaxLosses
    /\ lost' = lost + 1
    /\ boot' = [boot EXCEPT ![t] = "over"]
    /\ status' = [status EXCEPT ![t] = "unauthenticated"]
    /\ UNCHANGED <<serverVars, cookie, access, flight, request, form, shared>>

Accepted(t) == access[t] = "good" /\ ~disabled

\* getMe: its 401 does not start a refresh.
BootEnds(t) ==
    /\ boot[t] = "me"
    /\ boot' = [boot EXCEPT ![t] = "over"]
    /\ status' = [status EXCEPT ![t] = IF Accepted(t) THEN "authenticated" ELSE "unauthenticated"]
    /\ UNCHANGED <<serverVars, cookie, access, flight, request, form, lost, shared>>

\* The login page is shown, and its form is not being submitted already.
PostsLogin(t) ==
    /\ status[t] = "unauthenticated" /\ form[t].pc = "none"
    /\ form' = [form EXCEPT ![t] = Post("login", 0)]
    /\ UNCHANGED <<serverVars, cookie, pageVars, boot, flight, request, lost, shared>>

\* authenticate and issue_tokens, for the right password.
ServerLogsIn(t) ==
    /\ form[t].pc = "login"
    /\ IF disabled THEN form' = [form EXCEPT ![t] = Nothing] /\ UNCHANGED token
       ELSE \E n \in Tokens :
              /\ Born(n)
              /\ token' = [token EXCEPT ![n] = "live"]
              /\ form' = [form EXCEPT ![t].pc = "welcome", ![t].new = n]
    /\ UNCHANGED <<disabled, cookie, pageVars, boot, flight, request, lost, shared>>

LoggedIn(t) ==
    /\ form[t].pc = "welcome"
    /\ cookie' = form[t].new
    /\ form' = [form EXCEPT ![t] = Nothing]
    /\ access' = [access EXCEPT ![t] = "good"]
    /\ status' = [status EXCEPT ![t] = "authenticated"]
    /\ UNCHANGED <<serverVars, boot, flight, request, lost, shared>>

PostsLogout(t) ==
    /\ status[t] = "authenticated" /\ form[t].pc = "none"
    /\ form' = [form EXCEPT ![t] = Post("logout", cookie)]
    /\ shared' = (shared \/ LogoutShares(t))
    /\ UNCHANGED <<serverVars, cookie, pageVars, boot, flight, request, lost>>

ServerLogsOut(t) ==
    LET n == form[t].token
    IN  /\ form[t].pc = "logout"
        /\ form' = [form EXCEPT ![t].pc = "goodbye"]
        /\ token' = IF n = 0 THEN token ELSE [token EXCEPT ![n] = "revoked"]
        /\ UNCHANGED <<disabled, cookie, pageVars, boot, flight, request, lost, shared>>

\* Mutant: the cookie is not cleared.
ClearedCookie_Kept == cookie

ClearedCookie == 0

LoggedOut(t) ==
    /\ form[t].pc = "goodbye"
    /\ cookie' = ClearedCookie
    /\ form' = [form EXCEPT ![t] = Nothing]
    /\ access' = [access EXCEPT ![t] = "none"]
    /\ status' = [status EXCEPT ![t] = "unauthenticated"]
    /\ UNCHANGED <<serverVars, boot, flight, request, lost, shared>>

\* The answer to a logout is lost: the access token is forgotten, the page stays.
LogoutLost(t) ==
    /\ form[t].pc \in {"logout", "goodbye"} /\ lost < MaxLosses
    /\ lost' = lost + 1
    /\ form' = [form EXCEPT ![t] = Nothing]
    /\ access' = [access EXCEPT ![t] = "none"]
    /\ UNCHANGED <<serverVars, cookie, status, boot, flight, request, shared>>

-----------------------------------------------------------------------------
(* request: a 401 refreshes once and sends again *)

Sends(r) ==
    /\ status[TabOf(r)] = "authenticated" /\ request[r] = "no"
    /\ request' = [request EXCEPT ![r] = "sent"]
    /\ UNCHANGED <<serverVars, cookie, pageVars, boot, flight, form, lost, shared>>

Answered(r) ==
    LET t == TabOf(r)
    IN  /\ request[r] = "sent"
        /\ IF Accepted(t) THEN request' = [request EXCEPT ![r] = "no"] /\ UNCHANGED <<flight, shared>>
           ELSE request' = [request EXCEPT ![r] = "refreshing"] /\ JoinsRefresh(t)
        /\ UNCHANGED <<serverVars, cookie, pageVars, boot, form, lost>>

\* The second answer is final, whatever it is.
AnsweredAgain(r) ==
    /\ request[r] = "again"
    /\ request' = [request EXCEPT ![r] = "no"]
    /\ UNCHANGED <<serverVars, cookie, pageVars, boot, flight, form, lost, shared>>

-----------------------------------------------------------------------------

SessionsNext ==
    \/ Disables
    \/ \E t \in Tabs :
          \/ Expires(t)
          \/ Looks(t) \/ Rotates(t) \/ Issues(t)
          \/ RefreshSucceeds(t) \/ RefreshRefused(t) \/ RefreshLost(t)
          \/ Reloads(t) \/ BootRefreshes(t) \/ BootFails(t) \/ BootEnds(t)
          \/ PostsLogin(t) \/ ServerLogsIn(t) \/ LoggedIn(t)
          \/ PostsLogout(t) \/ ServerLogsOut(t) \/ LoggedOut(t) \/ LogoutLost(t)
    \/ \E r \in Requests : Sends(r) \/ Answered(r) \/ AnsweredAgain(r)

SessionsSpec == SessionsInit /\ [][SessionsNext]_sessionVars

-----------------------------------------------------------------------------
(* Properties *)

\* Whoever waits for a refresh waits for one that is under way: when it ends,
\* whatever it ends with, nobody is left behind that no answer will wake.
NobodyWaitsInVain == \A t \in Tabs : Waiting(t) => InFlight(t)

Quiet == \A t \in Tabs : Idle(t)

\* The cookie never holds a token that the server has revoked, which would log
\* the user out of every device the next time it is presented: not while the
\* tabs refresh, log in and log out, however their requests interleave, unless
\* an answer was lost or two of them presented the same token at once.
NoDeadCookie ==
    (Quiet /\ lost = 0 /\ ~shared) => (cookie = 0 \/ token[cookie] = "live")

\* The same, of the event itself: the server takes a token for stolen, and
\* revokes every session of the user, only after a lost answer or a token
\* presented twice at once.
NobodyTakenForThief ==
    [][(\E t \in Tabs : /\ flight[t].pc = "refresh" /\ flight'[t].pc = "refused"
                        /\ flight[t].token # 0)
          => (lost > 0 \/ shared)]_sessionVars

=============================================================================

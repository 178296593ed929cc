---------------------------- MODULE SessionsProofs ----------------------------
(***************************************************************************)
(* Proofs about Sessions, for any number of tabs, requests, tokens and     *)
(* lost answers.                                                           *)
(***************************************************************************)
EXTENDS Sessions, TLAPS

FlightPcs == {"none", "refresh", "refused", "checked", "rotated", "issued"}
FormPcs == {"none", "login", "welcome", "logout", "goodbye"}
FlightPosts == [pc : FlightPcs, token : 0..MaxTokens, new : 0..MaxTokens]
FormPosts == [pc : FormPcs, token : 0..MaxTokens, new : 0..MaxTokens]

Typed ==
    /\ token \in [Tokens -> {"unborn", "live", "revoked"}]
    /\ disabled \in BOOLEAN
    /\ cookie \in 0..MaxTokens
    /\ status \in [Tabs -> {"loading", "unauthenticated", "authenticated"}]
    /\ access \in [Tabs -> {"none", "good"}]
    /\ boot \in [Tabs -> {"setup", "refresh", "me", "over"}]
    /\ flight \in [Tabs -> FlightPosts]
    /\ request \in [Requests -> {"no", "sent", "refreshing", "again"}]
    /\ form \in [Tabs -> FormPosts]
    /\ lost \in Nat
    /\ shared \in BOOLEAN

\* Whatever a browser holds or sends is a token that was handed out.
Known ==
    \A n \in Tokens : token[n] = "unborn" =>
        /\ n # cookie
        /\ \A t \in Tabs : n \notin {flight[t].token, flight[t].new, form[t].token, form[t].new}

\* A token is on its way to the browser from when it is issued until it is the cookie's.
OnItsWay ==
    /\ \A t \in Tabs : flight[t].new # 0 <=> flight[t].pc = "issued"
    /\ \A t \in Tabs : form[t].new # 0 <=> form[t].pc = "welcome"
    /\ \A t \in Tabs : flight[t].pc \in {"checked", "rotated"} => flight[t].token # 0

\* No answer was lost, and no token presented twice at once.
Clean == lost = 0 /\ ~shared

\* No two posts present one token.
Apart ==
    /\ \A t, u \in Tabs : t # u /\ flight[t].token # 0 => flight[t].token # flight[u].token
    /\ \A t, u \in Tabs : t # u /\ form[t].token # 0 => form[t].token # form[u].token
    /\ \A t, u \in Tabs : flight[t].token # 0 => flight[t].token # form[u].token

\* What is on its way nobody has presented yet, and nobody else is sent.
Fresh ==
    /\ \A t \in Tabs : flight[t].new # 0 =>
          /\ flight[t].new # cookie /\ token[flight[t].new] = "live"
          /\ \A u \in Tabs : /\ flight[t].new \notin {flight[u].token, form[u].token, form[u].new}
                             /\ u # t => flight[t].new # flight[u].new
    /\ \A t \in Tabs : form[t].new # 0 =>
          /\ form[t].new # cookie /\ token[form[t].new] = "live"
          /\ \A u \in Tabs : /\ form[t].new \notin {flight[u].token, form[u].token}
                             /\ u # t => form[t].new # form[u].new

\* Until the server uses it up, the token of a post is live.
Usable ==
    \A t \in Tabs :
        /\ flight[t].pc \in {"refresh", "checked"} /\ flight[t].token # 0 => token[flight[t].token] = "live"
        /\ form[t].pc = "logout" /\ form[t].token # 0 => token[form[t].token] = "live"

\* When the cookie's token is used up, the answer that replaces it is on its way.
Covered ==
    cookie # 0 =>
        \/ token[cookie] = "live"
        \/ \E t \in Tabs : \/ flight[t].token = cookie /\ flight[t].pc \in {"rotated", "issued"}
                           \/ form[t].token = cookie /\ form[t].pc = "goodbye"

Good == Apart /\ Fresh /\ Usable /\ Covered

Tidy == Clean => Good

IInv == Typed /\ NobodyWaitsInVain /\ Known /\ OnItsWay /\ Tidy

-----------------------------------------------------------------------------

LEMMA SessionsInitial == SessionsInit => IInv
<1> SUFFICES ASSUME SessionsInit PROVE IInv
  OBVIOUS
<1> USE SessionsAssumption DEF SessionsInit, Tokens
<1>1. Typed
  <2>1. cookie \in 0..MaxTokens
    OBVIOUS
  <2>2. /\ flight \in [Tabs -> FlightPosts]
        /\ form \in [Tabs -> FormPosts]
    BY DEF Nothing, FlightPosts, FormPosts, FlightPcs, FormPcs
  <2>3. token \in [Tokens -> {"unborn", "live", "revoked"}]
    OBVIOUS
  <2> QED
    BY <2>1, <2>2, <2>3 DEF Typed, FlightPosts, FlightPcs, FormPosts, FormPcs
<1>2. NobodyWaitsInVain
  BY DEF NobodyWaitsInVain, Waiting
<1>3. Known
  BY DEF Known, Nothing
<1>4. OnItsWay
  BY DEF OnItsWay, Nothing
<1>5. Tidy
  <2>1. Covered
    BY DEF Covered
  <2> QED
    BY <2>1 DEF Tidy, Good, Apart, Fresh, Usable, Nothing
<1> QED
  BY <1>1, <1>2, <1>3, <1>4, <1>5 DEF IInv

\* A flight that moves on, is given a new token, begins or is over is one still.
LEMMA FlightMoves ==
    ASSUME NEW f \in [Tabs -> FlightPosts], NEW t \in Tabs, NEW pc \in FlightPcs
    PROVE  [f EXCEPT ![t].pc = pc] \in [Tabs -> FlightPosts]
BY DEF FlightPosts

LEMMA FlightGetsToken ==
    ASSUME NEW f \in [Tabs -> FlightPosts], NEW t \in Tabs, NEW pc \in FlightPcs, NEW n \in 0..MaxTokens
    PROVE  [f EXCEPT ![t].pc = pc, ![t].new = n] \in [Tabs -> FlightPosts]
<1> DEFINE g == [f EXCEPT ![t].pc = pc]
<1>1. g \in [Tabs -> FlightPosts]
  BY FlightMoves
<1>2. [g EXCEPT ![t].new = n] \in [Tabs -> FlightPosts]
  <2> HIDE DEF g
  <2> QED
    BY <1>1 DEF FlightPosts
<1>3. [f EXCEPT ![t].pc = pc, ![t].new = n] = [g EXCEPT ![t].new = n]
  OBVIOUS
<1> QED
  BY <1>2, <1>3

LEMMA FlightBegins ==
    ASSUME NEW f \in [Tabs -> FlightPosts], NEW t \in Tabs, NEW pc \in FlightPcs, NEW n \in 0..MaxTokens
    PROVE  /\ [f EXCEPT ![t] = [pc |-> pc, token |-> n, new |-> 0]] \in [Tabs -> FlightPosts]
           /\ [f EXCEPT ![t] = Nothing] \in [Tabs -> FlightPosts]
BY SessionsAssumption DEF FlightPosts, FlightPcs, Nothing

\* A form that moves on, is given a new token, begins or is over is one still.
LEMMA FormMoves ==
    ASSUME NEW f \in [Tabs -> FormPosts], NEW t \in Tabs, NEW pc \in FormPcs
    PROVE  [f EXCEPT ![t].pc = pc] \in [Tabs -> FormPosts]
BY DEF FormPosts

LEMMA FormGetsToken ==
    ASSUME NEW f \in [Tabs -> FormPosts], NEW t \in Tabs, NEW pc \in FormPcs, NEW n \in 0..MaxTokens
    PROVE  [f EXCEPT ![t].pc = pc, ![t].new = n] \in [Tabs -> FormPosts]
<1> DEFINE g == [f EXCEPT ![t].pc = pc]
<1>1. g \in [Tabs -> FormPosts]
  BY FormMoves
<1>2. [g EXCEPT ![t].new = n] \in [Tabs -> FormPosts]
  <2> HIDE DEF g
  <2> QED
    BY <1>1 DEF FormPosts
<1>3. [f EXCEPT ![t].pc = pc, ![t].new = n] = [g EXCEPT ![t].new = n]
  OBVIOUS
<1> QED
  BY <1>2, <1>3

LEMMA FormBegins ==
    ASSUME NEW f \in [Tabs -> FormPosts], NEW t \in Tabs, NEW pc \in FormPcs, NEW n \in 0..MaxTokens
    PROVE  /\ [f EXCEPT ![t] = [pc |-> pc, token |-> n, new |-> 0]] \in [Tabs -> FormPosts]
           /\ [f EXCEPT ![t] = Nothing] \in [Tabs -> FormPosts]
BY SessionsAssumption DEF FormPosts, FormPcs, Nothing

\* Joining a refresh keeps the type of flight, and a refresh is under way then.
LEMMA Joining ==
    ASSUME Typed, NEW t \in Tabs, JoinsRefresh(t)
    PROVE  /\ flight' \in [Tabs -> FlightPosts]
           /\ shared' \in BOOLEAN
           /\ \A u \in Tabs : u # t => flight'[u] = flight[u]
           /\ flight'[t].pc # "none"
<1> USE SessionsAssumption DEF Typed, JoinsRefresh, InFlight, FlightPosts, FlightPcs, FormPosts, FormPcs
<1>1. shared' \in BOOLEAN
  <2>1. (shared \/ RefreshShares(t)) \in BOOLEAN
    OBVIOUS
  <2> QED
    BY <2>1
<1>2. CASE flight[t].pc # "none"
  BY <1>1, <1>2
<1>3. CASE flight[t].pc = "none"
  <2>1. flight' = [flight EXCEPT ![t] = Post("refresh", cookie)] /\ "refresh" \in FlightPcs /\ "none" \in FlightPcs
    BY <1>3 DEF FlightPcs
  <2>2. flight' \in [Tabs -> FlightPosts]
    BY <2>1, FlightBegins DEF Post
  <2> QED
    BY <1>1, <1>3, <2>1, <2>2 DEF Post
<1> QED
  BY <1>2, <1>3

\* When a refresh ends, the types are kept and nobody of the tab waits.
LEMMA Resuming ==
    ASSUME Typed, NEW t \in Tabs, NEW done \in BOOLEAN, Resumes(t, done)
    PROVE  /\ request' \in [Requests -> {"no", "sent", "refreshing", "again"}]
           /\ boot' \in [Tabs -> {"setup", "refresh", "me", "over"}]
           /\ status' \in [Tabs -> {"loading", "unauthenticated", "authenticated"}]
           /\ ~Waiting(t)'
           /\ \A u \in Tabs : u # t => (Waiting(u)' <=> Waiting(u))
<1> USE DEF Typed
<1>1. /\ request' \in [Requests -> {"no", "sent", "refreshing", "again"}]
      /\ \A r \in Requests : TabOf(r) = t => request'[r] # "refreshing"
      /\ \A r \in Requests : TabOf(r) # t => request'[r] = request[r]
  BY DEF Resumes
<1>2. /\ boot' \in [Tabs -> {"setup", "refresh", "me", "over"}]
      /\ boot'[t] # "refresh"
      /\ \A u \in Tabs : u # t => boot'[u] = boot[u]
  BY DEF Resumes
<1>3. status' \in [Tabs -> {"loading", "unauthenticated", "authenticated"}]
  BY DEF Resumes
<1> QED
  BY <1>1, <1>2, <1>3 DEF Waiting

\* Every step keeps the types.
LEMMA TypesKept ==
    ASSUME Typed, [SessionsNext]_sessionVars
    PROVE  Typed'
<1> USE SessionsAssumption DEF Typed, Tokens, FlightPosts, FlightPcs, FormPosts, FormPcs
<1>1. CASE Disables
  BY <1>1 DEF Disables, pageVars
<1>2. ASSUME NEW t \in Tabs, Expires(t)
      PROVE  Typed'
  BY <1>2 DEF Expires, Nothing, Post, ClearedCookie, LogoutShares, serverVars, pageVars
<1>3. ASSUME NEW t \in Tabs, Looks(t)
      PROVE  Typed'
  <2>1. flight' \in [Tabs -> FlightPosts]
    <3>1. PICK x \in FlightPcs : flight' = [flight EXCEPT ![t].pc = x]
      BY <1>3 DEF Looks, FlightPcs
    <3> QED
      BY <3>1, FlightMoves
  <2>2. token' \in [Tokens -> {"unborn", "live", "revoked"}]
    <3>1. [m \in Tokens |-> IF token[m] = "live" THEN "revoked" ELSE token[m]] \in [Tokens -> {"unborn", "live", "revoked"}]
      OBVIOUS
    <3> QED
      BY <1>3, <3>1 DEF Looks
  <2> QED
    BY <1>3, <2>1, <2>2 DEF Looks, pageVars
<1>4. ASSUME NEW t \in Tabs, Rotates(t)
      PROVE  Typed'
  <2>1. flight' \in [Tabs -> FlightPosts]
    <3>1. PICK x \in FlightPcs : flight' = [flight EXCEPT ![t].pc = x]
      BY <1>4 DEF Rotates, FlightPcs
    <3> QED
      BY <3>1, FlightMoves
  <2>2. token' \in [Tokens -> {"unborn", "live", "revoked"}]
    BY <1>4 DEF Rotates
  <2> QED
    BY <1>4, <2>1, <2>2 DEF Rotates, pageVars
<1>5. ASSUME NEW t \in Tabs, Issues(t)
      PROVE  Typed'
  <2>1. PICK n \in Tokens : /\ token' = [token EXCEPT ![n] = "live"]
                            /\ flight' = [flight EXCEPT ![t].pc = "issued", ![t].new = n]
    BY <1>5 DEF Issues
  <2>2. n \in 0..MaxTokens
    OBVIOUS
  <2>3. flight' \in [Tabs -> FlightPosts]
    BY <2>1, <2>2, FlightGetsToken DEF FlightPcs
  <2>4. token' \in [Tokens -> {"unborn", "live", "revoked"}]
    BY <2>1
  <2> QED
    BY <1>5, <2>3, <2>4 DEF Issues, pageVars
<1>6. ASSUME NEW t \in Tabs, RefreshSucceeds(t)
      PROVE  Typed'
  <2>1. Resumes(t, TRUE) /\ CookieAfter(flight[t]) \in 0..MaxTokens
    BY <1>6 DEF RefreshSucceeds, CookieAfter
  <2>2. /\ request' \in [Requests -> {"no", "sent", "refreshing", "again"}]
        /\ boot' \in [Tabs -> {"setup", "refresh", "me", "over"}]
        /\ status' \in [Tabs -> {"loading", "unauthenticated", "authenticated"}]
    BY <2>1, Resuming
  <2>3. /\ flight' \in [Tabs -> FlightPosts]
        /\ access' \in [Tabs -> {"none", "good"}]
    BY <1>6, FlightBegins DEF RefreshSucceeds, FlightPcs
  <2> QED
    BY <1>6, <2>1, <2>2, <2>3 DEF RefreshSucceeds, serverVars
<1>7. ASSUME NEW t \in Tabs, RefreshRefused(t)
      PROVE  Typed'
  <2>1. Resumes(t, FALSE)
    BY <1>7 DEF RefreshRefused
  <2>2. /\ request' \in [Requests -> {"no", "sent", "refreshing", "again"}]
        /\ boot' \in [Tabs -> {"setup", "refresh", "me", "over"}]
        /\ status' \in [Tabs -> {"loading", "unauthenticated", "authenticated"}]
    BY <2>1, Resuming
  <2>3. /\ flight' \in [Tabs -> FlightPosts]
        /\ access' \in [Tabs -> {"none", "good"}]
    BY <1>7, FlightBegins DEF RefreshRefused, FlightPcs
  <2> QED
    BY <1>7, <2>1, <2>2, <2>3 DEF RefreshRefused, serverVars
<1>8. ASSUME NEW t \in Tabs, RefreshLost(t)
      PROVE  Typed'
  <2>1. Resumes(t, FALSE)
    BY <1>8 DEF RefreshLost
  <2>2. /\ request' \in [Requests -> {"no", "sent", "refreshing", "again"}]
        /\ boot' \in [Tabs -> {"setup", "refresh", "me", "over"}]
        /\ status' \in [Tabs -> {"loading", "unauthenticated", "authenticated"}]
    BY <2>1, Resuming
  <2>3. /\ flight' \in [Tabs -> FlightPosts]
        /\ access' \in [Tabs -> {"none", "good"}]
    BY <1>8, FlightBegins DEF RefreshLost, FlightPcs
  <2> QED
    BY <1>8, <2>1, <2>2, <2>3 DEF RefreshLost, serverVars
<1>9. ASSUME NEW t \in Tabs, Reloads(t)
      PROVE  Typed'
  BY <1>9 DEF Reloads, Nothing, Post, ClearedCookie, LogoutShares, serverVars, pageVars
<1>10. ASSUME NEW t \in Tabs, BootRefreshes(t)
       PROVE  Typed'
  BY <1>10, Joining DEF BootRefreshes, serverVars, pageVars
<1>11. ASSUME NEW t \in Tabs, BootFails(t)
       PROVE  Typed'
  BY <1>11 DEF BootFails, Nothing, Post, ClearedCookie, LogoutShares, serverVars, pageVars
<1>12. ASSUME NEW t \in Tabs, BootEnds(t)
       PROVE  Typed'
  BY <1>12 DEF BootEnds, Nothing, Post, ClearedCookie, LogoutShares, serverVars, pageVars
<1>13. ASSUME NEW t \in Tabs, PostsLogin(t)
       PROVE  Typed'
  BY <1>13 DEF PostsLogin, Nothing, Post, ClearedCookie, LogoutShares, serverVars, pageVars
<1>14. ASSUME NEW t \in Tabs, ServerLogsIn(t)
       PROVE  Typed'
  <2>1. CASE disabled
    <3>1. form' \in [Tabs -> FormPosts]
      <4>1. form' = [form EXCEPT ![t] = Nothing]
        BY <1>14, <2>1 DEF ServerLogsIn
      <4> QED
        BY <4>1 DEF Nothing
    <3> QED
      BY <1>14, <2>1, <3>1 DEF ServerLogsIn, pageVars
  <2>2. CASE ~disabled
    <3>1. PICK n \in Tokens : /\ token' = [token EXCEPT ![n] = "live"]
                              /\ form' = [form EXCEPT ![t].pc = "welcome", ![t].new = n]
      BY <1>14, <2>2 DEF ServerLogsIn
    <3>2. form' \in [Tabs -> FormPosts]
      <4>1. n \in 0..MaxTokens
        OBVIOUS
      <4> QED
        BY <3>1, <4>1, FormGetsToken DEF FormPcs
    <3> QED
      BY <1>14, <3>1, <3>2 DEF ServerLogsIn, pageVars
  <2> QED
    BY <2>1, <2>2
<1>15. ASSUME NEW t \in Tabs, LoggedIn(t)
       PROVE  Typed'
  BY <1>15 DEF LoggedIn, Nothing, Post, ClearedCookie, LogoutShares, serverVars, pageVars
<1>16. ASSUME NEW t \in Tabs, PostsLogout(t)
       PROVE  Typed'
  BY <1>16 DEF PostsLogout, Nothing, Post, ClearedCookie, LogoutShares, serverVars, pageVars
<1>17. ASSUME NEW t \in Tabs, ServerLogsOut(t)
       PROVE  Typed'
  BY <1>17 DEF ServerLogsOut, Nothing, Post, ClearedCookie, LogoutShares, serverVars, pageVars
<1>18. ASSUME NEW t \in Tabs, LoggedOut(t)
       PROVE  Typed'
  BY <1>18 DEF LoggedOut, Nothing, Post, ClearedCookie, LogoutShares, serverVars, pageVars
<1>19. ASSUME NEW t \in Tabs, LogoutLost(t)
       PROVE  Typed'
  BY <1>19 DEF LogoutLost, Nothing, Post, ClearedCookie, LogoutShares, serverVars, pageVars
<1>20. ASSUME NEW r \in Requests, Sends(r)
       PROVE  Typed'
  BY <1>20 DEF Sends, Nothing, Post, ClearedCookie, LogoutShares, serverVars, pageVars
<1>21. ASSUME NEW r \in Requests, Answered(r)
       PROVE  Typed'
  <2>1. TabOf(r) \in Tabs
    OBVIOUS
  <2>2. request' \in [Requests -> {"no", "sent", "refreshing", "again"}]
    <3>1. PICK x \in {"no", "refreshing"} : request' = [request EXCEPT ![r] = x]
      BY <1>21 DEF Answered
    <3> QED
      BY <3>1
  <2> QED
    BY <1>21, <2>1, <2>2, Joining DEF Answered, serverVars, pageVars
<1>22. ASSUME NEW r \in Requests, AnsweredAgain(r)
       PROVE  Typed'
  BY <1>22 DEF AnsweredAgain, Nothing, Post, ClearedCookie, LogoutShares, serverVars, pageVars
<1>23. CASE UNCHANGED sessionVars
  BY <1>23 DEF sessionVars, serverVars, pageVars
<1> QED
  BY <1>1, <1>2, <1>3, <1>4, <1>5, <1>6, <1>7, <1>8, <1>9, <1>10, <1>11, <1>12,
     <1>13, <1>14, <1>15, <1>16, <1>17, <1>18, <1>19, <1>20, <1>21, <1>22, <1>23 DEF SessionsNext

\* Every step keeps it that whoever waits waits for a refresh under way.
LEMMA WaitsKept ==
    ASSUME Typed, NobodyWaitsInVain, [SessionsNext]_sessionVars
    PROVE  NobodyWaitsInVain'
<1>1. CASE Disables
  BY <1>1 DEF Disables, NobodyWaitsInVain, Waiting, InFlight
<1>2. ASSUME NEW t \in Tabs, Expires(t)
      PROVE  NobodyWaitsInVain'
  BY <1>2 DEF Expires, NobodyWaitsInVain, Waiting, InFlight, Typed
<1>3. ASSUME NEW t \in Tabs, Looks(t)
      PROVE  NobodyWaitsInVain'
  <2>1. \A u \in Tabs : flight'[u].pc # "none" <=> flight[u].pc # "none"
    BY <1>3 DEF Looks, Typed, FlightPosts, FlightPcs
  <2> QED
    BY <1>3, <2>1 DEF Looks, NobodyWaitsInVain, Waiting, InFlight
<1>4. ASSUME NEW t \in Tabs, Rotates(t)
      PROVE  NobodyWaitsInVain'
  <2>1. \A u \in Tabs : flight'[u].pc # "none" <=> flight[u].pc # "none"
    <3>1. PICK x \in {"refused", "rotated"} : flight' = [flight EXCEPT ![t].pc = x]
      BY <1>4 DEF Rotates
    <3>2. flight[t].pc = "checked"
      BY <1>4 DEF Rotates
    <3> QED
      BY <3>1, <3>2 DEF Typed, FlightPosts, FlightPcs
  <2> QED
    BY <1>4, <2>1 DEF Rotates, NobodyWaitsInVain, Waiting, InFlight
<1>5. ASSUME NEW t \in Tabs, Issues(t)
      PROVE  NobodyWaitsInVain'
  BY <1>5 DEF Issues, NobodyWaitsInVain, Waiting, InFlight, Typed
<1>6. ASSUME NEW t \in Tabs, RefreshSucceeds(t)
      PROVE  NobodyWaitsInVain'
  <2>1. Resumes(t, TRUE)
    BY <1>6 DEF RefreshSucceeds
  <2> QED
    BY <1>6, <2>1, Resuming DEF RefreshSucceeds, InFlight, NobodyWaitsInVain, Typed
<1>7. ASSUME NEW t \in Tabs, RefreshRefused(t)
      PROVE  NobodyWaitsInVain'
  <2>1. Resumes(t, FALSE)
    BY <1>7 DEF RefreshRefused
  <2> QED
    BY <1>7, <2>1, Resuming DEF RefreshRefused, InFlight, NobodyWaitsInVain, Typed
<1>8. ASSUME NEW t \in Tabs, RefreshLost(t)
      PROVE  NobodyWaitsInVain'
  <2>1. Resumes(t, FALSE)
    BY <1>8 DEF RefreshLost
  <2> QED
    BY <1>8, <2>1, Resuming DEF RefreshLost, InFlight, NobodyWaitsInVain, Typed
<1>9. ASSUME NEW t \in Tabs, Reloads(t)
      PROVE  NobodyWaitsInVain'
  BY <1>9 DEF Reloads, NobodyWaitsInVain, Waiting, InFlight, Typed
<1>10. ASSUME NEW t \in Tabs, BootRefreshes(t)
       PROVE  NobodyWaitsInVain'
  <2>1. \A u \in Tabs : u # t => (Waiting(u)' <=> Waiting(u))
    BY <1>10 DEF BootRefreshes, Waiting, Typed
  <2> QED
    BY <1>10, <2>1, Joining DEF BootRefreshes, NobodyWaitsInVain, InFlight
<1>11. ASSUME NEW t \in Tabs, BootFails(t)
       PROVE  NobodyWaitsInVain'
  BY <1>11 DEF BootFails, NobodyWaitsInVain, Waiting, InFlight, Typed
<1>12. ASSUME NEW t \in Tabs, BootEnds(t)
       PROVE  NobodyWaitsInVain'
  BY <1>12 DEF BootEnds, NobodyWaitsInVain, Waiting, InFlight, Typed
<1>13. ASSUME NEW t \in Tabs, PostsLogin(t)
       PROVE  NobodyWaitsInVain'
  BY <1>13 DEF PostsLogin, NobodyWaitsInVain, Waiting, InFlight, Typed
<1>14. ASSUME NEW t \in Tabs, ServerLogsIn(t)
       PROVE  NobodyWaitsInVain'
  BY <1>14 DEF ServerLogsIn, NobodyWaitsInVain, Waiting, InFlight, Typed
<1>15. ASSUME NEW t \in Tabs, LoggedIn(t)
       PROVE  NobodyWaitsInVain'
  BY <1>15 DEF LoggedIn, NobodyWaitsInVain, Waiting, InFlight, Typed
<1>16. ASSUME NEW t \in Tabs, PostsLogout(t)
       PROVE  NobodyWaitsInVain'
  BY <1>16 DEF PostsLogout, NobodyWaitsInVain, Waiting, InFlight, Typed
<1>17. ASSUME NEW t \in Tabs, ServerLogsOut(t)
       PROVE  NobodyWaitsInVain'
  BY <1>17 DEF ServerLogsOut, NobodyWaitsInVain, Waiting, InFlight, Typed
<1>18. ASSUME NEW t \in Tabs, LoggedOut(t)
       PROVE  NobodyWaitsInVain'
  BY <1>18 DEF LoggedOut, NobodyWaitsInVain, Waiting, InFlight, Typed
<1>19. ASSUME NEW t \in Tabs, LogoutLost(t)
       PROVE  NobodyWaitsInVain'
  BY <1>19 DEF LogoutLost, NobodyWaitsInVain, Waiting, InFlight, Typed
<1>20. ASSUME NEW r \in Requests, Sends(r)
       PROVE  NobodyWaitsInVain'
  BY <1>20 DEF Sends, NobodyWaitsInVain, Waiting, InFlight, Typed
<1>21. ASSUME NEW r \in Requests, Answered(r)
       PROVE  NobodyWaitsInVain'
  <2> DEFINE t == TabOf(r)
  <2>1. t \in Tabs
    BY SessionsAssumption
  <2>2. CASE Accepted(t)
    BY <1>21, <2>2 DEF Answered, NobodyWaitsInVain, Waiting, InFlight, Typed
  <2>3. CASE ~Accepted(t)
    <3>1. \A u \in Tabs : u # t => (Waiting(u)' <=> Waiting(u))
      BY <1>21, <2>3 DEF Answered, Waiting, Typed
    <3> QED
      BY <1>21, <2>1, <2>3, <3>1, Joining DEF Answered, NobodyWaitsInVain, InFlight
  <2> QED
    BY <2>2, <2>3
<1>22. ASSUME NEW r \in Requests, AnsweredAgain(r)
       PROVE  NobodyWaitsInVain'
  BY <1>22 DEF AnsweredAgain, NobodyWaitsInVain, Waiting, InFlight, Typed
<1>23. CASE UNCHANGED sessionVars
  BY <1>23 DEF sessionVars, NobodyWaitsInVain, Waiting, InFlight
<1> QED
  BY <1>1, <1>2, <1>3, <1>4, <1>5, <1>6, <1>7, <1>8, <1>9, <1>10, <1>11, <1>12,
     <1>13, <1>14, <1>15, <1>16, <1>17, <1>18, <1>19, <1>20, <1>21, <1>22, <1>23 DEF SessionsNext

\* What a caller that starts or joins a refresh does to the post of its tab.
LEMMA JoiningPost ==
    ASSUME Typed, NEW t \in Tabs, JoinsRefresh(t)
    PROVE  \/ flight' = flight /\ (shared' <=> shared)
           \/ /\ flight[t].pc = "none"
              /\ flight'[t].pc = "refresh" /\ flight'[t].token = cookie /\ flight'[t].new = 0
              /\ \A u \in Tabs : u # t => flight'[u] = flight[u]
              /\ shared' <=> (shared \/ RefreshShares(t))
<1> USE DEF Typed, JoinsRefresh, InFlight
<1>1. CASE flight[t].pc # "none"
  BY <1>1
<1>2. CASE flight[t].pc = "none"
  <2>1. shared' <=> (shared \/ RefreshShares(t))
    BY <1>2
  <2> QED
    BY <1>2, <2>1 DEF Post, FlightPosts, FlightPcs
<1> QED
  BY <1>1, <1>2

\* Where the server is with a refresh does not change what the tab presented
\* and what it is sent, and no token becomes unborn.
LEMMA Looking ==
    ASSUME Typed, NEW t \in Tabs, Looks(t)
    PROVE  /\ \A u \in Tabs : /\ flight'[u].token = flight[u].token /\ flight'[u].new = flight[u].new
                              /\ u # t => flight'[u].pc = flight[u].pc
           /\ flight'[t].pc \in {"refused", "checked"}
           /\ flight'[t].pc = "checked" => flight[t].token # 0
           /\ \A n \in Tokens : token'[n] = "unborn" => token[n] = "unborn"
           /\ (flight[t].token # 0 => token[flight[t].token] # "revoked") => token' = token
<1> USE DEF Typed, FlightPosts, FlightPcs
<1>1. PICK x \in {"refused", "checked"} : /\ flight' = [flight EXCEPT ![t].pc = x]
                                          /\ x = "checked" => flight[t].token # 0
  BY DEF Looks
<1>2. \A n \in Tokens : token'[n] = "unborn" => token[n] = "unborn"
  BY DEF Looks
<1>3. (flight[t].token # 0 => token[flight[t].token] # "revoked") => token' = token
  BY DEF Looks
<1> QED
  BY <1>1, <1>2, <1>3

\* The same of rotating, which revokes the token that was presented.
LEMMA Rotating ==
    ASSUME Typed, NEW t \in Tabs, Rotates(t), flight[t].token # 0
    PROVE  /\ \A u \in Tabs : /\ flight'[u].token = flight[u].token /\ flight'[u].new = flight[u].new
                              /\ u # t => flight'[u].pc = flight[u].pc
           /\ \/ flight'[t].pc = "refused" /\ token' = token
              \/ flight'[t].pc = "rotated" /\ token' = [token EXCEPT ![flight[t].token] = "revoked"]
<1> USE DEF Typed, FlightPosts, FlightPcs
<1>1. CASE disabled
  BY <1>1 DEF Rotates
<1>2. CASE ~disabled
  BY <1>2 DEF Rotates
<1> QED
  BY <1>1, <1>2

\* What a step that disturbs one tab's refresh, or one tab's form, has to show.
LEMMA FlightKnown ==
    ASSUME Known, OnItsWay, NEW t \in Tabs, form' = form,
            \A u \in Tabs : u # t => flight'[u].token = flight[u].token,
            \A u \in Tabs : u # t => flight'[u].new = flight[u].new,
            \A u \in Tabs : u # t => flight'[u].pc = flight[u].pc,
            \A n \in Tokens : token'[n] = "unborn" =>
                token[n] = "unborn" /\ n \notin {cookie', flight'[t].token, flight'[t].new},
            flight'[t].new # 0 <=> flight'[t].pc = "issued",
            flight'[t].pc \in {"checked", "rotated"} => flight'[t].token # 0
    PROVE  Known' /\ OnItsWay'
<1>1. ASSUME NEW u \in Tabs PROVE flight'[u].new # 0 <=> flight'[u].pc = "issued"
  <2>1. CASE u = t
    BY <2>1
  <2>2. CASE u # t
    BY <2>2 DEF OnItsWay
  <2> QED
    BY <2>1, <2>2
<1>2. \A u \in Tabs : form'[u].new # 0 <=> form'[u].pc = "welcome"
  BY DEF OnItsWay
<1>3. ASSUME NEW u \in Tabs PROVE flight'[u].pc \in {"checked", "rotated"} => flight'[u].token # 0
  <2>1. CASE u = t
    BY <2>1
  <2>2. CASE u # t
    BY <2>2 DEF OnItsWay
  <2> QED
    BY <2>1, <2>2
<1>4. OnItsWay'
  BY <1>1, <1>2, <1>3 DEF OnItsWay
<1>5. ASSUME NEW n \in Tokens, token'[n] = "unborn", NEW u \in Tabs
      PROVE  n # cookie' /\ n \notin {flight'[u].token, flight'[u].new, form'[u].token, form'[u].new}
  <2>1. token[n] = "unborn" /\ n \notin {cookie', flight'[t].token, flight'[t].new}
    BY <1>5
  <2>2. n \notin {flight[u].token, flight[u].new, form[u].token, form[u].new}
    BY <2>1 DEF Known
  <2>3. CASE u = t
    BY <2>1, <2>2, <2>3
  <2>4. CASE u # t
    BY <2>1, <2>2, <2>4
  <2> QED
    BY <2>3, <2>4
<1>6. Known'
  <2>1. ASSUME NEW n \in Tokens, token'[n] = "unborn" PROVE n # cookie'
    BY <2>1
  <2> QED
    BY <1>5, <2>1 DEF Known
<1> QED
  BY <1>4, <1>6

LEMMA FormKnown ==
    ASSUME Known, OnItsWay, NEW t \in Tabs, flight' = flight,
            \A u \in Tabs : u # t => form'[u].token = form[u].token,
            \A u \in Tabs : u # t => form'[u].new = form[u].new,
            \A u \in Tabs : u # t => form'[u].pc = form[u].pc,
            \A n \in Tokens : token'[n] = "unborn" =>
                token[n] = "unborn" /\ n \notin {cookie', form'[t].token, form'[t].new},
            form'[t].new # 0 <=> form'[t].pc = "welcome"
    PROVE  Known' /\ OnItsWay'
<1>1. \A u \in Tabs : flight'[u].new # 0 <=> flight'[u].pc = "issued"
  BY DEF OnItsWay
<1>2. ASSUME NEW u \in Tabs PROVE form'[u].new # 0 <=> form'[u].pc = "welcome"
  <2>1. CASE u = t
    BY <2>1
  <2>2. CASE u # t
    BY <2>2 DEF OnItsWay
  <2> QED
    BY <2>1, <2>2
<1>3. \A u \in Tabs : flight'[u].pc \in {"checked", "rotated"} => flight'[u].token # 0
  BY DEF OnItsWay
<1>4. OnItsWay'
  BY <1>1, <1>2, <1>3 DEF OnItsWay
<1>5. ASSUME NEW n \in Tokens, token'[n] = "unborn", NEW u \in Tabs
      PROVE  n # cookie' /\ n \notin {flight'[u].token, flight'[u].new, form'[u].token, form'[u].new}
  <2>1. token[n] = "unborn" /\ n \notin {cookie', form'[t].token, form'[t].new}
    BY <1>5
  <2>2. n \notin {flight[u].token, flight[u].new, form[u].token, form[u].new}
    BY <2>1 DEF Known
  <2>3. CASE u = t
    BY <2>1, <2>2, <2>3
  <2>4. CASE u # t
    BY <2>1, <2>2, <2>4
  <2> QED
    BY <2>3, <2>4
<1>6. Known'
  <2>1. ASSUME NEW n \in Tokens, token'[n] = "unborn" PROVE n # cookie'
    BY <2>1
  <2> QED
    BY <1>5, <2>1 DEF Known
<1> QED
  BY <1>4, <1>6

\* A caller that starts or joins a refresh presents what the cookie holds.
LEMMA JoinKnown ==
    ASSUME Typed, Known, OnItsWay, NEW t \in Tabs, JoinsRefresh(t),
           form' = form, cookie' = cookie, token' = token
    PROVE  Known' /\ OnItsWay'
<1>1. CASE flight' = flight
  BY <1>1 DEF Known, OnItsWay
<1>2. CASE flight' # flight
  <2>1. /\ flight[t].pc = "none"
        /\ flight'[t].pc = "refresh" /\ flight'[t].token = cookie /\ flight'[t].new = 0
        /\ \A u \in Tabs : u # t => flight'[u] = flight[u]
    BY <1>2, JoiningPost
  <2>2. \A n \in Tokens : token'[n] = "unborn" =>
          token[n] = "unborn" /\ n \notin {cookie', flight'[t].token, flight'[t].new}
    BY <2>1, SessionsAssumption DEF Known, Tokens
  <2>3. /\ \A u \in Tabs : u # t => flight'[u].token = flight[u].token
        /\ \A u \in Tabs : u # t => flight'[u].new = flight[u].new
        /\ \A u \in Tabs : u # t => flight'[u].pc = flight[u].pc
    BY <2>1
  <2> HIDE DEF Typed, Tokens, FlightPosts, FlightPcs, FormPosts, FormPcs
  <2> QED
    BY <2>1, <2>2, <2>3, FlightKnown
<1> QED
  BY <1>1, <1>2

\* Every step keeps it that what a browser holds or sends was handed out.
LEMMA KnownKept ==
    ASSUME Typed, Typed', Known, OnItsWay, [SessionsNext]_sessionVars
    PROVE  Known' /\ OnItsWay'
<1> USE SessionsAssumption DEF Typed, Tokens, FlightPosts, FlightPcs, FormPosts, FormPcs
<1>1. CASE Disables
  BY <1>1 DEF Disables, Known, OnItsWay, pageVars
<1>2. ASSUME NEW t \in Tabs, Expires(t)
      PROVE  Known' /\ OnItsWay'
  BY <1>2 DEF Expires, Known, OnItsWay, Nothing, Post, ClearedCookie, CookieAfter, pageVars, serverVars
<1>3. ASSUME NEW t \in Tabs, Looks(t)
      PROVE  Known' /\ OnItsWay'
  <2>1. \A n \in Tokens : token'[n] = "unborn" =>
          token[n] = "unborn" /\ n \notin {cookie', flight'[t].token, flight'[t].new}
    BY <1>3, Looking DEF Looks, Known
  <2>2. flight'[t].new # 0 <=> flight'[t].pc = "issued"
    BY <1>3, Looking DEF Looks, OnItsWay
  <2>3. flight'[t].pc \in {"checked", "rotated"} => flight'[t].token # 0
    BY <1>3, Looking
  <2>4. /\ \A u \in Tabs : u # t => flight'[u].token = flight[u].token
        /\ \A u \in Tabs : u # t => flight'[u].new = flight[u].new
        /\ \A u \in Tabs : u # t => flight'[u].pc = flight[u].pc
    BY <1>3, Looking
  <2>5. form' = form
    BY <1>3 DEF Looks
  <2> HIDE DEF Typed, Tokens, FlightPosts, FlightPcs, FormPosts, FormPcs
  <2> QED
    BY <2>1, <2>2, <2>3, <2>4, <2>5, FlightKnown
<1>4. ASSUME NEW t \in Tabs, Rotates(t)
      PROVE  Known' /\ OnItsWay'
  <2>0. flight[t].token # 0 /\ flight[t].token \in Tokens
    BY <1>4 DEF Rotates, OnItsWay
  <2>1. \A n \in Tokens : token'[n] = "unborn" =>
          token[n] = "unborn" /\ n \notin {cookie', flight'[t].token, flight'[t].new}
    <3>1. \A n \in Tokens : token'[n] = "unborn" => token[n] = "unborn"
      <4>1. CASE token' = token
        BY <4>1
      <4>2. CASE token' = [token EXCEPT ![flight[t].token] = "revoked"]
        BY <2>0, <4>2
      <4> QED
        BY <1>4, <2>0, <4>1, <4>2, Rotating
    <3> QED
      BY <1>4, <2>0, <3>1, Rotating DEF Rotates, Known
  <2>2. flight'[t].new # 0 <=> flight'[t].pc = "issued"
    BY <1>4, <2>0, Rotating DEF Rotates, OnItsWay
  <2>3. flight'[t].pc \in {"checked", "rotated"} => flight'[t].token # 0
    BY <1>4, <2>0, Rotating
  <2>4. /\ \A u \in Tabs : u # t => flight'[u].token = flight[u].token
        /\ \A u \in Tabs : u # t => flight'[u].new = flight[u].new
        /\ \A u \in Tabs : u # t => flight'[u].pc = flight[u].pc
    <3> HIDE DEF Tokens, FlightPosts, FlightPcs, FormPosts, FormPcs
    <3>1. Typed
      OBVIOUS
    <3> HIDE DEF Typed
    <3> QED
      BY <1>4, <2>0, <3>1, Rotating
  <2>5. form' = form
    BY <1>4 DEF Rotates
  <2> HIDE DEF Typed, Tokens, FlightPosts, FlightPcs, FormPosts, FormPcs
  <2> QED
    BY <2>1, <2>2, <2>3, <2>4, <2>5, FlightKnown
<1>5. ASSUME NEW t \in Tabs, Issues(t)
      PROVE  Known' /\ OnItsWay'
  <2>1. PICK n \in Tokens : /\ Born(n)
                            /\ token' = [token EXCEPT ![n] = "live"]
                            /\ flight' = [flight EXCEPT ![t].pc = "issued", ![t].new = n]
    BY <1>5 DEF Issues
  <2>2. n \in 0..MaxTokens /\ n # 0
    OBVIOUS
  <2>3. /\ flight'[t].pc = "issued" /\ flight'[t].new = n /\ flight'[t].token = flight[t].token
        /\ \A u \in Tabs : u # t => flight'[u].token = flight[u].token
        /\ \A u \in Tabs : u # t => flight'[u].new = flight[u].new
        /\ \A u \in Tabs : u # t => flight'[u].pc = flight[u].pc
    BY <2>1
  <2>4. \A m \in Tokens : token'[m] = "unborn" =>
          token[m] = "unborn" /\ m \notin {cookie', flight'[t].token, flight'[t].new}
    BY <1>5, <2>1, <2>3 DEF Issues, Known
  <2> HIDE DEF Typed, Tokens, FlightPosts, FlightPcs, FormPosts, FormPcs
  <2> QED
    BY <1>5, <2>2, <2>3, <2>4, FlightKnown DEF Issues
<1>6. ASSUME NEW t \in Tabs, RefreshSucceeds(t)
      PROVE  Known' /\ OnItsWay'
  BY <1>6 DEF RefreshSucceeds, Known, OnItsWay, Nothing, Post, ClearedCookie, CookieAfter, pageVars, serverVars
<1>7. ASSUME NEW t \in Tabs, RefreshRefused(t)
      PROVE  Known' /\ OnItsWay'
  BY <1>7 DEF RefreshRefused, Known, OnItsWay, Nothing, Post, ClearedCookie, CookieAfter, pageVars, serverVars
<1>8. ASSUME NEW t \in Tabs, RefreshLost(t)
      PROVE  Known' /\ OnItsWay'
  BY <1>8 DEF RefreshLost, Known, OnItsWay, Nothing, Post, ClearedCookie, CookieAfter, pageVars, serverVars
<1>9. ASSUME NEW t \in Tabs, Reloads(t)
      PROVE  Known' /\ OnItsWay'
  BY <1>9 DEF Reloads, Known, OnItsWay, Nothing, Post, ClearedCookie, CookieAfter, pageVars, serverVars
<1>10. ASSUME NEW t \in Tabs, BootRefreshes(t)
       PROVE  Known' /\ OnItsWay'
  <2>1. form' = form /\ cookie' = cookie /\ token' = token
    BY <1>10 DEF BootRefreshes, serverVars
  <2> QED
    BY <1>10, <2>1, JoinKnown DEF BootRefreshes
<1>11. ASSUME NEW t \in Tabs, BootFails(t)
       PROVE  Known' /\ OnItsWay'
  BY <1>11 DEF BootFails, Known, OnItsWay, Nothing, Post, ClearedCookie, CookieAfter, pageVars, serverVars
<1>12. ASSUME NEW t \in Tabs, BootEnds(t)
       PROVE  Known' /\ OnItsWay'
  BY <1>12 DEF BootEnds, Known, OnItsWay, Nothing, Post, ClearedCookie, CookieAfter, pageVars, serverVars
<1>13. ASSUME NEW t \in Tabs, PostsLogin(t)
       PROVE  Known' /\ OnItsWay'
  BY <1>13 DEF PostsLogin, Known, OnItsWay, Nothing, Post, ClearedCookie, CookieAfter, pageVars, serverVars
<1>14. ASSUME NEW t \in Tabs, ServerLogsIn(t)
       PROVE  Known' /\ OnItsWay'
  <2>1. flight' = flight /\ cookie' = cookie
    BY <1>14 DEF ServerLogsIn
  <2>2. CASE disabled
    <3>1. form' = [form EXCEPT ![t] = Nothing] /\ token' = token
      BY <1>14, <2>2 DEF ServerLogsIn
    <3>2. /\ form'[t].pc = "none" /\ form'[t].token = 0 /\ form'[t].new = 0
          /\ \A u \in Tabs : u # t => form'[u].token = form[u].token
          /\ \A u \in Tabs : u # t => form'[u].new = form[u].new
          /\ \A u \in Tabs : u # t => form'[u].pc = form[u].pc
      BY <3>1 DEF Nothing
    <3>3. \A m \in Tokens : token'[m] = "unborn" =>
            token[m] = "unborn" /\ m \notin {cookie', form'[t].token, form'[t].new}
      BY <2>1, <3>1, <3>2 DEF Known
    <3> HIDE DEF Typed, Tokens, FlightPosts, FlightPcs, FormPosts, FormPcs
    <3> QED
      BY <2>1, <3>2, <3>3, FormKnown
  <2>3. CASE ~disabled
    <3>1. PICK n \in Tokens : /\ Born(n)
                              /\ token' = [token EXCEPT ![n] = "live"]
                              /\ form' = [form EXCEPT ![t].pc = "welcome", ![t].new = n]
      BY <1>14, <2>3 DEF ServerLogsIn
    <3>2. n \in 0..MaxTokens /\ n # 0
      OBVIOUS
    <3>3. /\ form'[t].pc = "welcome" /\ form'[t].new = n /\ form'[t].token = form[t].token
          /\ \A u \in Tabs : u # t => form'[u].token = form[u].token
          /\ \A u \in Tabs : u # t => form'[u].new = form[u].new
          /\ \A u \in Tabs : u # t => form'[u].pc = form[u].pc
      BY <3>1
    <3>4. \A m \in Tokens : token'[m] = "unborn" =>
            token[m] = "unborn" /\ m \notin {cookie', form'[t].token, form'[t].new}
      BY <2>1, <3>1, <3>3 DEF Known
    <3> HIDE DEF Typed, Tokens, FlightPosts, FlightPcs, FormPosts, FormPcs
    <3> QED
      BY <2>1, <3>2, <3>3, <3>4, FormKnown
  <2> QED
    BY <2>2, <2>3
<1>15. ASSUME NEW t \in Tabs, LoggedIn(t)
       PROVE  Known' /\ OnItsWay'
  BY <1>15 DEF LoggedIn, Known, OnItsWay, Nothing, Post, ClearedCookie, CookieAfter, pageVars, serverVars
<1>16. ASSUME NEW t \in Tabs, PostsLogout(t)
       PROVE  Known' /\ OnItsWay'
  BY <1>16 DEF PostsLogout, Known, OnItsWay, Nothing, Post, ClearedCookie, CookieAfter, pageVars, serverVars
<1>17. ASSUME NEW t \in Tabs, ServerLogsOut(t)
       PROVE  Known' /\ OnItsWay'
  BY <1>17 DEF ServerLogsOut, Known, OnItsWay, Nothing, Post, ClearedCookie, CookieAfter, pageVars, serverVars
<1>18. ASSUME NEW t \in Tabs, LoggedOut(t)
       PROVE  Known' /\ OnItsWay'
  BY <1>18 DEF LoggedOut, Known, OnItsWay, Nothing, Post, ClearedCookie, CookieAfter, pageVars, serverVars
<1>19. ASSUME NEW t \in Tabs, LogoutLost(t)
       PROVE  Known' /\ OnItsWay'
  BY <1>19 DEF LogoutLost, Known, OnItsWay, Nothing, Post, ClearedCookie, CookieAfter, pageVars, serverVars
<1>20. ASSUME NEW r \in Requests, Sends(r)
       PROVE  Known' /\ OnItsWay'
  BY <1>20 DEF Sends, Known, OnItsWay, Nothing, Post, ClearedCookie, CookieAfter, pageVars, serverVars
<1>21. ASSUME NEW r \in Requests, Answered(r)
       PROVE  Known' /\ OnItsWay'
  <2>1. TabOf(r) \in Tabs /\ form' = form /\ cookie' = cookie /\ token' = token
    BY <1>21 DEF Answered, serverVars
  <2>2. CASE flight' = flight
    BY <2>1, <2>2 DEF Known, OnItsWay
  <2>3. CASE JoinsRefresh(TabOf(r))
    BY <2>1, <2>3, JoinKnown
  <2> QED
    BY <1>21, <2>2, <2>3 DEF Answered
<1>22. ASSUME NEW r \in Requests, AnsweredAgain(r)
       PROVE  Known' /\ OnItsWay'
  BY <1>22 DEF AnsweredAgain, Known, OnItsWay, Nothing, Post, ClearedCookie, CookieAfter, pageVars, serverVars
<1>23. CASE UNCHANGED sessionVars
  BY <1>23 DEF sessionVars, serverVars, Known, OnItsWay
<1> QED
  BY <1>1, <1>2, <1>3, <1>4, <1>5, <1>6, <1>7, <1>8, <1>9, <1>10, <1>11, <1>12,
     <1>13, <1>14, <1>15, <1>16, <1>17, <1>18, <1>19, <1>20, <1>21, <1>22, <1>23 DEF SessionsNext

-----------------------------------------------------------------------------

\* Where the tokens that are held and sent are from.
LEMMA Ranges ==
    ASSUME Typed
    PROVE  /\ \A u \in Tabs : flight[u].token # 0 => flight[u].token \in Tokens
           /\ \A u \in Tabs : flight[u].new # 0 => flight[u].new \in Tokens
           /\ \A u \in Tabs : form[u].token # 0 => form[u].token \in Tokens
           /\ \A u \in Tabs : form[u].new # 0 => form[u].new \in Tokens
           /\ cookie # 0 => cookie \in Tokens
           /\ \A n \in Tokens : n # 0
BY SessionsAssumption DEF Typed, Tokens, FlightPosts, FlightPcs, FormPosts, FormPcs

\* The server looks at a token, which is live.
LEMMA LooksGood ==
    ASSUME Typed, Good, NEW t \in Tabs, Looks(t)
    PROVE  Good'
<1>1. /\ flight[t].pc = "refresh" /\ cookie' = cookie /\ form' = form
      /\ \A u \in Tabs : flight'[u].token = flight[u].token
      /\ \A u \in Tabs : flight'[u].new = flight[u].new
      /\ \A u \in Tabs : u # t => flight'[u].pc = flight[u].pc
      /\ flight'[t].pc \in {"refused", "checked"}
  BY Looking DEF Looks
<1>2. token' = token
  <2>1. flight[t].token # 0 => token[flight[t].token] # "revoked"
    BY <1>1 DEF Good, Usable
  <2> QED
    BY <2>1, Looking
<1>3. Apart'
  BY <1>1 DEF Good, Apart
<1>4. Fresh'
  BY <1>1, <1>2 DEF Good, Fresh
<1>5. Usable'
  <2>1. ASSUME NEW u \in Tabs, flight'[u].pc \in {"refresh", "checked"}, flight'[u].token # 0
        PROVE  token'[flight'[u].token] = "live"
    <3>1. flight[u].pc \in {"refresh", "checked"}
      BY <1>1, <2>1
    <3> QED
      BY <1>1, <1>2, <2>1, <3>1 DEF Good, Usable
  <2>2. \A u \in Tabs : form'[u].pc = "logout" /\ form'[u].token # 0 => token'[form'[u].token] = "live"
    BY <1>1, <1>2 DEF Good, Usable
  <2> QED
    BY <2>1, <2>2 DEF Usable
<1>6. Covered'
  <2>1. CASE cookie = 0 \/ token[cookie] = "live"
    BY <1>1, <1>2, <2>1 DEF Covered
  <2>2. ASSUME NEW u \in Tabs, flight[u].token = cookie, flight[u].pc \in {"rotated", "issued"}
        PROVE  Covered'
    <3>1. flight'[u].token = cookie' /\ flight'[u].pc \in {"rotated", "issued"}
      BY <1>1, <2>2
    <3> QED
      BY <3>1 DEF Covered
  <2>3. ASSUME NEW u \in Tabs, form[u].token = cookie, form[u].pc = "goodbye"
        PROVE  Covered'
    BY <1>1, <2>3 DEF Covered
  <2> QED
    BY <2>1, <2>2, <2>3 DEF Good, Covered
<1> QED
  BY <1>3, <1>4, <1>5, <1>6 DEF Good

\* A token is used up: nobody else presents it, and if it is the cookie's the
\* answer is on its way from then on.
LEMMA RotatesGood ==
    ASSUME Typed, Good, OnItsWay, NEW t \in Tabs, Rotates(t)
    PROVE  Good'
<1> DEFINE n == flight[t].token
<1>1. /\ flight[t].pc = "checked" /\ n # 0 /\ cookie' = cookie /\ form' = form
  BY DEF Rotates, OnItsWay
<1>2. /\ \A u \in Tabs : flight'[u].token = flight[u].token
      /\ \A u \in Tabs : flight'[u].new = flight[u].new
      /\ \A u \in Tabs : u # t => flight'[u].pc = flight[u].pc
      /\ flight'[t].pc \in {"refused", "rotated"}
  BY <1>1, Rotating
<1>3. /\ \A m \in Tokens : m # n => token'[m] = token[m]
      /\ flight'[t].pc = "refused" => token' = token
  <2>1. CASE token' = token
    BY <2>1
  <2>2. CASE flight'[t].pc = "rotated" /\ token' = [token EXCEPT ![n] = "revoked"]
    BY <2>2 DEF Typed
  <2> QED
    BY <1>1, <2>1, <2>2, Rotating
<1>4. Apart'
  BY <1>1, <1>2 DEF Good, Apart
<1>5. Fresh'
  <2>1. \A u \in Tabs : flight[u].new # 0 => flight[u].new \in Tokens /\ flight[u].new # n
    BY Ranges DEF Good, Fresh
  <2>2. \A u \in Tabs : form[u].new # 0 => form[u].new \in Tokens /\ form[u].new # n
    BY Ranges DEF Good, Fresh
  <2>3. \A u \in Tabs : flight[u].new # 0 => token'[flight[u].new] = "live"
    BY <1>3, <2>1 DEF Good, Fresh
  <2>4. \A u \in Tabs : form[u].new # 0 => token'[form[u].new] = "live"
    BY <1>3, <2>2 DEF Good, Fresh
  <2> QED
    BY <1>1, <1>2, <2>3, <2>4 DEF Good, Fresh
<1>6. Usable'
  <2>1. ASSUME NEW u \in Tabs, flight'[u].pc \in {"refresh", "checked"}, flight'[u].token # 0
        PROVE  token'[flight'[u].token] = "live"
    <3>1. u # t
      BY <1>2, <2>1
    <3>2. flight[u].token \in Tokens /\ flight[u].token # n
      BY <1>1, <1>2, <2>1, <3>1, Ranges DEF Good, Apart
    <3> QED
      BY <1>2, <1>3, <2>1, <3>1, <3>2 DEF Good, Usable
  <2>2. ASSUME NEW u \in Tabs, form'[u].pc = "logout", form'[u].token # 0
        PROVE  token'[form'[u].token] = "live"
    <3>1. form[u].token \in Tokens /\ form[u].token # n
      BY <1>1, <2>2, Ranges DEF Good, Apart
    <3> QED
      BY <1>1, <1>3, <2>2, <3>1 DEF Good, Usable
  <2> QED
    BY <2>1, <2>2 DEF Usable
<1>7. Covered'
  <2>1. CASE cookie = 0
    BY <1>1, <2>1 DEF Covered
  <2>2. CASE cookie # 0 /\ token[cookie] = "live"
    <3>1. CASE cookie = n
      BY <1>1, <1>2, <1>3, <2>2, <3>1 DEF Covered
    <3>2. CASE cookie # n
      BY <1>1, <1>3, <2>2, <3>2, Ranges DEF Covered
    <3> QED
      BY <3>1, <3>2
  <2>3. ASSUME NEW u \in Tabs, flight[u].token = cookie, flight[u].pc \in {"rotated", "issued"}
        PROVE  Covered'
    <3>1. flight'[u].token = cookie' /\ flight'[u].pc \in {"rotated", "issued"}
      BY <1>1, <1>2, <2>3
    <3> QED
      BY <3>1 DEF Covered
  <2>4. ASSUME NEW u \in Tabs, form[u].token = cookie, form[u].pc = "goodbye"
        PROVE  Covered'
    BY <1>1, <2>4 DEF Covered
  <2> QED
    BY <2>1, <2>2, <2>3, <2>4 DEF Good, Covered
<1> QED
  BY <1>4, <1>5, <1>6, <1>7 DEF Good

\* The new token is one that nobody holds.
LEMMA IssuesGood ==
    ASSUME Typed, Good, Known, OnItsWay, NEW t \in Tabs, Issues(t)
    PROVE  Good'
<1>1. PICK n \in Tokens : /\ token[n] = "unborn"
                          /\ token' = [token EXCEPT ![n] = "live"]
                          /\ flight' = [flight EXCEPT ![t].pc = "issued", ![t].new = n]
  BY DEF Issues, Born, Unborn
<1>2. /\ flight[t].pc = "rotated" /\ cookie' = cookie /\ form' = form
      /\ n # 0 /\ n \in 0..MaxTokens
  BY SessionsAssumption DEF Issues, Tokens
<1>3. /\ \A u \in Tabs : flight'[u].token = flight[u].token
      /\ \A u \in Tabs : u # t => flight'[u].new = flight[u].new
      /\ \A u \in Tabs : u # t => flight'[u].pc = flight[u].pc
      /\ flight'[t].pc = "issued" /\ flight'[t].new = n
  BY <1>1 DEF Typed, Tokens, FlightPosts, FlightPcs, FormPosts, FormPcs
<1>4. /\ token'[n] = "live"
      /\ \A m \in Tokens : m # n => token'[m] = token[m]
      /\ \A m \in Tokens : token[m] = "live" => token'[m] = "live"
  BY <1>1 DEF Typed
<1>5. /\ n # cookie
      /\ \A u \in Tabs : n \notin {flight[u].token, flight[u].new, form[u].token, form[u].new}
  BY <1>1 DEF Known
<1>6. Apart'
  BY <1>2, <1>3 DEF Good, Apart
<1>7. Fresh'
  <2>1. ASSUME NEW u \in Tabs, flight'[u].new # 0
        PROVE  /\ flight'[u].new # cookie' /\ token'[flight'[u].new] = "live"
               /\ \A v \in Tabs : /\ flight'[u].new \notin {flight'[v].token, form'[v].token, form'[v].new}
                                  /\ v # u => flight'[u].new # flight'[v].new
    <3>1. CASE u = t
      BY <1>2, <1>3, <1>4, <1>5, <3>1
    <3>2. CASE u # t
      <4>1. flight[u].new # 0 /\ flight'[u].new = flight[u].new /\ flight[u].new \in Tokens
        BY <1>3, <2>1, <3>2, Ranges
      <4>2. flight[u].new # cookie /\ token[flight[u].new] = "live"
        BY <4>1 DEF Good, Fresh
      <4>3. ASSUME NEW v \in Tabs
            PROVE  /\ flight'[u].new \notin {flight'[v].token, form'[v].token, form'[v].new}
                   /\ v # u => flight'[u].new # flight'[v].new
        <5>1. /\ flight[u].new \notin {flight[v].token, form[v].token, form[v].new}
              /\ v # u => flight[u].new # flight[v].new
          BY <4>1 DEF Good, Fresh
        <5>2. v = t => flight'[u].new # flight'[v].new
          BY <1>3, <1>5, <4>1
        <5> QED
          BY <1>2, <1>3, <4>1, <5>1, <5>2
      <4> QED
        BY <1>2, <1>4, <4>1, <4>2, <4>3
    <3> QED
      BY <3>1, <3>2
  <2>2. ASSUME NEW u \in Tabs, form'[u].new # 0
        PROVE  /\ form'[u].new # cookie' /\ token'[form'[u].new] = "live"
               /\ \A v \in Tabs : /\ form'[u].new \notin {flight'[v].token, form'[v].token}
                                  /\ v # u => form'[u].new # form'[v].new
    <3>1. form[u].new # 0 /\ form[u].new \in Tokens
      BY <1>2, <2>2, Ranges
    <3>2. form[u].new # cookie /\ token[form[u].new] = "live"
      BY <3>1 DEF Good, Fresh
    <3>3. \A v \in Tabs : /\ form[u].new \notin {flight[v].token, form[v].token}
                          /\ v # u => form[u].new # form[v].new
      BY <3>1 DEF Good, Fresh
    <3> QED
      BY <1>2, <1>3, <1>4, <3>1, <3>2, <3>3
  <2> QED
    BY <2>1, <2>2 DEF Fresh
<1>8. Usable'
  <2>1. ASSUME NEW u \in Tabs, flight'[u].pc \in {"refresh", "checked"}, flight'[u].token # 0
        PROVE  token'[flight'[u].token] = "live"
    <3>1. u # t
      BY <1>3, <2>1
    <3>2. flight[u].token \in Tokens /\ token[flight[u].token] = "live"
      BY <1>3, <2>1, <3>1, Ranges DEF Good, Usable
    <3> QED
      BY <1>3, <1>4, <3>2
  <2>2. ASSUME NEW u \in Tabs, form'[u].pc = "logout", form'[u].token # 0
        PROVE  token'[form'[u].token] = "live"
    <3>1. form[u].token \in Tokens /\ token[form[u].token] = "live"
      BY <1>2, <2>2, Ranges DEF Good, Usable
    <3> QED
      BY <1>2, <1>4, <3>1
  <2> QED
    BY <2>1, <2>2 DEF Usable
<1>9. Covered'
  <2>1. CASE cookie = 0
    BY <1>2, <2>1 DEF Covered
  <2>2. CASE cookie # 0 /\ token[cookie] = "live"
    BY <1>2, <1>4, <2>2, Ranges DEF Covered
  <2>3. ASSUME NEW u \in Tabs, flight[u].token = cookie, flight[u].pc \in {"rotated", "issued"}
        PROVE  Covered'
    <3>1. flight'[u].token = cookie' /\ flight'[u].pc \in {"rotated", "issued"}
      BY <1>2, <1>3, <2>3
    <3> QED
      BY <3>1 DEF Covered
  <2>4. ASSUME NEW u \in Tabs, form[u].token = cookie, form[u].pc = "goodbye"
        PROVE  Covered'
    BY <1>2, <2>4 DEF Covered
  <2> QED
    BY <2>1, <2>2, <2>3, <2>4 DEF Good, Covered
<1> QED
  BY <1>6, <1>7, <1>8, <1>9 DEF Good

\* A refresh is answered: it is over, and if it was granted the cookie holds
\* the new token, which nobody else was sent.
LEMMA RefreshAnswered ==
    ASSUME Typed, Good, NEW t \in Tabs, flight' = [flight EXCEPT ![t] = Nothing],
           form' = form, token' = token,
           \/ cookie' = cookie /\ flight[t].pc = "refused"
           \/ cookie' = flight[t].new /\ flight[t].new # 0
    PROVE  Good'
<1>1. /\ \A u \in Tabs : u # t => flight'[u] = flight[u]
      /\ flight'[t].pc = "none" /\ flight'[t].token = 0 /\ flight'[t].new = 0
  BY DEF Typed, Nothing
<1>2. Apart'
  <2>1. ASSUME NEW u \in Tabs, flight'[u].token # 0
        PROVE  /\ \A v \in Tabs : u # v => flight'[u].token # flight'[v].token
               /\ \A v \in Tabs : flight'[u].token # form'[v].token
    BY <1>1, <2>1 DEF Good, Apart
  <2> QED
    BY <2>1 DEF Good, Apart
<1>3. Fresh'
  <2>1. ASSUME NEW u \in Tabs, flight'[u].new # 0
        PROVE  /\ flight'[u].new # cookie' /\ token'[flight'[u].new] = "live"
               /\ \A v \in Tabs : /\ flight'[u].new \notin {flight'[v].token, form'[v].token, form'[v].new}
                                  /\ v # u => flight'[u].new # flight'[v].new
    <3>1. u # t /\ flight'[u] = flight[u] /\ flight[u].new # 0
      BY <1>1, <2>1
    <3>2. flight[u].new # cookie' /\ token[flight[u].new] = "live"
      BY <3>1 DEF Good, Fresh
    <3>3. ASSUME NEW v \in Tabs
          PROVE  /\ flight'[u].new \notin {flight'[v].token, form'[v].token, form'[v].new}
                 /\ v # u => flight'[u].new # flight'[v].new
      <4>1. /\ flight[u].new \notin {flight[v].token, form[v].token, form[v].new}
            /\ v # u => flight[u].new # flight[v].new
        BY <3>1 DEF Good, Fresh
      <4> QED
        BY <1>1, <3>1, <4>1
    <3> QED
      BY <3>1, <3>2, <3>3
  <2>2. ASSUME NEW u \in Tabs, form'[u].new # 0
        PROVE  /\ form'[u].new # cookie' /\ token'[form'[u].new] = "live"
               /\ \A v \in Tabs : /\ form'[u].new \notin {flight'[v].token, form'[v].token}
                                  /\ v # u => form'[u].new # form'[v].new
    <3>1. form'[u].new # cookie' /\ token'[form'[u].new] = "live"
      BY <2>2 DEF Good, Fresh
    <3>2. \A v \in Tabs : /\ form[u].new \notin {flight[v].token, form[v].token}
                          /\ v # u => form[u].new # form[v].new
      BY <2>2 DEF Good, Fresh
    <3> QED
      BY <1>1, <2>2, <3>1, <3>2
  <2> QED
    BY <2>1, <2>2 DEF Fresh
<1>4. Usable'
  <2>1. ASSUME NEW u \in Tabs, flight'[u].pc \in {"refresh", "checked"}, flight'[u].token # 0
        PROVE  token'[flight'[u].token] = "live"
    BY <1>1, <2>1 DEF Good, Usable
  <2> QED
    BY <2>1 DEF Good, Usable
<1>5. Covered'
  <2>1. CASE cookie' = flight[t].new /\ flight[t].new # 0
    BY <2>1 DEF Good, Fresh, Covered
  <2>2. CASE cookie' = cookie /\ flight[t].pc = "refused"
    <3>1. CASE cookie = 0 \/ token[cookie] = "live"
      BY <2>2, <3>1 DEF Covered
    <3>2. ASSUME NEW u \in Tabs, flight[u].token = cookie, flight[u].pc \in {"rotated", "issued"}
          PROVE  Covered'
      <4>1. flight'[u].token = cookie' /\ flight'[u].pc \in {"rotated", "issued"}
        BY <1>1, <2>2, <3>2
      <4> QED
        BY <4>1 DEF Covered
    <3>3. ASSUME NEW u \in Tabs, form[u].token = cookie, form[u].pc = "goodbye"
          PROVE  Covered'
      BY <2>2, <3>3 DEF Covered
    <3> QED
      BY <3>1, <3>2, <3>3 DEF Good, Covered
  <2> QED
    BY <2>1, <2>2
<1> QED
  BY <1>2, <1>3, <1>4, <1>5 DEF Good

\* The same of a form: after a login the cookie holds the new token, after a
\* logout none.
LEMMA FormAnswered ==
    ASSUME Typed, Good, NEW t \in Tabs, form' = [form EXCEPT ![t] = Nothing],
           flight' = flight, token' = token,
           \/ cookie' = cookie /\ form[t].pc = "login"
           \/ cookie' = form[t].new /\ form[t].new # 0
           \/ cookie' = 0
    PROVE  Good'
<1>1. /\ \A u \in Tabs : u # t => form'[u] = form[u]
      /\ form'[t].pc = "none" /\ form'[t].token = 0 /\ form'[t].new = 0
  BY DEF Typed, Nothing
<1>2. Apart'
  <2>1. ASSUME NEW u \in Tabs, form'[u].token # 0
        PROVE  \A v \in Tabs : u # v => form'[u].token # form'[v].token
    BY <1>1, <2>1 DEF Good, Apart
  <2>2. ASSUME NEW u \in Tabs, flight'[u].token # 0
        PROVE  \A v \in Tabs : flight'[u].token # form'[v].token
    BY <1>1, <2>2 DEF Good, Apart
  <2> QED
    BY <2>1, <2>2 DEF Good, Apart
<1>3. Fresh'
  <2>1. ASSUME NEW u \in Tabs, form'[u].new # 0
        PROVE  /\ form'[u].new # cookie' /\ token'[form'[u].new] = "live"
               /\ \A v \in Tabs : /\ form'[u].new \notin {flight'[v].token, form'[v].token}
                                  /\ v # u => form'[u].new # form'[v].new
    <3>1. u # t /\ form'[u] = form[u] /\ form[u].new # 0
      BY <1>1, <2>1
    <3>2. form[u].new # cookie' /\ token[form[u].new] = "live"
      BY <3>1 DEF Good, Fresh
    <3>3. ASSUME NEW v \in Tabs
          PROVE  /\ form'[u].new \notin {flight'[v].token, form'[v].token}
                 /\ v # u => form'[u].new # form'[v].new
      <4>1. /\ form[u].new \notin {flight[v].token, form[v].token}
            /\ v # u => form[u].new # form[v].new
        BY <3>1 DEF Good, Fresh
      <4> QED
        BY <1>1, <3>1, <4>1
    <3> QED
      BY <3>1, <3>2, <3>3
  <2>2. ASSUME NEW u \in Tabs, flight'[u].new # 0
        PROVE  /\ flight'[u].new # cookie' /\ token'[flight'[u].new] = "live"
               /\ \A v \in Tabs : /\ flight'[u].new \notin {flight'[v].token, form'[v].token, form'[v].new}
                                  /\ v # u => flight'[u].new # flight'[v].new
    <3>1. flight'[u].new # cookie' /\ token'[flight'[u].new] = "live"
      BY <2>2 DEF Good, Fresh
    <3>2. \A v \in Tabs : /\ flight[u].new \notin {flight[v].token, form[v].token, form[v].new}
                          /\ v # u => flight[u].new # flight[v].new
      BY <2>2 DEF Good, Fresh
    <3> QED
      BY <1>1, <2>2, <3>1, <3>2
  <2> QED
    BY <2>1, <2>2 DEF Fresh
<1>4. Usable'
  <2>1. ASSUME NEW u \in Tabs, form'[u].pc = "logout", form'[u].token # 0
        PROVE  token'[form'[u].token] = "live"
    BY <1>1, <2>1 DEF Good, Usable
  <2> QED
    BY <2>1 DEF Good, Usable
<1>5. Covered'
  <2>1. CASE cookie' = form[t].new /\ form[t].new # 0
    BY <2>1 DEF Good, Fresh, Covered
  <2>2. CASE cookie' = 0
    BY <2>2 DEF Covered
  <2>3. CASE cookie' = cookie /\ form[t].pc = "login"
    <3>1. CASE cookie = 0 \/ token[cookie] = "live"
      BY <2>3, <3>1 DEF Covered
    <3>2. ASSUME NEW u \in Tabs, form[u].token = cookie, form[u].pc = "goodbye"
          PROVE  Covered'
      <4>1. form'[u].token = cookie' /\ form'[u].pc = "goodbye"
        BY <1>1, <2>3, <3>2
      <4> QED
        BY <4>1 DEF Covered
    <3>3. ASSUME NEW u \in Tabs, flight[u].token = cookie, flight[u].pc \in {"rotated", "issued"}
          PROVE  Covered'
      BY <2>3, <3>3 DEF Covered
    <3> QED
      BY <3>1, <3>2, <3>3 DEF Good, Covered
  <2> QED
    BY <2>1, <2>2, <2>3
<1> QED
  BY <1>2, <1>3, <1>4, <1>5 DEF Good

\* A refresh is started with a live token that no other post presents.
LEMMA RefreshPosted ==
    ASSUME Typed, Good, NEW t \in Tabs, JoinsRefresh(t), ~shared',
           form' = form, token' = token, cookie' = cookie
    PROVE  Good'
<1>1. CASE flight' = flight
  BY <1>1 DEF Good, Apart, Fresh, Usable, Covered
<1>2. CASE flight' # flight
  <2>1. /\ flight[t].pc = "none"
        /\ flight'[t].pc = "refresh" /\ flight'[t].token = cookie /\ flight'[t].new = 0
        /\ \A u \in Tabs : u # t => flight'[u] = flight[u]
        /\ ~RefreshShares(t)
    BY <1>2, JoiningPost
  <2>2. cookie # 0 => /\ \A u \in Tabs : u # t => flight[u].token # cookie
                      /\ \A u \in Tabs : form[u].token # cookie
    BY <2>1 DEF RefreshShares, Presents
  <2>3. cookie # 0 => token[cookie] = "live"
    <3>1. ASSUME cookie # 0, NEW u \in Tabs, flight[u].token = cookie
          PROVE  flight[u].pc \notin {"rotated", "issued"}
      BY <2>1, <2>2, <3>1
    <3> QED
      BY <2>2, <3>1 DEF Good, Covered
  <2>4. Apart'
    <3>1. ASSUME NEW u \in Tabs, flight'[u].token # 0
          PROVE  /\ \A v \in Tabs : u # v => flight'[u].token # flight'[v].token
                 /\ \A v \in Tabs : flight'[u].token # form'[v].token
      <4>1. CASE u = t
        BY <2>1, <2>2, <3>1, <4>1
      <4>2. CASE u # t
        <5>1. flight'[u].token = flight[u].token
          BY <2>1, <4>2
        <5>2. flight[u].token # cookie
          BY <2>2, <3>1, <4>2, <5>1
        <5>3. ASSUME NEW v \in Tabs, u # v PROVE flight'[u].token # flight'[v].token
          BY <2>1, <3>1, <5>1, <5>2, <5>3 DEF Good, Apart
        <5> QED
          BY <3>1, <5>1, <5>3 DEF Good, Apart
      <4> QED
        BY <4>1, <4>2
    <3> QED
      BY <3>1 DEF Good, Apart
  <2>5. Fresh'
    <3>1. ASSUME NEW u \in Tabs, flight'[u].new # 0
          PROVE  /\ flight'[u].new # cookie' /\ token'[flight'[u].new] = "live"
                 /\ \A v \in Tabs : /\ flight'[u].new \notin {flight'[v].token, form'[v].token, form'[v].new}
                                    /\ v # u => flight'[u].new # flight'[v].new
      <4>1. u # t /\ flight'[u] = flight[u] /\ flight[u].new # 0
        BY <2>1, <3>1
      <4>2. flight[u].new # cookie /\ token[flight[u].new] = "live"
        BY <4>1 DEF Good, Fresh
      <4>3. ASSUME NEW v \in Tabs
            PROVE  /\ flight'[u].new \notin {flight'[v].token, form'[v].token, form'[v].new}
                   /\ v # u => flight'[u].new # flight'[v].new
        <5>1. /\ flight[u].new \notin {flight[v].token, form[v].token, form[v].new}
              /\ v # u => flight[u].new # flight[v].new
          BY <4>1 DEF Good, Fresh
        <5> QED
          BY <2>1, <4>1, <4>2, <5>1
      <4> QED
        BY <4>1, <4>2, <4>3
    <3>2. ASSUME NEW u \in Tabs, form'[u].new # 0
          PROVE  /\ form'[u].new # cookie' /\ token'[form'[u].new] = "live"
                 /\ \A v \in Tabs : /\ form'[u].new \notin {flight'[v].token, form'[v].token}
                                    /\ v # u => form'[u].new # form'[v].new
      <4>1. form[u].new # cookie /\ token[form[u].new] = "live"
        BY <3>2 DEF Good, Fresh
      <4>2. \A v \in Tabs : /\ form[u].new \notin {flight[v].token, form[v].token}
                            /\ v # u => form[u].new # form[v].new
        BY <3>2 DEF Good, Fresh
      <4> QED
        BY <2>1, <3>2, <4>1, <4>2
    <3> QED
      BY <3>1, <3>2 DEF Fresh
  <2>6. Usable'
    <3>1. ASSUME NEW u \in Tabs, flight'[u].pc \in {"refresh", "checked"}, flight'[u].token # 0
          PROVE  token'[flight'[u].token] = "live"
      <4>1. CASE u = t
        BY <2>1, <2>3, <3>1, <4>1
      <4>2. CASE u # t
        BY <2>1, <3>1, <4>2 DEF Good, Usable
      <4> QED
        BY <4>1, <4>2
    <3> QED
      BY <3>1 DEF Good, Usable
  <2>7. Covered'
    BY <2>3 DEF Covered
  <2> QED
    BY <2>4, <2>5, <2>6, <2>7 DEF Good
<1> QED
  BY <1>1, <1>2

\* A login presents nothing; a logout a live token that no other post presents.
LEMMA FormPosted ==
    ASSUME Typed, Good, NEW t \in Tabs, NEW x \in {0, cookie}, form[t].pc = "none",
           form'[t].pc \in {"login", "logout"}, form'[t].token = x, form'[t].new = 0,
           \A u \in Tabs : u # t => form'[u] = form[u],
           x # 0 => ~LogoutShares(t),
           flight' = flight, token' = token, cookie' = cookie
    PROVE  Good'
<1>1. x # 0 => /\ \A u \in Tabs : flight[u].token # cookie
               /\ \A u \in Tabs : u # t => form[u].token # cookie
  BY DEF LogoutShares, Presents
<1>2. x # 0 => token[cookie] = "live"
  <2>1. ASSUME x # 0, NEW u \in Tabs, form[u].token = cookie
        PROVE  form[u].pc # "goodbye"
    BY <1>1, <2>1
  <2> QED
    BY <1>1, <2>1 DEF Good, Covered
<1>3. Apart'
  <2>1. ASSUME NEW u \in Tabs, form'[u].token # 0, NEW v \in Tabs, u # v
        PROVE  form'[u].token # form'[v].token
    <3>1. CASE u = t
      BY <1>1, <2>1, <3>1
    <3>2. CASE u # t
      <4>1. form'[u] = form[u]
        BY <3>2
      <4>2. CASE v = t
        BY <1>1, <2>1, <3>2, <4>1, <4>2
      <4>3. CASE v # t
        BY <2>1, <4>1, <4>3 DEF Good, Apart
      <4> QED
        BY <4>2, <4>3
    <3> QED
      BY <3>1, <3>2
  <2>2. ASSUME NEW u \in Tabs, flight'[u].token # 0, NEW v \in Tabs
        PROVE  flight'[u].token # form'[v].token
    <3>1. CASE v = t
      BY <1>1, <2>2, <3>1
    <3>2. CASE v # t
      BY <2>2, <3>2 DEF Good, Apart
    <3> QED
      BY <3>1, <3>2
  <2> QED
    BY <2>1, <2>2 DEF Good, Apart
<1>4. Fresh'
  <2>1. ASSUME NEW u \in Tabs, flight'[u].new # 0
        PROVE  /\ flight'[u].new # cookie' /\ token'[flight'[u].new] = "live"
               /\ \A v \in Tabs : /\ flight'[u].new \notin {flight'[v].token, form'[v].token, form'[v].new}
                                  /\ v # u => flight'[u].new # flight'[v].new
    <3>1. flight[u].new # cookie /\ token[flight[u].new] = "live"
      BY <2>1 DEF Good, Fresh
    <3>2. ASSUME NEW v \in Tabs
          PROVE  /\ flight'[u].new \notin {flight'[v].token, form'[v].token, form'[v].new}
                 /\ v # u => flight'[u].new # flight'[v].new
      <4>1. /\ flight[u].new \notin {flight[v].token, form[v].token, form[v].new}
            /\ v # u => flight[u].new # flight[v].new
        BY <2>1 DEF Good, Fresh
      <4>2. CASE v = t
        BY <2>1, <3>1, <4>1, <4>2
      <4>3. CASE v # t
        BY <4>1, <4>3
      <4> QED
        BY <4>2, <4>3
    <3> QED
      BY <3>1, <3>2
  <2>2. ASSUME NEW u \in Tabs, form'[u].new # 0
        PROVE  /\ form'[u].new # cookie' /\ token'[form'[u].new] = "live"
               /\ \A v \in Tabs : /\ form'[u].new \notin {flight'[v].token, form'[v].token}
                                  /\ v # u => form'[u].new # form'[v].new
    <3>1. u # t /\ form'[u] = form[u] /\ form[u].new # 0
      BY <2>2
    <3>2. form[u].new # cookie /\ token[form[u].new] = "live"
      BY <3>1 DEF Good, Fresh
    <3>3. ASSUME NEW v \in Tabs
          PROVE  /\ form'[u].new \notin {flight'[v].token, form'[v].token}
                 /\ v # u => form'[u].new # form'[v].new
      <4>1. /\ form[u].new \notin {flight[v].token, form[v].token}
            /\ v # u => form[u].new # form[v].new
        BY <3>1 DEF Good, Fresh
      <4> QED
        BY <3>1, <3>2, <4>1
    <3> QED
      BY <3>1, <3>2, <3>3
  <2> QED
    BY <2>1, <2>2 DEF Fresh
<1>5. Usable'
  <2>1. ASSUME NEW u \in Tabs, form'[u].pc = "logout", form'[u].token # 0
        PROVE  token'[form'[u].token] = "live"
    <3>1. CASE u = t
      BY <1>2, <2>1, <3>1
    <3>2. CASE u # t
      BY <2>1, <3>2 DEF Good, Usable
    <3> QED
      BY <3>1, <3>2
  <2> QED
    BY <2>1 DEF Good, Usable
<1>6. Covered'
  <2>1. CASE cookie = 0 \/ token[cookie] = "live"
    BY <2>1 DEF Covered
  <2>2. ASSUME NEW u \in Tabs, flight[u].token = cookie, flight[u].pc \in {"rotated", "issued"}
        PROVE  Covered'
    BY <2>2 DEF Covered
  <2>3. ASSUME NEW u \in Tabs, form[u].token = cookie, form[u].pc = "goodbye"
        PROVE  Covered'
    <3>1. form'[u].token = cookie' /\ form'[u].pc = "goodbye"
      BY <2>3
    <3> QED
      BY <3>1 DEF Covered
  <2> QED
    BY <2>1, <2>2, <2>3 DEF Good, Covered
<1> QED
  BY <1>3, <1>4, <1>5, <1>6 DEF Good

\* Who logs in is sent a token that nobody holds.
LEMMA LogsInGood ==
    ASSUME Typed, Good, Known, NEW t \in Tabs, ServerLogsIn(t)
    PROVE  Good'
<1>1. CASE disabled
  <2>1. form' = [form EXCEPT ![t] = Nothing] /\ token' = token
    BY <1>1 DEF ServerLogsIn
  <2> QED
    BY <2>1, FormAnswered DEF ServerLogsIn
<1>2. CASE ~disabled
  <2>1. PICK n \in Tokens : /\ token[n] = "unborn"
                            /\ token' = [token EXCEPT ![n] = "live"]
                            /\ form' = [form EXCEPT ![t].pc = "welcome", ![t].new = n]
    BY <1>2 DEF ServerLogsIn, Born, Unborn
  <2>2. /\ form[t].pc = "login" /\ cookie' = cookie /\ flight' = flight
        /\ n # 0 /\ n \in 0..MaxTokens
    BY SessionsAssumption DEF ServerLogsIn, Tokens
  <2>3. /\ \A u \in Tabs : form'[u].token = form[u].token
        /\ \A u \in Tabs : u # t => form'[u].new = form[u].new
        /\ \A u \in Tabs : u # t => form'[u].pc = form[u].pc
        /\ form'[t].pc = "welcome" /\ form'[t].new = n
    BY <2>1 DEF Typed, Tokens, FlightPosts, FlightPcs, FormPosts, FormPcs
  <2>4. /\ token'[n] = "live"
        /\ \A m \in Tokens : m # n => token'[m] = token[m]
        /\ \A m \in Tokens : token[m] = "live" => token'[m] = "live"
    BY <2>1 DEF Typed
  <2>5. /\ n # cookie
        /\ \A u \in Tabs : n \notin {flight[u].token, flight[u].new, form[u].token, form[u].new}
    BY <2>1 DEF Known
  <2>6. Apart'
    BY <2>2, <2>3 DEF Good, Apart
  <2>7. Fresh'
    <3>1. ASSUME NEW u \in Tabs, form'[u].new # 0
          PROVE  /\ form'[u].new # cookie' /\ token'[form'[u].new] = "live"
                 /\ \A v \in Tabs : /\ form'[u].new \notin {flight'[v].token, form'[v].token}
                                    /\ v # u => form'[u].new # form'[v].new
      <4>1. CASE u = t
        BY <2>2, <2>3, <2>4, <2>5, <4>1
      <4>2. CASE u # t
        <5>1. form[u].new # 0 /\ form'[u].new = form[u].new /\ form[u].new \in Tokens
          BY <2>3, <3>1, <4>2, Ranges
        <5>2. form[u].new # cookie /\ token[form[u].new] = "live"
          BY <5>1 DEF Good, Fresh
        <5>3. ASSUME NEW v \in Tabs
              PROVE  /\ form'[u].new \notin {flight'[v].token, form'[v].token}
                     /\ v # u => form'[u].new # form'[v].new
          <6>1. /\ form[u].new \notin {flight[v].token, form[v].token}
                /\ v # u => form[u].new # form[v].new
            BY <5>1 DEF Good, Fresh
          <6>2. v = t => form'[u].new # form'[v].new
            BY <2>3, <2>5, <5>1
          <6> QED
            BY <2>2, <2>3, <5>1, <6>1, <6>2
        <5> QED
          BY <2>2, <2>4, <5>1, <5>2, <5>3
      <4> QED
        BY <4>1, <4>2
    <3>2. ASSUME NEW u \in Tabs, flight'[u].new # 0
          PROVE  /\ flight'[u].new # cookie' /\ token'[flight'[u].new] = "live"
                 /\ \A v \in Tabs : /\ flight'[u].new \notin {flight'[v].token, form'[v].token, form'[v].new}
                                    /\ v # u => flight'[u].new # flight'[v].new
      <4>1. flight[u].new # 0 /\ flight[u].new \in Tokens
        BY <2>2, <3>2, Ranges
      <4>2. flight[u].new # cookie /\ token[flight[u].new] = "live"
        BY <4>1 DEF Good, Fresh
      <4>3. ASSUME NEW v \in Tabs
            PROVE  /\ flight'[u].new \notin {flight'[v].token, form'[v].token, form'[v].new}
                   /\ v # u => flight'[u].new # flight'[v].new
        <5>1. /\ flight[u].new \notin {flight[v].token, form[v].token, form[v].new}
              /\ v # u => flight[u].new # flight[v].new
          BY <4>1 DEF Good, Fresh
        <5>2. v = t => flight'[u].new # form'[v].new
          BY <2>2, <2>3, <2>5
        <5> QED
          BY <2>2, <2>3, <5>1, <5>2
      <4> QED
        BY <2>2, <2>4, <4>1, <4>2, <4>3
    <3> QED
      BY <3>1, <3>2 DEF Fresh
  <2>8. Usable'
    <3>1. ASSUME NEW u \in Tabs, form'[u].pc = "logout", form'[u].token # 0
          PROVE  token'[form'[u].token] = "live"
      <4>1. u # t
        BY <2>3, <3>1
      <4>2. form[u].token \in Tokens /\ token[form[u].token] = "live"
        BY <2>3, <3>1, <4>1, Ranges DEF Good, Usable
      <4> QED
        BY <2>3, <2>4, <4>2
    <3>2. ASSUME NEW u \in Tabs, flight'[u].pc \in {"refresh", "checked"}, flight'[u].token # 0
          PROVE  token'[flight'[u].token] = "live"
      <4>1. flight[u].token \in Tokens /\ token[flight[u].token] = "live"
        BY <2>2, <3>2, Ranges DEF Good, Usable
      <4> QED
        BY <2>2, <2>4, <4>1
    <3> QED
      BY <3>1, <3>2 DEF Usable
  <2>9. Covered'
    <3>1. CASE cookie = 0
      BY <2>2, <3>1 DEF Covered
    <3>2. CASE cookie # 0 /\ token[cookie] = "live"
      BY <2>2, <2>4, <3>2, Ranges DEF Covered
    <3>3. ASSUME NEW u \in Tabs, form[u].token = cookie, form[u].pc = "goodbye"
          PROVE  Covered'
      <4>1. form'[u].token = cookie' /\ form'[u].pc = "goodbye"
        BY <2>2, <2>3, <3>3
      <4> QED
        BY <4>1 DEF Covered
    <3>4. ASSUME NEW u \in Tabs, flight[u].token = cookie, flight[u].pc \in {"rotated", "issued"}
          PROVE  Covered'
      BY <2>2, <3>4 DEF Covered
    <3> QED
      BY <3>1, <3>2, <3>3, <3>4 DEF Good, Covered
  <2> QED
    BY <2>6, <2>7, <2>8, <2>9 DEF Good
<1> QED
  BY <1>1, <1>2

\* Who logs out revokes a token that nobody else presents.
LEMMA LogsOutGood ==
    ASSUME Typed, Good, NEW t \in Tabs, ServerLogsOut(t)
    PROVE  Good'
<1> DEFINE n == form[t].token
<1>1. /\ form[t].pc = "logout" /\ cookie' = cookie /\ flight' = flight
  BY DEF ServerLogsOut
<1>2. /\ \A u \in Tabs : form'[u].token = form[u].token
      /\ \A u \in Tabs : form'[u].new = form[u].new
      /\ \A u \in Tabs : u # t => form'[u].pc = form[u].pc
      /\ form'[t].pc = "goodbye"
  BY DEF ServerLogsOut, Typed, Tokens, FlightPosts, FlightPcs, FormPosts, FormPcs
<1>3. /\ \A m \in Tokens : m # n => token'[m] = token[m]
      /\ n = 0 => token' = token
  <2>1. CASE n = 0
    BY <2>1 DEF ServerLogsOut
  <2>2. CASE n # 0
    <3>1. token' = [token EXCEPT ![n] = "revoked"]
      BY <2>2 DEF ServerLogsOut
    <3> QED
      BY <2>2, <3>1 DEF Typed
  <2> QED
    BY <2>1, <2>2
<1>4. Apart'
  BY <1>1, <1>2 DEF Good, Apart
<1>5. Fresh'
  <2>1. \A u \in Tabs : flight[u].new # 0 => flight[u].new \in Tokens /\ flight[u].new # n
    BY Ranges DEF Good, Fresh
  <2>2. \A u \in Tabs : form[u].new # 0 => form[u].new \in Tokens /\ form[u].new # n
    BY Ranges DEF Good, Fresh
  <2>3. \A u \in Tabs : flight[u].new # 0 => token'[flight[u].new] = "live"
    BY <1>3, <2>1 DEF Good, Fresh
  <2>4. \A u \in Tabs : form[u].new # 0 => token'[form[u].new] = "live"
    BY <1>3, <2>2 DEF Good, Fresh
  <2> QED
    BY <1>1, <1>2, <2>3, <2>4 DEF Good, Fresh
<1>6. Usable'
  <2>1. ASSUME NEW u \in Tabs, form'[u].pc = "logout", form'[u].token # 0
        PROVE  token'[form'[u].token] = "live"
    <3>1. u # t
      BY <1>2, <2>1
    <3>2. form[u].token \in Tokens /\ form[u].token # n
      BY <1>2, <2>1, <3>1, Ranges DEF Good, Apart
    <3> QED
      BY <1>2, <1>3, <2>1, <3>1, <3>2 DEF Good, Usable
  <2>2. ASSUME NEW u \in Tabs, flight'[u].pc \in {"refresh", "checked"}, flight'[u].token # 0
        PROVE  token'[flight'[u].token] = "live"
    <3>1. flight[u].token \in Tokens /\ flight[u].token # n
      BY <1>1, <2>2, Ranges DEF Good, Apart
    <3> QED
      BY <1>1, <1>3, <2>2, <3>1 DEF Good, Usable
  <2> QED
    BY <2>1, <2>2 DEF Usable
<1>7. Covered'
  <2>1. CASE cookie = 0
    BY <1>1, <2>1 DEF Covered
  <2>2. CASE cookie # 0 /\ token[cookie] = "live"
    <3>1. CASE cookie = n
      BY <1>1, <1>2, <2>2, <3>1 DEF Covered
    <3>2. CASE cookie # n
      BY <1>1, <1>3, <2>2, <3>2, Ranges DEF Covered
    <3> QED
      BY <3>1, <3>2
  <2>3. ASSUME NEW u \in Tabs, form[u].token = cookie, form[u].pc = "goodbye"
        PROVE  Covered'
    <3>1. form'[u].token = cookie' /\ form'[u].pc = "goodbye"
      BY <1>1, <1>2, <2>3
    <3> QED
      BY <3>1 DEF Covered
  <2>4. ASSUME NEW u \in Tabs, flight[u].token = cookie, flight[u].pc \in {"rotated", "issued"}
        PROVE  Covered'
    BY <1>1, <2>4 DEF Covered
  <2> QED
    BY <2>1, <2>2, <2>3, <2>4 DEF Good, Covered
<1> QED
  BY <1>4, <1>5, <1>6, <1>7 DEF Good

\* Nothing that goes wrong goes right again: answers stay lost, tokens shared.
LEMMA CleanBefore ==
    ASSUME Typed, [SessionsNext]_sessionVars, Clean'
    PROVE  Clean
<1>1. CASE Disables
  BY <1>1 DEF Disables, Clean
<1>2. ASSUME NEW t \in Tabs, Expires(t)
      PROVE  Clean
  BY <1>2 DEF Expires, Clean, Typed
<1>3. ASSUME NEW t \in Tabs, Looks(t)
      PROVE  Clean
  BY <1>3 DEF Looks, Clean, Typed
<1>4. ASSUME NEW t \in Tabs, Rotates(t)
      PROVE  Clean
  BY <1>4 DEF Rotates, Clean, Typed
<1>5. ASSUME NEW t \in Tabs, Issues(t)
      PROVE  Clean
  BY <1>5 DEF Issues, Clean, Typed
<1>6. ASSUME NEW t \in Tabs, RefreshSucceeds(t)
      PROVE  Clean
  BY <1>6 DEF RefreshSucceeds, Clean, Typed
<1>7. ASSUME NEW t \in Tabs, RefreshRefused(t)
      PROVE  Clean
  BY <1>7 DEF RefreshRefused, Clean, Typed
<1>8. ASSUME NEW t \in Tabs, RefreshLost(t)
      PROVE  Clean
  BY <1>8 DEF RefreshLost, Clean, Typed
<1>9. ASSUME NEW t \in Tabs, Reloads(t)
      PROVE  Clean
  BY <1>9 DEF Reloads, Clean, Typed
<1>10. ASSUME NEW t \in Tabs, BootRefreshes(t)
       PROVE  Clean
  BY <1>10, JoiningPost DEF BootRefreshes, Clean
<1>11. ASSUME NEW t \in Tabs, BootFails(t)
       PROVE  Clean
  BY <1>11 DEF BootFails, Clean, Typed
<1>12. ASSUME NEW t \in Tabs, BootEnds(t)
       PROVE  Clean
  BY <1>12 DEF BootEnds, Clean, Typed
<1>13. ASSUME NEW t \in Tabs, PostsLogin(t)
       PROVE  Clean
  BY <1>13 DEF PostsLogin, Clean, Typed
<1>14. ASSUME NEW t \in Tabs, ServerLogsIn(t)
       PROVE  Clean
  BY <1>14 DEF ServerLogsIn, Clean, Typed
<1>15. ASSUME NEW t \in Tabs, LoggedIn(t)
       PROVE  Clean
  BY <1>15 DEF LoggedIn, Clean, Typed
<1>16. ASSUME NEW t \in Tabs, PostsLogout(t)
       PROVE  Clean
  BY <1>16 DEF PostsLogout, Clean
<1>17. ASSUME NEW t \in Tabs, ServerLogsOut(t)
       PROVE  Clean
  BY <1>17 DEF ServerLogsOut, Clean, Typed
<1>18. ASSUME NEW t \in Tabs, LoggedOut(t)
       PROVE  Clean
  BY <1>18 DEF LoggedOut, Clean, Typed
<1>19. ASSUME NEW t \in Tabs, LogoutLost(t)
       PROVE  Clean
  BY <1>19 DEF LogoutLost, Clean, Typed
<1>20. ASSUME NEW r \in Requests, Sends(r)
       PROVE  Clean
  BY <1>20 DEF Sends, Clean, Typed
<1>21. ASSUME NEW r \in Requests, Answered(r)
       PROVE  Clean
  <2>1. TabOf(r) \in Tabs
    BY SessionsAssumption
  <2> QED
    BY <1>21, <2>1, JoiningPost DEF Answered, Clean
<1>22. ASSUME NEW r \in Requests, AnsweredAgain(r)
       PROVE  Clean
  BY <1>22 DEF AnsweredAgain, Clean, Typed
<1>23. CASE UNCHANGED sessionVars
  BY <1>23 DEF sessionVars, Clean
<1> QED
  BY <1>1, <1>2, <1>3, <1>4, <1>5, <1>6, <1>7, <1>8, <1>9, <1>10, <1>11, <1>12,
     <1>13, <1>14, <1>15, <1>16, <1>17, <1>18, <1>19, <1>20, <1>21, <1>22, <1>23 DEF SessionsNext

\* While nothing goes wrong, every step keeps it that tokens are live until
\* the server uses them up, and that their replacement then reaches the cookie.
LEMMA TidyKept ==
    ASSUME Typed, Known, OnItsWay, Tidy, [SessionsNext]_sessionVars
    PROVE  Tidy'
<1> SUFFICES ASSUME Clean' PROVE Good'
  BY DEF Tidy
<1>0. Good
  BY CleanBefore DEF Tidy
<1> USE <1>0
<1>1. CASE Disables
  BY <1>1 DEF Disables, serverVars, Good, Apart, Fresh, Usable, Covered
<1>2. ASSUME NEW t \in Tabs, Expires(t)
      PROVE  Good'
  BY <1>2 DEF Expires, serverVars, Good, Apart, Fresh, Usable, Covered
<1>3. ASSUME NEW t \in Tabs, Looks(t)
      PROVE  Good'
  BY <1>3, LooksGood
<1>4. ASSUME NEW t \in Tabs, Rotates(t)
      PROVE  Good'
  BY <1>4, RotatesGood
<1>5. ASSUME NEW t \in Tabs, Issues(t)
      PROVE  Good'
  BY <1>5, IssuesGood
<1>6. ASSUME NEW t \in Tabs, RefreshSucceeds(t)
      PROVE  Good'
  <2>1. flight[t].new # 0 /\ cookie' = flight[t].new
    BY <1>6 DEF RefreshSucceeds, OnItsWay, CookieAfter
  <2> QED
    BY <1>6, <2>1, RefreshAnswered DEF RefreshSucceeds, serverVars
<1>7. ASSUME NEW t \in Tabs, RefreshRefused(t)
      PROVE  Good'
  BY <1>7, RefreshAnswered DEF RefreshRefused, serverVars
<1>8. ASSUME NEW t \in Tabs, RefreshLost(t)
      PROVE  Good'
  <2>1. lost' # 0
    BY <1>8 DEF RefreshLost, Typed
  <2> QED
    BY <2>1 DEF Clean
<1>9. ASSUME NEW t \in Tabs, Reloads(t)
      PROVE  Good'
  BY <1>9 DEF Reloads, serverVars, Good, Apart, Fresh, Usable, Covered
<1>10. ASSUME NEW t \in Tabs, BootRefreshes(t)
       PROVE  Good'
  BY <1>10, RefreshPosted DEF BootRefreshes, serverVars, Clean
<1>11. ASSUME NEW t \in Tabs, BootFails(t)
       PROVE  Good'
  <2>1. lost' # 0
    BY <1>11 DEF BootFails, Typed
  <2> QED
    BY <2>1 DEF Clean
<1>12. ASSUME NEW t \in Tabs, BootEnds(t)
       PROVE  Good'
  BY <1>12 DEF BootEnds, serverVars, Good, Apart, Fresh, Usable, Covered
<1>13. ASSUME NEW t \in Tabs, PostsLogin(t)
       PROVE  Good'
  <2>1. /\ form'[t].pc = "login" /\ form'[t].token = 0 /\ form'[t].new = 0
        /\ \A u \in Tabs : u # t => form'[u] = form[u]
    BY <1>13 DEF PostsLogin, Post, Typed
  <2> QED
    BY <1>13, <2>1, FormPosted DEF PostsLogin, serverVars
<1>14. ASSUME NEW t \in Tabs, ServerLogsIn(t)
       PROVE  Good'
  BY <1>14, LogsInGood
<1>15. ASSUME NEW t \in Tabs, LoggedIn(t)
       PROVE  Good'
  <2>1. form[t].new # 0 /\ cookie' = form[t].new
    BY <1>15 DEF LoggedIn, OnItsWay
  <2> QED
    BY <1>15, <2>1, FormAnswered DEF LoggedIn, serverVars
<1>16. ASSUME NEW t \in Tabs, PostsLogout(t)
       PROVE  Good'
  <2>1. /\ form'[t].pc = "logout" /\ form'[t].token = cookie /\ form'[t].new = 0
        /\ \A u \in Tabs : u # t => form'[u] = form[u]
    BY <1>16 DEF PostsLogout, Post, Typed
  <2>2. ~LogoutShares(t)
    BY <1>16 DEF PostsLogout, Clean
  <2> QED
    BY <1>16, <2>1, <2>2, FormPosted DEF PostsLogout, serverVars
<1>17. ASSUME NEW t \in Tabs, ServerLogsOut(t)
       PROVE  Good'
  BY <1>17, LogsOutGood
<1>18. ASSUME NEW t \in Tabs, LoggedOut(t)
       PROVE  Good'
  BY <1>18, FormAnswered DEF LoggedOut, ClearedCookie, serverVars
<1>19. ASSUME NEW t \in Tabs, LogoutLost(t)
       PROVE  Good'
  <2>1. lost' # 0
    BY <1>19 DEF LogoutLost, Typed
  <2> QED
    BY <2>1 DEF Clean
<1>20. ASSUME NEW r \in Requests, Sends(r)
       PROVE  Good'
  BY <1>20 DEF Sends, serverVars, Good, Apart, Fresh, Usable, Covered
<1>21. ASSUME NEW r \in Requests, Answered(r)
       PROVE  Good'
  <2>1. TabOf(r) \in Tabs
    BY SessionsAssumption
  <2>2. CASE Accepted(TabOf(r))
    BY <1>21, <2>2 DEF Answered, serverVars, Good, Apart, Fresh, Usable, Covered
  <2>3. CASE ~Accepted(TabOf(r))
    BY <1>21, <2>1, <2>3, RefreshPosted DEF Answered, serverVars, Clean
  <2> QED
    BY <2>2, <2>3
<1>22. ASSUME NEW r \in Requests, AnsweredAgain(r)
       PROVE  Good'
  BY <1>22 DEF AnsweredAgain, serverVars, Good, Apart, Fresh, Usable, Covered
<1>23. CASE UNCHANGED sessionVars
  BY <1>23 DEF sessionVars, serverVars, Good, Apart, Fresh, Usable, Covered
<1> QED
  BY <1>1, <1>2, <1>3, <1>4, <1>5, <1>6, <1>7, <1>8, <1>9, <1>10, <1>11, <1>12,
     <1>13, <1>14, <1>15, <1>16, <1>17, <1>18, <1>19, <1>20, <1>21, <1>22, <1>23 DEF SessionsNext

\* Only a look of the server turns a refresh that was posted into a refused one.
LEMMA OnlyLooks ==
    ASSUME Typed, [SessionsNext]_sessionVars, NEW x \in Tabs,
           flight[x].pc = "refresh", flight'[x].pc = "refused"
    PROVE  Looks(x)
<1>1. CASE Disables
  BY <1>1 DEF Disables
<1>2. ASSUME NEW t \in Tabs, Expires(t)
      PROVE  Looks(x)
  BY <1>2 DEF Expires, Nothing, Typed
<1>3. ASSUME NEW t \in Tabs, Looks(t)
      PROVE  Looks(x)
  <2>1. CASE x = t
    BY <1>3, <2>1
  <2>2. CASE x # t
    BY <1>3, <2>2, Looking
  <2> QED
    BY <2>1, <2>2
<1>4. ASSUME NEW t \in Tabs, Rotates(t)
      PROVE  Looks(x)
  <2>1. flight'[x] = flight[x]
    BY <1>4 DEF Rotates, Typed
  <2> QED
    BY <2>1
<1>5. ASSUME NEW t \in Tabs, Issues(t)
      PROVE  Looks(x)
  <2>1. PICK n \in Tokens : flight' = [flight EXCEPT ![t].pc = "issued", ![t].new = n]
    BY <1>5 DEF Issues
  <2>2. x # t => flight'[x] = flight[x]
    BY <2>1 DEF Typed
  <2> QED
    BY <1>5, <2>2 DEF Issues
<1>6. ASSUME NEW t \in Tabs, RefreshSucceeds(t)
      PROVE  Looks(x)
  BY <1>6 DEF RefreshSucceeds, Nothing, Typed
<1>7. ASSUME NEW t \in Tabs, RefreshRefused(t)
      PROVE  Looks(x)
  BY <1>7 DEF RefreshRefused, Nothing, Typed
<1>8. ASSUME NEW t \in Tabs, RefreshLost(t)
      PROVE  Looks(x)
  BY <1>8 DEF RefreshLost, Nothing, Typed
<1>9. ASSUME NEW t \in Tabs, Reloads(t)
      PROVE  Looks(x)
  BY <1>9 DEF Reloads, Nothing, Typed
<1>10. ASSUME NEW t \in Tabs, BootRefreshes(t)
       PROVE  Looks(x)
  BY <1>10, JoiningPost DEF BootRefreshes
<1>11. ASSUME NEW t \in Tabs, BootFails(t)
       PROVE  Looks(x)
  BY <1>11 DEF BootFails, Nothing, Typed
<1>12. ASSUME NEW t \in Tabs, BootEnds(t)
       PROVE  Looks(x)
  BY <1>12 DEF BootEnds, Nothing, Typed
<1>13. ASSUME NEW t \in Tabs, PostsLogin(t)
       PROVE  Looks(x)
  BY <1>13 DEF PostsLogin, Nothing, Typed
<1>14. ASSUME NEW t \in Tabs, ServerLogsIn(t)
       PROVE  Looks(x)
  BY <1>14 DEF ServerLogsIn, Nothing, Typed
<1>15. ASSUME NEW t \in Tabs, LoggedIn(t)
       PROVE  Looks(x)
  BY <1>15 DEF LoggedIn, Nothing, Typed
<1>16. ASSUME NEW t \in Tabs, PostsLogout(t)
       PROVE  Looks(x)
  BY <1>16 DEF PostsLogout, Nothing, Typed
<1>17. ASSUME NEW t \in Tabs, ServerLogsOut(t)
       PROVE  Looks(x)
  BY <1>17 DEF ServerLogsOut, Nothing, Typed
<1>18. ASSUME NEW t \in Tabs, LoggedOut(t)
       PROVE  Looks(x)
  BY <1>18 DEF LoggedOut, Nothing, Typed
<1>19. ASSUME NEW t \in Tabs, LogoutLost(t)
       PROVE  Looks(x)
  BY <1>19 DEF LogoutLost, Nothing, Typed
<1>20. ASSUME NEW r \in Requests, Sends(r)
       PROVE  Looks(x)
  BY <1>20 DEF Sends, Nothing, Typed
<1>21. ASSUME NEW r \in Requests, Answered(r)
       PROVE  Looks(x)
  <2>1. TabOf(r) \in Tabs
    BY SessionsAssumption
  <2>2. CASE flight' = flight
    BY <2>2
  <2>3. CASE JoinsRefresh(TabOf(r))
    BY <2>1, <2>3, JoiningPost
  <2> QED
    BY <1>21, <2>2, <2>3 DEF Answered
<1>22. ASSUME NEW r \in Requests, AnsweredAgain(r)
       PROVE  Looks(x)
  BY <1>22 DEF AnsweredAgain, Nothing, Typed
<1>23. CASE UNCHANGED sessionVars
  BY <1>23 DEF sessionVars
<1> QED
  BY <1>1, <1>2, <1>3, <1>4, <1>5, <1>6, <1>7, <1>8, <1>9, <1>10, <1>11, <1>12,
     <1>13, <1>14, <1>15, <1>16, <1>17, <1>18, <1>19, <1>20, <1>21, <1>22, <1>23 DEF SessionsNext

-----------------------------------------------------------------------------

\* The inductive invariant of the sessions: refresh tokens that a browser holds
\* were handed out, whoever waits for a refresh waits for one under way, and
\* while nothing was lost or shared every post presents a live token of its own
\* (auth_service.py, lib/auth.ts).
THEOREM SessionsInvariant == SessionsSpec => []IInv
<1>1. IInv /\ [SessionsNext]_sessionVars => IInv'
  BY TypesKept, WaitsKept, KnownKept, TidyKept DEF IInv
<1> QED
  BY SessionsInitial, <1>1, PTL DEF SessionsSpec

\* Whoever waits for a refresh waits for one that is under way (refreshInFlight
\* of lib/auth.ts).
THEOREM NobodyIsLeftWaiting == SessionsSpec => []NobodyWaitsInVain
<1>1. IInv => NobodyWaitsInVain
  BY DEF IInv
<1> QED
  BY SessionsInvariant, <1>1, PTL

\* The cookie never holds a revoked token between requests, unless an answer was
\* lost or a token presented twice at once (rotate_refresh and the cookie that
\* api/auth.py sets).
THEOREM CookieIsLive == SessionsSpec => []NoDeadCookie
<1>1. IInv => NoDeadCookie
  <2>1. ASSUME IInv, Quiet, lost = 0, ~shared, cookie # 0
        PROVE  token[cookie] = "live"
    <3>1. Covered
      BY <2>1 DEF IInv, Tidy, Clean, Good
    <3>2. \A t \in Tabs : flight[t].pc = "none" /\ form[t].pc = "none"
      BY <2>1 DEF Quiet, Idle
    <3> QED
      BY <2>1, <3>1, <3>2 DEF Covered
  <2> QED
    BY <2>1 DEF NoDeadCookie
<1> QED
  BY SessionsInvariant, <1>1, PTL

\* The server takes a token for stolen only after a lost answer or a token that
\* was presented twice at once (rotate_refresh).
THEOREM RevocationHasCause == SessionsSpec => NobodyTakenForThief
<1> DEFINE Thief == \E t \in Tabs : /\ flight[t].pc = "refresh" /\ flight'[t].pc = "refused"
                                    /\ flight[t].token # 0
<1>1. ASSUME IInv, [SessionsNext]_sessionVars, Thief
      PROVE  lost > 0 \/ shared
  <2>1. PICK t \in Tabs : flight[t].pc = "refresh" /\ flight'[t].pc = "refused" /\ flight[t].token # 0
    BY <1>1
  <2>2. Looks(t)
    BY <1>1, <2>1, OnlyLooks DEF IInv
  <2>3. token[flight[t].token] = "revoked"
    <3>1. CASE token[flight[t].token] # "revoked"
      <4>1. flight' = [flight EXCEPT ![t].pc = "checked"]
        BY <2>1, <2>2, <3>1 DEF Looks
      <4> QED
        BY <2>1, <4>1, <1>1 DEF IInv, Typed, FlightPosts, FlightPcs
    <3> QED
      BY <3>1
  <2>4. CASE Clean
    BY <1>1, <2>1, <2>3, <2>4 DEF IInv, Tidy, Good, Usable
  <2>5. CASE ~Clean
    BY <1>1, <2>5 DEF IInv, Typed, Clean
  <2> QED
    BY <2>4, <2>5
<1>2. IInv /\ [SessionsNext]_sessionVars => [Thief => (lost > 0 \/ shared)]_sessionVars
  BY <1>1
<1> QED
  BY SessionsInvariant, <1>2, PTL DEF SessionsSpec, NobodyTakenForThief

===============================================================================

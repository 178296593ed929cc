------------------------------- MODULE Routing -------------------------------
(***************************************************************************)
(* Which page a visitor is on: the redirects of auth-provider.tsx and of   *)
(* the admin page, which are effects that run after a page was rendered,   *)
(* and route-guard.tsx, which decides what is rendered until then.         *)
(***************************************************************************)
EXTENDS Naturals

VARIABLES
    path,        \* usePathname
    authStatus,  \* AuthStatus
    isAdmin      \* the signed-in user has the role

routingVars == <<path, authStatus, isAdmin>>

-----------------------------------------------------------------------------

PUBLIC_ROUTES == {"/login", "/register", "/setup"}
ALWAYS_PUBLIC == {"/about"}
Paths == PUBLIC_ROUTES \cup ALWAYS_PUBLIC \cup {"/", "/history", "/settings", "/admin"}
AuthStatuses == {"loading", "setup", "unauthenticated", "authenticated"}

RoutingInit == path = "/" /\ authStatus = "loading" /\ isAdmin = FALSE

OnPublic == path \in PUBLIC_ROUTES

\* Mutant: a signed-in user may stay on the login page.
AuthTarget_Stays ==
    CASE authStatus = "loading" \/ path \in ALWAYS_PUBLIC -> path
      [] authStatus = "setup" -> "/setup"
      [] authStatus = "unauthenticated" /\ ~OnPublic -> "/login"
      [] authStatus # "setup" /\ path = "/setup" -> "/login"
      [] OTHER -> path

\* The effect of the AuthProvider: the path it replaces the present one by.
AuthTarget ==
    CASE authStatus = "loading" \/ path \in ALWAYS_PUBLIC -> path
      [] authStatus = "setup" -> "/setup"
      [] authStatus = "unauthenticated" /\ ~OnPublic -> "/login"
      [] authStatus = "authenticated" /\ OnPublic -> "/"
      [] authStatus = "unauthenticated" /\ path = "/setup" -> "/login"
      [] OTHER -> path

\* The effect of the admin page, when it is rendered.
AdminTarget == IF path = "/admin" /\ authStatus = "authenticated" /\ ~isAdmin THEN "/" ELSE path

\* Mutant: the guard lets a visitor without a session onto no page.
Permitted_SignedIn == path \in ALWAYS_PUBLIC \/ (authStatus = "authenticated" /\ ~OnPublic)

\* RouteGuard
Permitted ==
    \/ path \in ALWAYS_PUBLIC
    \/ authStatus = "authenticated" /\ ~OnPublic
    \/ authStatus = "setup" /\ path = "/setup"
    \/ authStatus = "unauthenticated" /\ OnPublic

AuthRedirects ==
    /\ AuthTarget # path
    /\ path' = AuthTarget
    /\ UNCHANGED <<authStatus, isAdmin>>

AdminRedirects ==
    /\ AdminTarget # path
    /\ path' = AdminTarget
    /\ UNCHANGED <<authStatus, isAdmin>>

\* A link, the address bar, or the back button.
Navigates ==
    /\ path' \in Paths
    /\ UNCHANGED <<authStatus, isAdmin>>

\* bootstrap, login, register, completeSetup, logout and the handler of a lost
\* session; only bootstrap finds that there is no user yet.
StatusChanges ==
    /\ \/ authStatus = "loading" /\ authStatus' \in {"setup", "unauthenticated", "authenticated"}
       \/ authStatus \in {"setup", "unauthenticated"} /\ authStatus' = "authenticated"
       \/ authStatus = "authenticated" /\ authStatus' = "unauthenticated"
    /\ isAdmin' \in (IF authStatus' = "authenticated" THEN BOOLEAN ELSE {FALSE})
    /\ UNCHANGED path

RoutingNext == AuthRedirects \/ AdminRedirects \/ Navigates \/ StatusChanges

RoutingSpec == RoutingInit /\ [][RoutingNext]_routingVars

-----------------------------------------------------------------------------

NoRedirect == AuthTarget = path /\ AdminTarget = path

\* Whoever's session is known sees a page and not the spinner: a page that no
\* redirect will leave is one that the guard shows, and redirects do not chase
\* each other, each leads to such a page.
PageIsShown ==
    [][/\ (authStatus # "loading" /\ NoRedirect) => Permitted
       /\ (AuthRedirects \/ AdminRedirects) => (Permitted' /\ NoRedirect')]_routingVars

=============================================================================

-------------------------------- MODULE History --------------------------------
(***************************************************************************)
(* The list of runs, newest first, that the history page shows a page at a *)
(* time (frontend/app/history/page.tsx) while new runs are started from    *)
(* the composer (components/home/research-composer.tsx): both ask the list *)
(* and creation endpoints of backend/app/services/run_service.py.          *)
(***************************************************************************)
EXTENDS Naturals, Sequences, FiniteSets

CONSTANTS
    PageSize,
    MaxRuns    \* bound on runs

ASSUME HistoryAssumption == PageSize \in Nat \ {0} /\ MaxRuns \in Nat

VARIABLES
    archive,     \* the number of stored runs; a run's place in time names it
    posts,       \* createRun requests under way
    submitting,  \* formState.isSubmitting of the composer
    runs,        \* what the history page lists
    state,       \* its LoadState
    hasMore,     \* whether it offers to load more
    asked,       \* its requests for a page, and their answers
    crossed      \* history: the list was replaced while more was under way, or
                 \* more was loaded after more new runs than it had listed

historyVars == <<archive, posts, submitting, runs, state, hasMore, asked, crossed>>

-----------------------------------------------------------------------------
(* Vocabulary *)

\* A first page, for the page or for its Refresh button, and a next page.
Asks == {"load", "refresh", "more"}

NotAsked == [pc |-> "no", offset |-> 0, page |-> << >>, more |-> FALSE]
Asked(n) == [NotAsked EXCEPT !.pc = "sent", !.offset = n]

HistoryInit ==
    /\ archive = 0 /\ posts = 0 /\ submitting = FALSE
    /\ runs = << >> /\ state = "loading" /\ hasMore = FALSE
    /\ asked = [q \in Asks |-> IF q = "load" THEN Asked(0) ELSE NotAsked]
    /\ crossed = FALSE

-----------------------------------------------------------------------------
(* The composer *)

\* The button is disabled while a run is being created; Ctrl+Enter is not.
SubmitsByButton == ~submitting
SubmitsByKey    == submitting /\ posts < 2

SubmitsQuery ==
    /\ SubmitsByButton \/ SubmitsByKey
    /\ posts' = posts + 1 /\ submitting' = TRUE
    /\ UNCHANGED <<archive, runs, state, hasMore, asked, crossed>>

\* create_run stores the run; its page is then opened. The first of two answers
\* enables the button.
CreatesRun ==
    /\ posts > 0 /\ archive < MaxRuns
    /\ archive' = archive + 1 /\ posts' = posts - 1 /\ submitting' = FALSE
    /\ UNCHANGED <<runs, state, hasMore, asked, crossed>>

CreateFails ==
    /\ posts > 0
    /\ posts' = posts - 1 /\ submitting' = FALSE
    /\ UNCHANGED <<archive, runs, state, hasMore, asked, crossed>>

-----------------------------------------------------------------------------
(* list_runs *)

\* Mutant: no row more than the page holds is asked for.
Fetched_Page == PageSize

\* One row more than the page holds.
Fetched == PageSize + 1

Least(i, j) == IF i < j THEN i ELSE j

\* The rows found after the n newest runs.
Found(n) == IF archive > n THEN Least(Fetched, archive - n) ELSE 0

HasMore(n) == Found(n) > PageSize

\* Newest first.
Page(n) == [i \in 1..Least(PageSize, Found(n)) |-> archive - n - i + 1]

Lists(q) ==
    /\ asked[q].pc = "sent"
    /\ asked' = [asked EXCEPT ![q].pc = "answered", ![q].page = Page(asked[q].offset),
                              ![q].more = HasMore(asked[q].offset)]
    /\ UNCHANGED <<archive, posts, submitting, runs, state, hasMore, crossed>>

-----------------------------------------------------------------------------
(* The history page *)

Refreshes ==
    /\ asked["refresh"].pc = "no" /\ state # "loading"
    /\ asked' = [asked EXCEPT !["refresh"] = Asked(0)]
    /\ UNCHANGED <<archive, posts, submitting, runs, state, hasMore, crossed>>

TriesAgain ==
    /\ state = "error" /\ asked["load"].pc = "no"
    /\ asked' = [asked EXCEPT !["load"] = Asked(0)]
    /\ state' = "loading"
    /\ UNCHANGED <<archive, posts, submitting, runs, hasMore, crossed>>

\* The button is there when runs are shown, and disabled while more are loaded.
LoadsMore ==
    /\ state = "ready" /\ runs # << >> /\ hasMore /\ asked["more"].pc = "no"
    /\ asked' = [asked EXCEPT !["more"] = Asked(Len(runs))]
    /\ UNCHANGED <<archive, posts, submitting, runs, state, hasMore, crossed>>

\* loadFirstPage
FirstPageLoads(q) ==
    /\ q # "more" /\ asked[q].pc = "answered"
    /\ runs' = asked[q].page /\ hasMore' = asked[q].more /\ state' = "ready"
    /\ asked' = [asked EXCEPT ![q] = NotAsked]
    /\ crossed' = (crossed \/ asked["more"].pc # "no")
    /\ UNCHANGED <<archive, posts, submitting>>

\* Mutant: what the page holds already is appended again.
Fresh_All(page) == page

Listed(r) == \E i \in DOMAIN runs : runs[i] = r

\* Runs that were listed when a new one shifted the window are left out.
Fresh(page) ==
    LET new == {i \in DOMAIN page : ~Listed(page[i])}
    IN  [k \in 1..Cardinality(new) |->
            page[CHOOSE i \in new : Cardinality({j \in new : j <= i}) = k]]

\* The window was shifted to runs that are newer than all that are listed.
Overtaken(page) == runs # << >> /\ \E i \in DOMAIN page : page[i] > runs[1]

MoreLoads ==
    /\ asked["more"].pc = "answered"
    /\ runs' = runs \o Fresh(asked["more"].page)
    /\ hasMore' = asked["more"].more
    /\ asked' = [asked EXCEPT !["more"] = NotAsked]
    /\ crossed' = (crossed \/ Overtaken(asked["more"].page))
    /\ UNCHANGED <<archive, posts, submitting, state>>

\* A first page that fails is an error; more that fails can be asked for again.
FailsToLoad(q) ==
    /\ asked[q].pc # "no"
    /\ asked' = [asked EXCEPT ![q] = NotAsked]
    /\ state' = IF q = "more" THEN state ELSE "error"
    /\ UNCHANGED <<archive, posts, submitting, runs, hasMore, crossed>>

-----------------------------------------------------------------------------

HistoryNext ==
    \/ SubmitsQuery \/ CreatesRun \/ CreateFails
    \/ Refreshes \/ TriesAgain \/ LoadsMore \/ MoreLoads
    \/ \E q \in Asks : Lists(q) \/ FirstPageLoads(q) \/ FailsToLoad(q)

HistorySpec == HistoryInit /\ [][HistoryNext]_historyVars

-----------------------------------------------------------------------------
(* Properties *)

\* Whatever runs are started between two pages, and whichever requests fail,
\* the list leaves out no run between two that it shows and shows none twice,
\* unless it was refreshed while more was being loaded or more runs were
\* started than it had listed.
NoGap == crossed \/ \A i \in 1..(Len(runs) - 1) : runs[i + 1] = runs[i] - 1

\* A list that offers no more ends with the oldest run, under the same condition.
EndIsOldest ==
    (~crossed /\ state = "ready" /\ ~hasMore /\ runs # << >>) => runs[Len(runs)] = 1

=============================================================================

--------------------------- MODULE RunServiceClaims ---------------------------
(***************************************************************************)
(* What comments, tests and docs of the repository say of a run and the    *)
(* code does not do.  TLC refutes each of them; RunService holds what is   *)
(* true instead.                                                           *)
(***************************************************************************)
EXTENDS RunService

\* backend/tests/test_api_cancel.py: "A completed run must not be flipped to
\* cancelled."  cancel() decides on a status it read before an await.
CompletedNotFlipped == [][(row = "done") => (row' # "cancelled")]_vars

\* run_service.py, the sink: "a late done/error can't overwrite the terminal
\* 'cancelled' state".  A run cancelled before it started, or while it is
\* being started, still runs.
CancelledNotOverwritten == [][(row = "cancelled") => (row' = "cancelled")]_vars

\* run_service.py, the module's docstring: a replaying client "can never
\* observe an event that live subscribers missed".  An engine torn between
\* the insert and the fan-out leaves such an event.
NothingMissedLive ==
    \A u \in Subscribers : \A i \in DOMAIN got[u] :
        got[u][i].type \in StreamEnds => got[u][i].seq = i - 1

\* docs/API_CONTRACT.md: the stream "starts (or resumes) execution" of a run.
\* After a restart the engine starts over and collides with its own log.
ResumedRunSettles == (restarts > 0 /\ pc = "planning") ~> (row \in Terminal)

=============================================================================

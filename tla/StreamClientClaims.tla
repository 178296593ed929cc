-------------------------- MODULE StreamClientClaims --------------------------
(* What the documentation says of the page and the code does not do. *)
EXTENDS MCStreamClient

\* docs/API_CONTRACT.md:87-88: on a reconnection the server replays the buffered
\* events, each with its seq, "so the UI can rebuild state".  A page that
\* reconnected and was sent everything holds the sections that a page open from
\* the start would.
RebuiltAfterReconnect == CaughtUp => view.sections = Replayed.sections

=============================================================================

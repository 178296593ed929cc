----------------------------- MODULE MCRunService -----------------------------
(* Small instances of RunService for TLC. *)
EXTENDS RunServiceClaims, TLC

Symmetry == Permutations(Sections) \cup Permutations(Cancels)
            \cup Permutations(Subscribers) \cup Permutations(Submits)

=============================================================================

------------------------------ MODULE EventStream ------------------------------
(***************************************************************************)
(* What a run promises to those who watch it, without saying how: a log    *)
(* that only grows, numbered from 0; a status that the log accounts for    *)
(* and that never goes back to work after an outcome; and readers that are *)
(* sent events of the log, in order and once each.  RunService implements  *)
(* it.                                                                     *)
(***************************************************************************)
EXTENDS Naturals, Sequences, FiniteSets

CONSTANTS
    Readers,   \* the connected clients
    Types,     \* the types of events
    Marks,     \* those of them that set the status of the run
    Outcomes   \* those of the marks a run may end with

VARIABLES log, row, got

streamVars == <<log, row, got>>

StreamInit ==
    /\ log = << >>
    /\ row \notin Marks
    /\ got = [r \in Readers |-> << >>]

Concluded == \E n \in DOMAIN log : log[n] \in Outcomes

\* The log gets its next event; after an outcome, only another outcome.
Publish ==
    \E type \in Types :
        /\ Concluded => type \in Outcomes
        /\ log' = [n \in DOMAIN log \cup {Cardinality(DOMAIN log)} |->
                     IF n \in DOMAIN log THEN log[n] ELSE type]
        /\ UNCHANGED <<row, got>>

\* The status becomes one the log has; an outcome only gives way to another.
Mark ==
    \E n \in DOMAIN log :
        /\ log[n] \in Marks
        /\ row \in Outcomes => log[n] \in Outcomes
        /\ row' = log[n]
        /\ UNCHANGED <<log, got>>

\* What a reader may have been sent.
Faithful(sent) ==
    /\ \A i \in DOMAIN sent : sent[i].seq \in DOMAIN log /\ sent[i].type = log[sent[i].seq]
    /\ \A i, j \in DOMAIN sent : i < j => sent[i].seq < sent[j].seq

\* One reader is sent events it has not seen.
Send ==
    \E r \in Readers :
        /\ Len(got[r]) < Len(got'[r])
        /\ SubSeq(got'[r], 1, Len(got[r])) = got[r]
        /\ Faithful(got'[r])
        /\ got' = [got EXCEPT ![r] = got'[r]]
        /\ UNCHANGED <<log, row>>

\* Some connections are lost; their readers connect again and start over.
Reconnect ==
    \E lost \in SUBSET Readers :
        /\ got' = [r \in Readers |-> IF r \in lost THEN << >> ELSE got[r]]
        /\ UNCHANGED <<log, row>>

StreamNext == Publish \/ Mark \/ Send \/ Reconnect

StreamSpec == StreamInit /\ [][StreamNext]_streamVars

=============================================================================

------------------------------ MODULE MCAccounts ------------------------------
(***************************************************************************)
(* Accounts and Sessions in one model.  They share no variable, so which   *)
(* steps of one come between those of the other makes no difference to     *)
(* it: here only one of them, chosen at the start, moves.                  *)
(***************************************************************************)
EXTENDS Accounts, Sessions, TLC

VARIABLE part

CONSTANTS t1, t2, r1, r2

\* Both requests are those of the same tab.
MCTabOf(r) == t1

MCInit ==
    /\ part \in {"accounts", "sessions"}
    /\ AccountsInit
    /\ SessionsInit /\ cookie = IF part = "sessions" THEN 1 ELSE 0

MCNext ==
    \/ part = "accounts" /\ AccountsNext /\ UNCHANGED <<part, sessionVars>>
    \/ part = "sessions" /\ SessionsNext /\ UNCHANGED <<part, accountsVars>>

MCSpec == MCInit /\ [][MCNext]_<<part, accountsVars, sessionVars>>

Symmetry == Permutations(Users) \cup Permutations(Updates)
===============================================================================

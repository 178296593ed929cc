---------------------------- MODULE CredentialList ----------------------------
(***************************************************************************)
(* The list of provider keys in an administrator's credentials panel       *)
(* (frontend/components/admin/credentials-panel.tsx), which is asked for   *)
(* again after each change, while changes and lists are under way and      *)
(* another administrator changes keys, too.  What encrypts them is in      *)
(* Vault; here a key is absent, active or revoked.                         *)
(***************************************************************************)
EXTENDS Naturals

CONSTANT Items    \* credentials, by id

VARIABLES
    row,        \* the stored credentials
    shown,      \* creds, the list in the panel
    change,     \* where the panel's change of each credential is
    list,       \* the answer to the list asked for after it
    own,        \* history: the status that the panel's changes were told to have set
    overlapped  \* history: a list was asked for while another was under way, or failed

listVars == <<row, shown, change, list, own, overlapped>>

-----------------------------------------------------------------------------

Statuses == {"absent", "active", "revoked"}
Stage(s) == CASE s = "absent" -> 0 [] s = "active" -> 1 [] s = "revoked" -> 2

AllAbsent == [c \in Items |-> "absent"]

ListInit ==
    /\ row = AllAbsent /\ shown = AllAbsent
    /\ change = [c \in Items |-> "no"] /\ list = [c \in Items |-> AllAbsent]
    /\ own = AllAbsent /\ overlapped = FALSE

\* The form is disabled until its key has been stored and listed.
Adding == \E c \in Items : change[c] \in {"adding", "added", "listing added", "listed added"}

\* onAdd
SubmitsKey(c) ==
    /\ row[c] = "absent" /\ change[c] = "no" /\ ~Adding
    /\ change' = [change EXCEPT ![c] = "adding"]
    /\ UNCHANGED <<row, shown, list, own, overlapped>>

\* The Revoke button of a key that is shown as active.  It stays enabled while a
\* change is under way; a second click repeats the revocation and is left out.
ClicksRevoke(c) ==
    /\ shown[c] = "active" /\ change[c] = "no"
    /\ change' = [change EXCEPT ![c] = "revoking"]
    /\ UNCHANGED <<row, shown, list, own, overlapped>>

\* add_credential or revoke
Stores(c) ==
    /\ change[c] \in {"adding", "revoking"}
    /\ LET adds == change[c] = "adding"
       IN  /\ row' = [row EXCEPT ![c] = IF adds THEN "active" ELSE "revoked"]
           /\ change' = [change EXCEPT ![c] = IF adds THEN "added" ELSE "revoked"]
    /\ UNCHANGED <<shown, list, own, overlapped>>

\* Another administrator's change.
OtherStores(c) ==
    /\ row[c] # "revoked" /\ change[c] # "adding"
    /\ row' = [row EXCEPT ![c] = IF @ = "absent" THEN "active" ELSE "revoked"]
    /\ UNCHANGED <<shown, change, list, own, overlapped>>

Listing == {c \in Items : change[c] \in {"listing added", "listing revoked",
                                         "listed added", "listed revoked"}}

\* Mutant: the list is not asked for again after a revocation.
NextList_Adds(c) == IF change[c] = "added" THEN "listing added" ELSE "no"

NextList(c) == IF change[c] = "added" THEN "listing added" ELSE "listing revoked"

\* The answer reaches the panel, which asks for the list.
AsksForList(c) ==
    /\ change[c] \in {"added", "revoked"}
    /\ change' = [change EXCEPT ![c] = NextList(c)]
    /\ own' = [own EXCEPT ![c] = IF change[c] = "added" THEN "active" ELSE "revoked"]
    /\ overlapped' = (overlapped \/ Listing # {})
    /\ UNCHANGED <<row, shown, list>>

\* list_credentials
ServesList(c) ==
    /\ change[c] \in {"listing added", "listing revoked"}
    /\ list' = [list EXCEPT ![c] = row]
    /\ change' = [change EXCEPT ![c] = IF @ = "listing added" THEN "listed added" ELSE "listed revoked"]
    /\ UNCHANGED <<row, shown, own, overlapped>>

\* load
ShowsList(c) ==
    /\ change[c] \in {"listed added", "listed revoked"}
    /\ shown' = list[c]
    /\ list' = [list EXCEPT ![c] = AllAbsent]
    /\ change' = [change EXCEPT ![c] = "no"]
    /\ UNCHANGED <<row, own, overlapped>>

\* The request fails, or its answer is lost; a toast says so.
ChangeFails(c) ==
    /\ change[c] # "no"
    /\ change' = [change EXCEPT ![c] = "no"]
    /\ list' = [list EXCEPT ![c] = AllAbsent]
    /\ overlapped' = (overlapped \/ c \in Listing)
    /\ UNCHANGED <<row, shown, own>>

ListNext ==
    \E c \in Items :
        \/ SubmitsKey(c) \/ ClicksRevoke(c) \/ Stores(c) \/ OtherStores(c)
        \/ AsksForList(c) \/ ServesList(c) \/ ShowsList(c) \/ ChangeFails(c)

ListSpec == ListInit /\ [][ListNext]_listVars

-----------------------------------------------------------------------------

\* When nothing is under way the panel shows every change that it was told to
\* have made, or a later one: no key that was just revoked is still offered as
\* active, unless two lists were under way at once, whose answers may come in
\* either order, or one failed.
OwnChangesShow ==
    (~overlapped /\ \A c \in Items : change[c] = "no")
        => \A c \in Items : Stage(own[c]) <= Stage(shown[c])

=============================================================================

------------------------------- MODULE Accounts -------------------------------
(***************************************************************************)
(* Who may do what: first-run setup (backend/app/api/setup.py), sign-up    *)
(* and the updates of users by administrators (backend/app/api/admin.py)   *)
(* that the users panel of the frontend posts.                             *)
(*                                                                         *)
(* A step is the code between two awaits, as in RunService: a statement    *)
(* takes effect when it is sent, and the handler goes on in a later step.  *)
(***************************************************************************)
EXTENDS Naturals, FiniteSets

CONSTANTS
    Users,     \* everyone who may have an account, by email
    Updates,   \* PATCH /admin/users/{id} requests
    Nobody

ASSUME AccountsAssumption ==
    /\ IsFiniteSet(Users) /\ Users # {}
    /\ Nobody \notin Users

VARIABLES
    role,      \* users.role, "absent" without a row
    off,       \* users.disabled
    setup,     \* where each person's setup is: the page's form, then the handler
    signUp,    \* people whose sign-up was posted
    update,    \* where each update is, and what its handler has read
    busy,      \* of each user's panel: the row whose controls are disabled
    crossed    \* history: an update was written under another's feet

accountsVars == <<role, off, setup, signUp, update, busy, crossed>>

-----------------------------------------------------------------------------
(* Vocabulary *)

\* A viewer is no different here from a member.
Roles == {"member", "admin", "superadmin"}
Admins == {"admin", "superadmin"}

\* What the panel asks for: a role, or to disable or enable the user.
Changes == Roles \cup {"disable", "enable"}

Accounts == {u \in Users : role[u] # "absent"}
ActiveSuperadmins == {u \in Users : role[u] = "superadmin" /\ ~off[u]}

NoUpdate == [pc |-> "idle", by |-> Nobody, whom |-> Nobody, what |-> "enable",
         as |-> "absent", was |-> "absent", wasOff |-> FALSE, count |-> 0]

AccountsInit ==
    /\ role = [u \in Users |-> "absent"] /\ off = [u \in Users |-> FALSE]
    /\ setup = [u \in Users |-> "no"] /\ signUp = {}
    /\ update = [q \in Updates |-> NoUpdate]
    /\ busy = [u \in Users |-> Nobody]
    /\ crossed = FALSE

-----------------------------------------------------------------------------
(* Setup and sign-up *)

\* Mutant: setup requests do not wait for each other.
SetupLockFree_Always == TRUE

\* _setup_lock
SetupLockFree == \A u \in Users : setup[u] \notin {"counted", "created"}

\* The setup page posts its form, which is disabled until the answer is there.
SubmitsSetup(u) ==
    /\ setup[u] = "no"
    /\ setup' = [setup EXCEPT ![u] = "posted"]
    /\ UNCHANGED <<role, off, signUp, update, busy, crossed>>

SetupCounts(u) ==
    /\ setup[u] = "posted" /\ SetupLockFree
    /\ setup' = [setup EXCEPT ![u] = IF Accounts = {} THEN "counted" ELSE "no"]
    /\ UNCHANGED <<role, off, signUp, update, busy, crossed>>

\* register() refuses an email that has an account by now.
SetupCreates(u) ==
    /\ setup[u] = "counted"
    /\ IF role[u] = "absent"
       THEN role' = [role EXCEPT ![u] = "superadmin"] /\ setup' = [setup EXCEPT ![u] = "created"]
       ELSE setup' = [setup EXCEPT ![u] = "no"] /\ UNCHANGED role
    /\ UNCHANGED <<off, signUp, update, busy, crossed>>

\* settings.setup_completed is set and the lock released.
SetupCompletes(u) ==
    /\ setup[u] = "created"
    /\ setup' = [setup EXCEPT ![u] = "done"]
    /\ UNCHANGED <<role, off, signUp, update, busy, crossed>>

\* The form of the register page, or the first sign-in with Google.
SubmitsSignUp(u) ==
    /\ role[u] = "absent" /\ u \notin signUp
    /\ signUp' = signUp \cup {u}
    /\ UNCHANGED <<role, off, setup, update, busy, crossed>>

\* An email that has an account by now is refused.
SignsUp(u) ==
    /\ u \in signUp
    /\ signUp' = signUp \ {u}
    /\ role' = [role EXCEPT ![u] = IF @ = "absent" THEN "member" ELSE @]
    /\ UNCHANGED <<off, setup, update, busy, crossed>>

-----------------------------------------------------------------------------
(* An update: the users panel posts it, update_user handles it *)

\* The panel is an administrator's; it disables the controls of one row, and
\* nobody disables themselves.
CanPost(a, u, what) ==
    /\ role[a] \in Admins /\ busy[a] # u
    /\ what \in {"disable", "enable"} => a # u

Posts(q, a, u, what) ==
    /\ update[q].pc = "idle" /\ role[u] # "absent"
    /\ CanPost(a, u, what)
    /\ update' = [update EXCEPT ![q] = [NoUpdate EXCEPT !.pc = "posted", !.by = a,
                                                    !.whom = u, !.what = what]]
    /\ busy' = [busy EXCEPT ![a] = u]
    /\ UNCHANGED <<role, off, setup, signUp, crossed>>

Ended(q, pc) == [update EXCEPT ![q] = [NoUpdate EXCEPT !.pc = pc, !.by = update[q].by]]
Refused(q) == Ended(q, "refused")

\* get_current_user: an account that is absent or disabled is not let in.
ReadsActor(q) ==
    LET a == update[q].by
    IN  /\ update[q].pc = "posted"
        /\ update' = IF role[a] = "absent" \/ off[a] THEN Refused(q)
                     ELSE [update EXCEPT ![q] = [@ EXCEPT !.pc = "actor", !.as = role[a]]]
        /\ UNCHANGED <<role, off, setup, signUp, busy, crossed>>

\* require_admin, then the row of the target.
ReadsTarget(q) ==
    LET u == update[q].whom
    IN  /\ update[q].pc = "actor"
        /\ update' = IF update[q].as \notin Admins THEN Refused(q)
                     ELSE [update EXCEPT ![q] = [@ EXCEPT !.pc = "target", !.was = role[u],
                                                          !.wasOff = off[u]]]
        /\ UNCHANGED <<role, off, setup, signUp, busy, crossed>>

\* Only a superadmin manages admins.
Allowed(r) == r.as = "superadmin" \/ (r.was \notin Admins /\ r.what \notin Admins)

\* The update would take a superadmin away.
TakesSuperadmin(r) ==
    /\ r.was = "superadmin" /\ ~r.wasOff
    /\ r.what \notin {"superadmin", "enable"}

\* Mutant: disabling is not counted.
MustCount_Demotions(r) == TakesSuperadmin(r) /\ r.what # "disable"

MustCount(r) == TakesSuperadmin(r)

\* Mutant: what the panel asks for is taken for a role.
RoleAfter_Any(r) == r.what

RoleAfter(r) == IF r.what \in Roles THEN r.what ELSE role[r.whom]

\* set_role or set_disabled.
Writes(q) ==
    LET r == update[q]
    IN  /\ role' = [role EXCEPT ![r.whom] = RoleAfter(r)]
        /\ off' = [off EXCEPT ![r.whom] = IF r.what \in Roles THEN @ ELSE r.what = "disable"]
        /\ update' = Ended(q, "written")
        /\ crossed' = (crossed \/ \E p \in Updates \ {q} : update[p].pc \in {"target", "counted"})

\* How many active superadmins there are, to be looked at in the next step.
Counted(q) ==
    [update EXCEPT ![q] = [@ EXCEPT !.pc = "counted", !.count = Cardinality(ActiveSuperadmins)]]

ChecksTarget(q) ==
    LET r == update[q]
    IN  /\ r.pc = "target"
        /\ \/ ~Allowed(r) /\ update' = Refused(q) /\ UNCHANGED <<role, off, crossed>>
           \/ /\ Allowed(r) /\ MustCount(r)
              /\ update' = Counted(q)
              /\ UNCHANGED <<role, off, crossed>>
           \/ Allowed(r) /\ ~MustCount(r) /\ Writes(q)
        /\ UNCHANGED <<setup, signUp, busy>>

\* Mutant: the last superadmin is taken for the last but one.
IsLast_None(r) == r.count < 1

IsLast(r) == r.count <= 1

ChecksCount(q) ==
    LET r == update[q]
    IN  /\ r.pc = "counted"
        /\ IF IsLast(r) THEN update' = Refused(q) /\ UNCHANGED <<role, off, crossed>>
                        ELSE Writes(q)
        /\ UNCHANGED <<setup, signUp, busy>>

\* The answer, or an error, reaches the panel: its one busy row is freed,
\* also when that is another update's.
Returns(q) ==
    /\ update[q].pc \in {"written", "refused"}
    /\ busy' = [busy EXCEPT ![update[q].by] = Nobody]
    /\ update' = [update EXCEPT ![q] = NoUpdate]
    /\ UNCHANGED <<role, off, setup, signUp, crossed>>

-----------------------------------------------------------------------------

AccountsNext ==
    \/ \E u \in Users :
          \/ SubmitsSetup(u) \/ SetupCounts(u) \/ SetupCreates(u) \/ SetupCompletes(u)
          \/ SubmitsSignUp(u) \/ SignsUp(u)
    \/ \E q \in Updates, a, u \in Users, what \in Changes : Posts(q, a, u, what)
    \/ \E q \in Updates :
          ReadsActor(q) \/ ReadsTarget(q) \/ ChecksTarget(q) \/ ChecksCount(q) \/ Returns(q)

AccountsSpec == AccountsInit /\ [][AccountsNext]_accountsVars

-----------------------------------------------------------------------------
(* Properties *)

UpdateType ==
    [pc : {"idle", "posted", "actor", "target", "counted", "written", "refused"},
     by : Users \cup {Nobody}, whom : Users \cup {Nobody}, what : Changes,
     as : Roles \cup {"absent"}, was : Roles \cup {"absent"}, wasOff : BOOLEAN, count : Nat]

\* Types of the variables.
AccountsTypeOK ==
    /\ role \in [Users -> Roles \cup {"absent"}]
    /\ off \in [Users -> BOOLEAN]
    /\ setup \in [Users -> {"no", "posted", "counted", "created", "done"}]
    /\ signUp \subseteq Users
    /\ update \in [Updates -> UpdateType]
    /\ busy \in [Users -> Users \cup {Nobody}]
    /\ crossed \in BOOLEAN

Seated == \E u \in Users : setup[u] \in {"created", "done"}

\* Once setup has made a superadmin there is always an active one, whoever
\* changes roles and disables whom, unless one update was written while
\* another held what it had read before ("Never strip the last remaining
\* superadmin", admin.py).
SuperadminRemains == Seated => crossed \/ ActiveSuperadmins # {}

\* However many setup requests arrive, and whatever sign-ups they meet, one
\* makes a superadmin at most.
SetupOnce == Cardinality({u \in Users : setup[u] \in {"created", "done"}}) <= 1

=============================================================================

---------------------------- MODULE AccountsProofs ----------------------------
(***************************************************************************)
(* Proofs about Accounts, for any number of people and of updates.         *)
(***************************************************************************)
EXTENDS Accounts, FiniteSetTheorems, TLAPS

\* A setup that has counted no accounts goes on alone, and one that has made
\* its superadmin was the only one to.
Alone ==
    /\ \A u, v \in Users : setup[u] \in {"counted", "created"} /\ setup[v] \in {"counted", "created"} => u = v
    /\ \A u \in Users : setup[u] \in {"created", "done"} => role[u] # "absent"
    /\ \A u, v \in Users : setup[u] = "counted" => setup[v] \notin {"created", "done"}
    /\ \A u, v \in Users : setup[u] \in {"created", "done"} /\ setup[v] \in {"created", "done"} => u = v

\* An update under way is somebody's and about an account.
Aimed ==
    \A q \in Updates : update[q].pc \in {"posted", "actor", "target", "counted"} =>
        update[q].by \in Users /\ update[q].whom \in Users /\ role[update[q].whom] # "absent"

\* Unless a write came between, what an update has read is still so, and those
\* it counted are still there.
Current ==
    \A q \in Updates : ~crossed /\ update[q].pc \in {"target", "counted"} =>
        /\ update[q].was = role[update[q].whom]
        /\ update[q].wasOff = off[update[q].whom]
        /\ update[q].pc = "counted" => update[q].count <= Cardinality(ActiveSuperadmins)

\* Nobody is disabled before they have an account.
FreshIsOn == \A u \in Users : off[u] => role[u] # "absent"

IInv == AccountsTypeOK /\ Alone /\ Aimed /\ Current /\ FreshIsOn /\ SuperadminRemains

-----------------------------------------------------------------------------

LEMMA AccountsInitial == AccountsInit => IInv
<1> SUFFICES ASSUME AccountsInit PROVE IInv
  OBVIOUS
<1> USE AccountsAssumption DEF AccountsInit
<1>1. AccountsTypeOK
  BY DEF AccountsTypeOK, UpdateType, NoUpdate, Roles, Changes
<1>2. Alone
  BY DEF Alone
<1>3. Aimed /\ Current /\ FreshIsOn
  BY DEF Aimed, Current, FreshIsOn, NoUpdate
<1>4. SuperadminRemains
  BY DEF SuperadminRemains, Seated
<1> QED
  BY <1>1, <1>2, <1>3, <1>4 DEF IInv

\* There are finitely many superadmins.
LEMMA CountTyped ==
    /\ IsFiniteSet(ActiveSuperadmins)
    /\ Cardinality(ActiveSuperadmins) \in Nat
BY AccountsAssumption, FS_Subset, FS_CardinalityType DEF ActiveSuperadmins

\* A handler that has ended is typed, and under way no more.
LEMMA EndedTyped ==
    ASSUME AccountsTypeOK, NEW q \in Updates, NEW pc \in {"written", "refused"}
    PROVE  /\ Ended(q, pc) \in [Updates -> UpdateType]
           /\ Ended(q, pc)[q].pc = pc
           /\ \A p \in Updates \ {q} : Ended(q, pc)[p] = update[p]
<1>1. [NoUpdate EXCEPT !.pc = pc, !.by = update[q].by] \in UpdateType
  BY AccountsAssumption DEF AccountsTypeOK, UpdateType, NoUpdate, Changes
<1>2. [NoUpdate EXCEPT !.pc = pc, !.by = update[q].by].pc = pc
  BY DEF NoUpdate
<1> QED
  BY <1>1, <1>2 DEF Ended, AccountsTypeOK

\* Counting changes where the update is, and its count.
LEMMA CountedTyped ==
    ASSUME AccountsTypeOK, NEW q \in Updates
    PROVE  /\ Counted(q) \in [Updates -> UpdateType]
           /\ Counted(q)[q].pc = "counted"
           /\ Counted(q)[q].count = Cardinality(ActiveSuperadmins)
           /\ Counted(q)[q].count \in Nat
           /\ Counted(q)[q].by = update[q].by /\ Counted(q)[q].whom = update[q].whom
           /\ Counted(q)[q].was = update[q].was /\ Counted(q)[q].wasOff = update[q].wasOff
           /\ \A p \in Updates \ {q} : Counted(q)[p] = update[p]
<1> DEFINE n == Cardinality(ActiveSuperadmins)
           r == [update[q] EXCEPT !.pc = "counted", !.count = n]
<1>1. n \in Nat
  BY CountTyped
<1>2. Counted(q) = [update EXCEPT ![q] = r]
  BY DEF Counted
<1> HIDE DEF n
<1>3. /\ r \in UpdateType /\ r.pc = "counted" /\ r.count = n
      /\ r.by = update[q].by /\ r.whom = update[q].whom
      /\ r.was = update[q].was /\ r.wasOff = update[q].wasOff
  BY <1>1 DEF AccountsTypeOK, UpdateType
<1> HIDE DEF r
<1> QED
  BY <1>1, <1>2, <1>3 DEF n, AccountsTypeOK

\* A write keeps the types, ends its update, and takes no account away.
LEMMA WritesTyped ==
    ASSUME AccountsTypeOK, Aimed, NEW q \in Updates,
           update[q].pc \in {"target", "counted"}, Writes(q)
    PROVE  /\ role' \in [Users -> Roles \cup {"absent"}] /\ off' \in [Users -> BOOLEAN]
           /\ update' \in [Updates -> UpdateType] /\ crossed' \in BOOLEAN
           /\ update'[q].pc = "written" /\ \A p \in Updates \ {q} : update'[p] = update[p]
           /\ \A u \in Users : role[u] # "absent" => role'[u] # "absent"
           /\ \A u \in Users \ {update[q].whom} : role'[u] = role[u] /\ off'[u] = off[u]
           /\ role'[update[q].whom] = RoleAfter(update[q])
           /\ off'[update[q].whom] =
                (IF update[q].what \in Roles THEN off[update[q].whom] ELSE update[q].what = "disable")
<1>1. update[q].whom \in Users /\ role[update[q].whom] # "absent"
  BY DEF Aimed
<1>2. RoleAfter(update[q]) \in Roles
  BY <1>1 DEF RoleAfter, AccountsTypeOK
<1>3. /\ role' = [role EXCEPT ![update[q].whom] = RoleAfter(update[q])]
      /\ off' = [off EXCEPT ![update[q].whom] = IF update[q].what \in Roles THEN @ ELSE update[q].what = "disable"]
      /\ update' = Ended(q, "written")
      /\ crossed' \in BOOLEAN
  BY DEF Writes, AccountsTypeOK
<1>4. "absent" \notin Roles
  BY DEF Roles
<1>5. role' \in [Users -> Roles \cup {"absent"}]
  BY <1>2, <1>3 DEF AccountsTypeOK
<1>6. off' \in [Users -> BOOLEAN]
  BY <1>1, <1>3, Zenon DEF AccountsTypeOK
<1>7. update' \in [Updates -> UpdateType] /\ update'[q].pc = "written"
      /\ \A p \in Updates \ {q} : update'[p] = update[p]
  BY <1>3, EndedTyped
<1>8. /\ \A u \in Users : role[u] # "absent" => role'[u] # "absent"
      /\ \A u \in Users \ {update[q].whom} : role'[u] = role[u] /\ off'[u] = off[u]
      /\ role'[update[q].whom] = RoleAfter(update[q])
  BY <1>1, <1>2, <1>3, <1>4 DEF AccountsTypeOK
<1>9. off'[update[q].whom] =
        (IF update[q].what \in Roles THEN off[update[q].whom] ELSE update[q].what = "disable")
  BY <1>1, <1>3, Zenon DEF AccountsTypeOK
<1> QED
  BY <1>3, <1>5, <1>6, <1>7, <1>8, <1>9

\* What the last two steps of a handler do.
LEMMA ChecksSplit ==
    ASSUME AccountsTypeOK, NEW q \in Updates, ChecksTarget(q) \/ ChecksCount(q)
    PROVE  /\ UNCHANGED <<setup, signUp, busy>>
           /\ \/ update' = Refused(q) /\ UNCHANGED <<role, off, crossed>>
              \/ /\ update[q].pc = "target" /\ MustCount(update[q])
                 /\ update' = Counted(q)
                 /\ UNCHANGED <<role, off, crossed>>
              \/ update[q].pc = "target" /\ ~MustCount(update[q]) /\ Writes(q)
              \/ update[q].pc = "counted" /\ update[q].count > 1 /\ Writes(q)
BY DEF ChecksTarget, ChecksCount, IsLast, AccountsTypeOK, UpdateType

\* More superadmins are not fewer.
LEMMA MoreSuperadmins ==
    ASSUME ActiveSuperadmins \subseteq ActiveSuperadmins'
    PROVE  /\ Cardinality(ActiveSuperadmins) <= Cardinality(ActiveSuperadmins')
           /\ Cardinality(ActiveSuperadmins) \in Nat /\ Cardinality(ActiveSuperadmins') \in Nat
<1>1. IsFiniteSet(ActiveSuperadmins')
  BY AccountsAssumption, FS_Subset DEF ActiveSuperadmins
<1> QED
  BY <1>1, FS_Subset, FS_CardinalityType, CountTyped

\* An update that is checked as the code checks it leaves an active superadmin.
LEMMA WritesLeaveOne ==
    ASSUME AccountsTypeOK, Aimed, Current, NEW q \in Updates, Writes(q), ~crossed',
           ActiveSuperadmins # {},
           \/ update[q].pc = "target" /\ ~MustCount(update[q])
           \/ update[q].pc = "counted" /\ update[q].count > 1
    PROVE  ActiveSuperadmins' # {}
<1> DEFINE w == update[q].whom
<1>1. ~crossed /\ w \in Users
  BY DEF Writes, AccountsTypeOK, Aimed
<1>2. \A u \in Users \ {w} : role'[u] = role[u] /\ off'[u] = off[u]
  BY WritesTyped
<1>3. CASE \E u \in ActiveSuperadmins : u # w
  BY <1>2, <1>3 DEF ActiveSuperadmins
<1>4. CASE \A u \in ActiveSuperadmins : u = w
  <2>1. ActiveSuperadmins = {w}
    BY <1>4
  <2>2. Cardinality(ActiveSuperadmins) = 1
    BY <2>1, FS_Singleton
  <2>3. update[q].pc = "target"
    BY <1>1, <2>2 DEF Current, AccountsTypeOK, UpdateType
  <2>4. update[q].was = "superadmin" /\ update[q].wasOff = FALSE
    BY <1>1, <2>1, <2>3 DEF Current, ActiveSuperadmins, AccountsTypeOK
  <2>5. update[q].what \in {"superadmin", "enable"}
    BY <2>3, <2>4 DEF MustCount, TakesSuperadmin
  <2>6. role'[w] = "superadmin"
    BY <1>1, <2>1, <2>5, WritesTyped DEF RoleAfter, Roles, ActiveSuperadmins
  <2>7. ~off'[w]
    BY <1>1, <2>1, <2>5, WritesTyped DEF Roles, ActiveSuperadmins
  <2> QED
    BY <1>1, <2>6, <2>7 DEF ActiveSuperadmins
<1> QED
  BY <1>3, <1>4

\* Every step keeps the types.
LEMMA TypesKept ==
    ASSUME AccountsTypeOK, Aimed, [AccountsNext]_accountsVars
    PROVE  AccountsTypeOK'
<1> USE AccountsAssumption DEF AccountsTypeOK
<1>1. ASSUME NEW u \in Users, SubmitsSetup(u)
      PROVE  AccountsTypeOK'
  BY <1>1 DEF SubmitsSetup
<1>2. ASSUME NEW u \in Users, SetupCounts(u)
      PROVE  AccountsTypeOK'
  BY <1>2 DEF SetupCounts
<1>3. ASSUME NEW u \in Users, SetupCreates(u)
      PROVE  AccountsTypeOK'
  BY <1>3 DEF SetupCreates, Roles
<1>4. ASSUME NEW u \in Users, SetupCompletes(u)
      PROVE  AccountsTypeOK'
  BY <1>4 DEF SetupCompletes
<1>5. ASSUME NEW u \in Users, SubmitsSignUp(u)
      PROVE  AccountsTypeOK'
  BY <1>5 DEF SubmitsSignUp
<1>6. ASSUME NEW u \in Users, SignsUp(u)
      PROVE  AccountsTypeOK'
  BY <1>6 DEF SignsUp, Roles
<1>7. ASSUME NEW q \in Updates, NEW a \in Users, NEW u \in Users, NEW what \in Changes, Posts(q, a, u, what)
      PROVE  AccountsTypeOK'
  <2>1. [NoUpdate EXCEPT !.pc = "posted", !.by = a, !.whom = u, !.what = what] \in UpdateType
    BY DEF NoUpdate, Roles, Changes, UpdateType
  <2> QED
    BY <1>7, <2>1 DEF Posts
<1>8. ASSUME NEW q \in Updates, ReadsActor(q)
      PROVE  AccountsTypeOK'
  <2>1. CASE update' = Refused(q) /\ UNCHANGED <<role, off, setup, signUp, busy, crossed>>
    BY <1>8, <2>1, EndedTyped DEF Refused
  <2>2. CASE update' # Refused(q)
    <3>1. [update[q] EXCEPT !.pc = "actor", !.as = role[update[q].by]] \in UpdateType
      BY <1>8, <2>2 DEF ReadsActor, UpdateType, Roles, Aimed
    <3> QED
      BY <1>8, <2>2, <3>1 DEF ReadsActor
  <2> QED
    BY <1>8, <2>1, <2>2 DEF ReadsActor
<1>9. ASSUME NEW q \in Updates, ReadsTarget(q)
      PROVE  AccountsTypeOK'
  <2>1. CASE update' = Refused(q) /\ UNCHANGED <<role, off, setup, signUp, busy, crossed>>
    BY <1>9, <2>1, EndedTyped DEF Refused
  <2>2. CASE update' # Refused(q)
    <3>1. [update[q] EXCEPT !.pc = "target", !.was = role[update[q].whom], !.wasOff = off[update[q].whom]] \in UpdateType
      BY <1>9, <2>2 DEF ReadsTarget, UpdateType, Roles, Aimed
    <3> QED
      BY <1>9, <2>2, <3>1 DEF ReadsTarget
  <2> QED
    BY <1>9, <2>1, <2>2 DEF ReadsTarget
<1>10. ASSUME NEW q \in Updates, ChecksTarget(q)
      PROVE  AccountsTypeOK'
  <2>0. UNCHANGED <<setup, signUp, busy>>
    BY <1>10, ChecksSplit
  <2>1. CASE update' = Refused(q) /\ UNCHANGED <<role, off, crossed>>
    BY <2>0, <2>1, EndedTyped DEF Refused
  <2>2. CASE /\ update[q].pc = "target" /\ MustCount(update[q])
             /\ update' = Counted(q)
             /\ UNCHANGED <<role, off, crossed>>
    BY <2>0, <2>2, CountedTyped
  <2>3. CASE update[q].pc = "target" /\ ~MustCount(update[q]) /\ Writes(q)
    BY <2>0, <2>3, WritesTyped
  <2>4. CASE update[q].pc = "counted" /\ update[q].count > 1 /\ Writes(q)
    BY <2>0, <2>4, WritesTyped
  <2> QED
    BY <1>10, <2>1, <2>2, <2>3, <2>4, ChecksSplit
<1>11. ASSUME NEW q \in Updates, ChecksCount(q)
      PROVE  AccountsTypeOK'
  <2>0. UNCHANGED <<setup, signUp, busy>>
    BY <1>11, ChecksSplit
  <2>1. CASE update' = Refused(q) /\ UNCHANGED <<role, off, crossed>>
    BY <2>0, <2>1, EndedTyped DEF Refused
  <2>2. CASE /\ update[q].pc = "target" /\ MustCount(update[q])
             /\ update' = Counted(q)
             /\ UNCHANGED <<role, off, crossed>>
    BY <2>0, <2>2, CountedTyped
  <2>3. CASE update[q].pc = "target" /\ ~MustCount(update[q]) /\ Writes(q)
    BY <2>0, <2>3, WritesTyped
  <2>4. CASE update[q].pc = "counted" /\ update[q].count > 1 /\ Writes(q)
    BY <2>0, <2>4, WritesTyped
  <2> QED
    BY <1>11, <2>1, <2>2, <2>3, <2>4, ChecksSplit
<1>12. ASSUME NEW q \in Updates, Returns(q)
      PROVE  AccountsTypeOK'
  BY <1>12 DEF Returns, NoUpdate, Ended, Refused, UpdateType, Changes
<1>13. CASE UNCHANGED accountsVars
  BY <1>13 DEF accountsVars
<1> QED
  BY <1>1, <1>2, <1>3, <1>4, <1>5, <1>6, <1>7, <1>8, <1>9, <1>10, <1>11, <1>12, <1>13 DEF AccountsNext

\* Every step keeps the setups apart.
LEMMA AloneKept ==
    ASSUME AccountsTypeOK, Aimed, Alone, [AccountsNext]_accountsVars
    PROVE  Alone'
<1> USE AccountsAssumption DEF AccountsTypeOK, Alone
<1>1. ASSUME NEW u \in Users, SubmitsSetup(u)
      PROVE  Alone'
  BY <1>1 DEF SubmitsSetup
<1>2. ASSUME NEW u \in Users, SetupCounts(u)
      PROVE  Alone'
  BY <1>2 DEF SetupCounts, SetupLockFree, Accounts
<1>3. ASSUME NEW u \in Users, SetupCreates(u)
      PROVE  Alone'
  BY <1>3 DEF SetupCreates
<1>4. ASSUME NEW u \in Users, SetupCompletes(u)
      PROVE  Alone'
  BY <1>4 DEF SetupCompletes
<1>5. ASSUME NEW u \in Users, SubmitsSignUp(u)
      PROVE  Alone'
  BY <1>5 DEF SubmitsSignUp
<1>6. ASSUME NEW u \in Users, SignsUp(u)
      PROVE  Alone'
  BY <1>6 DEF SignsUp
<1>7. ASSUME NEW q \in Updates, NEW a \in Users, NEW u \in Users, NEW what \in Changes, Posts(q, a, u, what)
      PROVE  Alone'
  BY <1>7 DEF Posts
<1>8. ASSUME NEW q \in Updates, ReadsActor(q)
      PROVE  Alone'
  BY <1>8 DEF ReadsActor
<1>9. ASSUME NEW q \in Updates, ReadsTarget(q)
      PROVE  Alone'
  BY <1>9 DEF ReadsTarget
<1>10. ASSUME NEW q \in Updates, ChecksTarget(q)
      PROVE  Alone'
  <2>0. UNCHANGED <<setup, signUp, busy>>
    BY <1>10, ChecksSplit
  <2>1. CASE update' = Refused(q) /\ UNCHANGED <<role, off, crossed>>
    BY <2>0, <2>1, EndedTyped DEF Refused
  <2>2. CASE /\ update[q].pc = "target" /\ MustCount(update[q])
             /\ update' = Counted(q)
             /\ UNCHANGED <<role, off, crossed>>
    BY <2>0, <2>2
  <2>3. CASE update[q].pc = "target" /\ ~MustCount(update[q]) /\ Writes(q)
    BY <2>0, <2>3, WritesTyped
  <2>4. CASE update[q].pc = "counted" /\ update[q].count > 1 /\ Writes(q)
    BY <2>0, <2>4, WritesTyped
  <2> QED
    BY <1>10, <2>1, <2>2, <2>3, <2>4, ChecksSplit
<1>11. ASSUME NEW q \in Updates, ChecksCount(q)
      PROVE  Alone'
  <2>0. UNCHANGED <<setup, signUp, busy>>
    BY <1>11, ChecksSplit
  <2>1. CASE update' = Refused(q) /\ UNCHANGED <<role, off, crossed>>
    BY <2>0, <2>1, EndedTyped DEF Refused
  <2>2. CASE /\ update[q].pc = "target" /\ MustCount(update[q])
             /\ update' = Counted(q)
             /\ UNCHANGED <<role, off, crossed>>
    BY <2>0, <2>2
  <2>3. CASE update[q].pc = "target" /\ ~MustCount(update[q]) /\ Writes(q)
    BY <2>0, <2>3, WritesTyped
  <2>4. CASE update[q].pc = "counted" /\ update[q].count > 1 /\ Writes(q)
    BY <2>0, <2>4, WritesTyped
  <2> QED
    BY <1>11, <2>1, <2>2, <2>3, <2>4, ChecksSplit
<1>12. ASSUME NEW q \in Updates, Returns(q)
      PROVE  Alone'
  BY <1>12 DEF Returns
<1>13. CASE UNCHANGED accountsVars
  BY <1>13 DEF accountsVars
<1> QED
  BY <1>1, <1>2, <1>3, <1>4, <1>5, <1>6, <1>7, <1>8, <1>9, <1>10, <1>11, <1>12, <1>13 DEF AccountsNext

\* Every step leaves an update aimed at an account.
LEMMA AimedKept ==
    ASSUME AccountsTypeOK, Aimed, [AccountsNext]_accountsVars
    PROVE  Aimed'
<1> USE AccountsAssumption DEF AccountsTypeOK, Aimed
<1>1. ASSUME NEW u \in Users, SubmitsSetup(u)
      PROVE  Aimed'
  BY <1>1 DEF SubmitsSetup
<1>2. ASSUME NEW u \in Users, SetupCounts(u)
      PROVE  Aimed'
  BY <1>2 DEF SetupCounts
<1>3. ASSUME NEW u \in Users, SetupCreates(u)
      PROVE  Aimed'
  BY <1>3 DEF SetupCreates
<1>4. ASSUME NEW u \in Users, SetupCompletes(u)
      PROVE  Aimed'
  BY <1>4 DEF SetupCompletes
<1>5. ASSUME NEW u \in Users, SubmitsSignUp(u)
      PROVE  Aimed'
  BY <1>5 DEF SubmitsSignUp
<1>6. ASSUME NEW u \in Users, SignsUp(u)
      PROVE  Aimed'
  BY <1>6 DEF SignsUp
<1>7. ASSUME NEW q \in Updates, NEW a \in Users, NEW u \in Users, NEW what \in Changes, Posts(q, a, u, what)
      PROVE  Aimed'
  BY <1>7 DEF Posts, NoUpdate
<1>8. ASSUME NEW q \in Updates, ReadsActor(q)
      PROVE  Aimed'
  BY <1>8 DEF ReadsActor, NoUpdate, Ended, Refused
<1>9. ASSUME NEW q \in Updates, ReadsTarget(q)
      PROVE  Aimed'
  BY <1>9 DEF ReadsTarget, NoUpdate, Ended, Refused
<1>10. ASSUME NEW q \in Updates, ChecksTarget(q)
      PROVE  Aimed'
  <2>0. UNCHANGED <<setup, signUp, busy>>
    BY <1>10, ChecksSplit
  <2>1. CASE update' = Refused(q) /\ UNCHANGED <<role, off, crossed>>
    BY <2>0, <2>1, EndedTyped DEF Refused
  <2>2. CASE /\ update[q].pc = "target" /\ MustCount(update[q])
             /\ update' = Counted(q)
             /\ UNCHANGED <<role, off, crossed>>
    BY <2>0, <2>2, CountedTyped
  <2>3. CASE update[q].pc = "target" /\ ~MustCount(update[q]) /\ Writes(q)
    BY <2>0, <2>3, WritesTyped
  <2>4. CASE update[q].pc = "counted" /\ update[q].count > 1 /\ Writes(q)
    BY <2>0, <2>4, WritesTyped
  <2> QED
    BY <1>10, <2>1, <2>2, <2>3, <2>4, ChecksSplit
<1>11. ASSUME NEW q \in Updates, ChecksCount(q)
      PROVE  Aimed'
  <2>0. UNCHANGED <<setup, signUp, busy>>
    BY <1>11, ChecksSplit
  <2>1. CASE update' = Refused(q) /\ UNCHANGED <<role, off, crossed>>
    BY <2>0, <2>1, EndedTyped DEF Refused
  <2>2. CASE /\ update[q].pc = "target" /\ MustCount(update[q])
             /\ update' = Counted(q)
             /\ UNCHANGED <<role, off, crossed>>
    BY <2>0, <2>2, CountedTyped
  <2>3. CASE update[q].pc = "target" /\ ~MustCount(update[q]) /\ Writes(q)
    BY <2>0, <2>3, WritesTyped
  <2>4. CASE update[q].pc = "counted" /\ update[q].count > 1 /\ Writes(q)
    BY <2>0, <2>4, WritesTyped
  <2> QED
    BY <1>11, <2>1, <2>2, <2>3, <2>4, ChecksSplit
<1>12. ASSUME NEW q \in Updates, Returns(q)
      PROVE  Aimed'
  BY <1>12 DEF Returns, NoUpdate, Ended, Refused
<1>13. CASE UNCHANGED accountsVars
  BY <1>13 DEF accountsVars
<1> QED
  BY <1>1, <1>2, <1>3, <1>4, <1>5, <1>6, <1>7, <1>8, <1>9, <1>10, <1>11, <1>12, <1>13 DEF AccountsNext

\* Every step leaves those without an account enabled.
LEMMA FreshKept ==
    ASSUME AccountsTypeOK, Aimed, FreshIsOn, [AccountsNext]_accountsVars
    PROVE  FreshIsOn'
<1> USE AccountsAssumption DEF AccountsTypeOK, Aimed, FreshIsOn
<1>1. ASSUME NEW u \in Users, SubmitsSetup(u)
      PROVE  FreshIsOn'
  BY <1>1 DEF SubmitsSetup
<1>2. ASSUME NEW u \in Users, SetupCounts(u)
      PROVE  FreshIsOn'
  BY <1>2 DEF SetupCounts
<1>3. ASSUME NEW u \in Users, SetupCreates(u)
      PROVE  FreshIsOn'
  BY <1>3 DEF SetupCreates
<1>4. ASSUME NEW u \in Users, SetupCompletes(u)
      PROVE  FreshIsOn'
  BY <1>4 DEF SetupCompletes
<1>5. ASSUME NEW u \in Users, SubmitsSignUp(u)
      PROVE  FreshIsOn'
  BY <1>5 DEF SubmitsSignUp
<1>6. ASSUME NEW u \in Users, SignsUp(u)
      PROVE  FreshIsOn'
  BY <1>6 DEF SignsUp
<1>7. ASSUME NEW q \in Updates, NEW a \in Users, NEW u \in Users, NEW what \in Changes, Posts(q, a, u, what)
      PROVE  FreshIsOn'
  BY <1>7 DEF Posts
<1>8. ASSUME NEW q \in Updates, ReadsActor(q)
      PROVE  FreshIsOn'
  BY <1>8 DEF ReadsActor
<1>9. ASSUME NEW q \in Updates, ReadsTarget(q)
      PROVE  FreshIsOn'
  BY <1>9 DEF ReadsTarget
<1>10. ASSUME NEW q \in Updates, ChecksTarget(q)
      PROVE  FreshIsOn'
  <2>0. UNCHANGED <<setup, signUp, busy>>
    BY <1>10, ChecksSplit
  <2>1. CASE update' = Refused(q) /\ UNCHANGED <<role, off, crossed>>
    BY <2>0, <2>1, EndedTyped DEF Refused
  <2>2. CASE /\ update[q].pc = "target" /\ MustCount(update[q])
             /\ update' = Counted(q)
             /\ UNCHANGED <<role, off, crossed>>
    BY <2>0, <2>2
  <2>3. CASE update[q].pc = "target" /\ ~MustCount(update[q]) /\ Writes(q)
    BY <2>0, <2>3, WritesTyped
  <2>4. CASE update[q].pc = "counted" /\ update[q].count > 1 /\ Writes(q)
    BY <2>0, <2>4, WritesTyped
  <2> QED
    BY <1>10, <2>1, <2>2, <2>3, <2>4, ChecksSplit
<1>11. ASSUME NEW q \in Updates, ChecksCount(q)
      PROVE  FreshIsOn'
  <2>0. UNCHANGED <<setup, signUp, busy>>
    BY <1>11, ChecksSplit
  <2>1. CASE update' = Refused(q) /\ UNCHANGED <<role, off, crossed>>
    BY <2>0, <2>1, EndedTyped DEF Refused
  <2>2. CASE /\ update[q].pc = "target" /\ MustCount(update[q])
             /\ update' = Counted(q)
             /\ UNCHANGED <<role, off, crossed>>
    BY <2>0, <2>2
  <2>3. CASE update[q].pc = "target" /\ ~MustCount(update[q]) /\ Writes(q)
    BY <2>0, <2>3, WritesTyped
  <2>4. CASE update[q].pc = "counted" /\ update[q].count > 1 /\ Writes(q)
    BY <2>0, <2>4, WritesTyped
  <2> QED
    BY <1>11, <2>1, <2>2, <2>3, <2>4, ChecksSplit
<1>12. ASSUME NEW q \in Updates, Returns(q)
      PROVE  FreshIsOn'
  BY <1>12 DEF Returns
<1>13. CASE UNCHANGED accountsVars
  BY <1>13 DEF accountsVars
<1> QED
  BY <1>1, <1>2, <1>3, <1>4, <1>5, <1>6, <1>7, <1>8, <1>9, <1>10, <1>11, <1>12, <1>13 DEF AccountsNext

\* Unless a write came between, what an update has read stays so.
LEMMA CurrentKept ==
    ASSUME AccountsTypeOK, Aimed, FreshIsOn, Current, [AccountsNext]_accountsVars
    PROVE  Current'
<1> USE AccountsAssumption DEF AccountsTypeOK, Current
<1>1. ASSUME NEW u \in Users, SubmitsSetup(u)
      PROVE  Current'
  BY <1>1 DEF SubmitsSetup, ActiveSuperadmins
<1>2. ASSUME NEW u \in Users, SetupCounts(u)
      PROVE  Current'
  BY <1>2 DEF SetupCounts, ActiveSuperadmins
<1>3. ASSUME NEW u \in Users, SetupCreates(u)
      PROVE  Current'
  <2>1. UNCHANGED <<off, update, crossed>>
    BY <1>3 DEF SetupCreates
  <2>2. \A v \in Users : role[v] # "absent" => role'[v] = role[v]
    BY <1>3 DEF SetupCreates
  <2>3. ActiveSuperadmins \subseteq ActiveSuperadmins'
    BY <2>1, <2>2 DEF ActiveSuperadmins
  <2>4. Cardinality(ActiveSuperadmins) <= Cardinality(ActiveSuperadmins')
    BY <2>3, MoreSuperadmins
  <2>5. \A p \in Updates : update[p].count \in Nat
    BY DEF UpdateType
  <2> QED
    BY <2>1, <2>2, <2>3, <2>4, <2>5, MoreSuperadmins DEF Aimed
<1>4. ASSUME NEW u \in Users, SetupCompletes(u)
      PROVE  Current'
  BY <1>4 DEF SetupCompletes, ActiveSuperadmins
<1>5. ASSUME NEW u \in Users, SubmitsSignUp(u)
      PROVE  Current'
  BY <1>5 DEF SubmitsSignUp, ActiveSuperadmins
<1>6. ASSUME NEW u \in Users, SignsUp(u)
      PROVE  Current'
  <2>1. UNCHANGED <<off, update, crossed>>
    BY <1>6 DEF SignsUp
  <2>2. \A v \in Users : role[v] # "absent" => role'[v] = role[v]
    BY <1>6 DEF SignsUp
  <2>3. ActiveSuperadmins \subseteq ActiveSuperadmins'
    BY <2>1, <2>2 DEF ActiveSuperadmins
  <2>4. Cardinality(ActiveSuperadmins) <= Cardinality(ActiveSuperadmins')
    BY <2>3, MoreSuperadmins
  <2>5. \A p \in Updates : update[p].count \in Nat
    BY DEF UpdateType
  <2> QED
    BY <2>1, <2>2, <2>3, <2>4, <2>5, MoreSuperadmins DEF Aimed
<1>7. ASSUME NEW q \in Updates, NEW a \in Users, NEW u \in Users, NEW what \in Changes, Posts(q, a, u, what)
      PROVE  Current'
  BY <1>7 DEF Posts, ActiveSuperadmins, NoUpdate
<1>8. ASSUME NEW q \in Updates, ReadsActor(q)
      PROVE  Current'
  <2>0. ActiveSuperadmins' = ActiveSuperadmins /\ UNCHANGED <<role, off, crossed>>
    BY <1>8 DEF ReadsActor, ActiveSuperadmins
  <2>1. CASE update' = Refused(q)
    BY <2>0, <2>1, EndedTyped DEF Refused
  <2>2. CASE update' = [update EXCEPT ![q] = [update[q] EXCEPT !.pc = "actor", !.as = role[update[q].by]]]
    BY <1>8, <2>0, <2>2 DEF UpdateType
  <2> QED
    BY <1>8, <2>1, <2>2 DEF ReadsActor
<1>9. ASSUME NEW q \in Updates, ReadsTarget(q)
      PROVE  Current'
  <2>0. ActiveSuperadmins' = ActiveSuperadmins /\ UNCHANGED <<role, off, crossed>>
    BY <1>9 DEF ReadsTarget, ActiveSuperadmins
  <2>1. CASE update' = Refused(q)
    BY <2>0, <2>1, EndedTyped DEF Refused
  <2>2. CASE update' = [update EXCEPT ![q] = [update[q] EXCEPT !.pc = "target", !.was = role[update[q].whom], !.wasOff = off[update[q].whom]]]
    BY <1>9, <2>0, <2>2 DEF UpdateType
  <2> QED
    BY <1>9, <2>1, <2>2 DEF ReadsTarget
<1>10. ASSUME NEW q \in Updates, ChecksTarget(q)
      PROVE  Current'
  <2>0. UNCHANGED <<setup, signUp, busy>>
    BY <1>10, ChecksSplit
  <2>1. CASE update' = Refused(q) /\ UNCHANGED <<role, off, crossed>>
    <3>1. ActiveSuperadmins' = ActiveSuperadmins
      BY <2>1 DEF ActiveSuperadmins
    <3> QED
      BY <2>0, <2>1, <3>1, EndedTyped DEF Refused
  <2>2. CASE /\ update[q].pc = "target" /\ MustCount(update[q])
             /\ update' = Counted(q)
             /\ UNCHANGED <<role, off, crossed>>
    <3>1. ActiveSuperadmins' = ActiveSuperadmins
      BY <2>2 DEF ActiveSuperadmins
    <3> QED
      BY <2>2, <3>1, CountedTyped
  <2>3. CASE update[q].pc = "target" /\ ~MustCount(update[q]) /\ Writes(q)
    <3>1. crossed' \/ \A p \in Updates \ {q} : update[p].pc \notin {"target", "counted"}
      BY <2>3 DEF Writes
    <3> QED
      BY <1>10, <2>3, <3>1, WritesTyped
  <2>4. CASE update[q].pc = "counted" /\ update[q].count > 1 /\ Writes(q)
    <3>1. crossed' \/ \A p \in Updates \ {q} : update[p].pc \notin {"target", "counted"}
      BY <2>4 DEF Writes
    <3> QED
      BY <1>10, <2>4, <3>1, WritesTyped
  <2> QED
    BY <1>10, <2>1, <2>2, <2>3, <2>4, ChecksSplit
<1>11. ASSUME NEW q \in Updates, ChecksCount(q)
      PROVE  Current'
  <2>0. UNCHANGED <<setup, signUp, busy>>
    BY <1>11, ChecksSplit
  <2>1. CASE update' = Refused(q) /\ UNCHANGED <<role, off, crossed>>
    <3>1. ActiveSuperadmins' = ActiveSuperadmins
      BY <2>1 DEF ActiveSuperadmins
    <3> QED
      BY <2>0, <2>1, <3>1, EndedTyped DEF Refused
  <2>2. CASE /\ update[q].pc = "target" /\ MustCount(update[q])
             /\ update' = Counted(q)
             /\ UNCHANGED <<role, off, crossed>>
    <3>1. ActiveSuperadmins' = ActiveSuperadmins
      BY <2>2 DEF ActiveSuperadmins
    <3> QED
      BY <2>2, <3>1, CountedTyped
  <2>3. CASE update[q].pc = "target" /\ ~MustCount(update[q]) /\ Writes(q)
    <3>1. crossed' \/ \A p \in Updates \ {q} : update[p].pc \notin {"target", "counted"}
      BY <2>3 DEF Writes
    <3> QED
      BY <1>11, <2>3, <3>1, WritesTyped
  <2>4. CASE update[q].pc = "counted" /\ update[q].count > 1 /\ Writes(q)
    <3>1. crossed' \/ \A p \in Updates \ {q} : update[p].pc \notin {"target", "counted"}
      BY <2>4 DEF Writes
    <3> QED
      BY <1>11, <2>4, <3>1, WritesTyped
  <2> QED
    BY <1>11, <2>1, <2>2, <2>3, <2>4, ChecksSplit
<1>12. ASSUME NEW q \in Updates, Returns(q)
      PROVE  Current'
  <2>1. ActiveSuperadmins' = ActiveSuperadmins
    BY <1>12 DEF Returns, ActiveSuperadmins
  <2> QED
    BY <1>12, <2>1 DEF Returns, NoUpdate, Ended, Refused
<1>13. CASE UNCHANGED accountsVars
  BY <1>13 DEF accountsVars, ActiveSuperadmins
<1> QED
  BY <1>1, <1>2, <1>3, <1>4, <1>5, <1>6, <1>7, <1>8, <1>9, <1>10, <1>11, <1>12, <1>13 DEF AccountsNext

\* Every step that meets no other write leaves a superadmin.
LEMMA RemainsKept ==
    ASSUME AccountsTypeOK, Aimed, FreshIsOn, Current, Alone, SuperadminRemains, [AccountsNext]_accountsVars
    PROVE  SuperadminRemains'
<1> USE AccountsAssumption DEF AccountsTypeOK, SuperadminRemains
<1>1. ASSUME NEW u \in Users, SubmitsSetup(u)
      PROVE  SuperadminRemains'
  BY <1>1 DEF SubmitsSetup, Seated, ActiveSuperadmins
<1>2. ASSUME NEW u \in Users, SetupCounts(u)
      PROVE  SuperadminRemains'
  BY <1>2 DEF SetupCounts, Seated, ActiveSuperadmins
<1>3. ASSUME NEW u \in Users, SetupCreates(u)
      PROVE  SuperadminRemains'
  <2>1. CASE role[u] = "absent"
    <3>1. role'[u] = "superadmin" /\ ~off'[u]
      BY <1>3, <2>1 DEF SetupCreates, FreshIsOn
    <3> QED
      BY <3>1 DEF ActiveSuperadmins
  <2>2. CASE role[u] # "absent"
    BY <1>3, <2>2 DEF SetupCreates, Seated, ActiveSuperadmins
  <2> QED
    BY <2>1, <2>2
<1>4. ASSUME NEW u \in Users, SetupCompletes(u)
      PROVE  SuperadminRemains'
  BY <1>4 DEF SetupCompletes, Seated, ActiveSuperadmins
<1>5. ASSUME NEW u \in Users, SubmitsSignUp(u)
      PROVE  SuperadminRemains'
  BY <1>5 DEF SubmitsSignUp, Seated, ActiveSuperadmins
<1>6. ASSUME NEW u \in Users, SignsUp(u)
      PROVE  SuperadminRemains'
  <2>1. UNCHANGED <<off, crossed>> /\ Seated' = Seated
    BY <1>6 DEF SignsUp, Seated
  <2>2. ActiveSuperadmins \subseteq ActiveSuperadmins'
    BY <1>6, <2>1 DEF SignsUp, ActiveSuperadmins
  <2> QED
    BY <2>1, <2>2
<1>7. ASSUME NEW q \in Updates, NEW a \in Users, NEW u \in Users, NEW what \in Changes, Posts(q, a, u, what)
      PROVE  SuperadminRemains'
  BY <1>7 DEF Posts, Seated, ActiveSuperadmins
<1>8. ASSUME NEW q \in Updates, ReadsActor(q)
      PROVE  SuperadminRemains'
  BY <1>8 DEF ReadsActor, Seated, ActiveSuperadmins
<1>9. ASSUME NEW q \in Updates, ReadsTarget(q)
      PROVE  SuperadminRemains'
  BY <1>9 DEF ReadsTarget, Seated, ActiveSuperadmins
<1>10. ASSUME NEW q \in Updates, ChecksTarget(q)
      PROVE  SuperadminRemains'
  <2>0. UNCHANGED <<setup, signUp, busy>>
    BY <1>10, ChecksSplit
  <2>1. CASE update' = Refused(q) /\ UNCHANGED <<role, off, crossed>>
    BY <1>10, <2>1, ChecksSplit DEF Seated, ActiveSuperadmins
  <2>2. CASE /\ update[q].pc = "target" /\ MustCount(update[q])
             /\ update' = Counted(q)
             /\ UNCHANGED <<role, off, crossed>>
    BY <1>10, <2>2, ChecksSplit DEF Seated, ActiveSuperadmins
  <2>3. CASE update[q].pc = "target" /\ ~MustCount(update[q]) /\ Writes(q)
    <3>1. (crossed => crossed') /\ Seated' = Seated
      BY <1>10, <2>3, ChecksSplit DEF Writes, Seated
    <3> QED
      BY <2>3, <3>1, WritesLeaveOne
  <2>4. CASE update[q].pc = "counted" /\ update[q].count > 1 /\ Writes(q)
    <3>1. (crossed => crossed') /\ Seated' = Seated
      BY <1>10, <2>4, ChecksSplit DEF Writes, Seated
    <3> QED
      BY <2>4, <3>1, WritesLeaveOne
  <2> QED
    BY <1>10, <2>1, <2>2, <2>3, <2>4, ChecksSplit
<1>11. ASSUME NEW q \in Updates, ChecksCount(q)
      PROVE  SuperadminRemains'
  <2>0. UNCHANGED <<setup, signUp, busy>>
    BY <1>11, ChecksSplit
  <2>1. CASE update' = Refused(q) /\ UNCHANGED <<role, off, crossed>>
    BY <1>11, <2>1, ChecksSplit DEF Seated, ActiveSuperadmins
  <2>2. CASE /\ update[q].pc = "target" /\ MustCount(update[q])
             /\ update' = Counted(q)
             /\ UNCHANGED <<role, off, crossed>>
    BY <1>11, <2>2, ChecksSplit DEF Seated, ActiveSuperadmins
  <2>3. CASE update[q].pc = "target" /\ ~MustCount(update[q]) /\ Writes(q)
    <3>1. (crossed => crossed') /\ Seated' = Seated
      BY <1>11, <2>3, ChecksSplit DEF Writes, Seated
    <3> QED
      BY <2>3, <3>1, WritesLeaveOne
  <2>4. CASE update[q].pc = "counted" /\ update[q].count > 1 /\ Writes(q)
    <3>1. (crossed => crossed') /\ Seated' = Seated
      BY <1>11, <2>4, ChecksSplit DEF Writes, Seated
    <3> QED
      BY <2>4, <3>1, WritesLeaveOne
  <2> QED
    BY <1>11, <2>1, <2>2, <2>3, <2>4, ChecksSplit
<1>12. ASSUME NEW q \in Updates, Returns(q)
      PROVE  SuperadminRemains'
  BY <1>12 DEF Returns, Seated, ActiveSuperadmins
<1>13. CASE UNCHANGED accountsVars
  BY <1>13 DEF accountsVars, ActiveSuperadmins, Seated
<1> QED
  BY <1>1, <1>2, <1>3, <1>4, <1>5, <1>6, <1>7, <1>8, <1>9, <1>10, <1>11, <1>12, <1>13 DEF AccountsNext

THEOREM AccountsInvariant == AccountsSpec => []IInv
<1>1. IInv /\ [AccountsNext]_accountsVars => IInv'
  BY TypesKept, AloneKept, AimedKept, FreshKept, CurrentKept, RemainsKept DEF IInv
<1> QED
  BY AccountsInitial, <1>1, PTL DEF AccountsSpec

-----------------------------------------------------------------------------

\* The variables keep their types: whatever the panels ask for, every account
\* has a role and every busy row is somebody's.
THEOREM AccountsTyped == AccountsSpec => []AccountsTypeOK
<1>1. IInv => AccountsTypeOK
  BY DEF IInv
<1> QED
  BY AccountsInvariant, <1>1, PTL

\* Setup makes one superadmin at most.
THEOREM SetupIsOnce == AccountsSpec => []SetupOnce
<1>1. IInv => SetupOnce
  <2> SUFFICES ASSUME IInv PROVE SetupOnce
    OBVIOUS
  <2> DEFINE made == {u \in Users : setup[u] \in {"created", "done"}}
  <2>1. CASE made = {}
    BY <2>1, FS_EmptySet DEF SetupOnce
  <2>2. ASSUME NEW u \in made PROVE SetupOnce
    <3>1. made = {u}
      BY DEF IInv, Alone
    <3>2. Cardinality(made) = 1
      BY <3>1, FS_Singleton
    <3> QED
      BY <3>2 DEF SetupOnce
  <2> QED
    BY <2>1, <2>2
<1> QED
  BY AccountsInvariant, <1>1, PTL

\* An active superadmin remains, unless one update was written between another's
\* reading and writing.
THEOREM ASuperadminRemains == AccountsSpec => []SuperadminRemains
<1>1. IInv => SuperadminRemains
  BY DEF IInv
<1> QED
  BY AccountsInvariant, <1>1, PTL

===============================================================================

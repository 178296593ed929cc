--------------------------- MODULE RunOutcomeProofs ---------------------------
(***************************************************************************)
(* Proofs about the outcome of a run: what may follow `done`, `error` and  *)
(* `cancelled` in the log and in runs.status, and that RunService          *)
(* implements EventStream.                                                 *)
(***************************************************************************)
EXTENDS RunServiceProofs

\* The log holds an outcome.
Decided == \E n \in DOMAIN log : log[n] \in Terminal

\* Where the engine has nothing but an outcome left to emit.
Ending == {"done", "error", "timeout", "finished"}

\* A writer between its insert and its fan-out.
Inserted == {"inserted", "projected"}

\* After an outcome nothing else can be appended: the sink sees the
\* cancellation, the hub's next seq is one the log has (it was numbered by
\* another process or by a cancel without the hub), or the engine is ending.
Settled == Decided => cancelled \/ Taken(nextSeq) \/ pc \in Ending

\* A cancel marks the hub before it queues for write_lock.
CancelMarked == \A c \in Cancels : io[c] # "idle" => cancelled

\* The future is cancelled by a task that gives up, or by a cancel; then
\* nothing is being written for the engine, as the sink drops what it emits.
GoneFuture ==
    approval = "cancelled" => pc \in Ending \/ (cancelled /\ io[Engine] \notin Inserted)

\* What is being written is the last event of the log, and no cancel without
\* the hub can put another one behind it.
WritesLast ==
    \A p \in Writers : io[p] \in Inserted =>
        /\ ~Taken(nextSeq)
        /\ \A c \in Cancels : can[c] = "unlocked" => Taken(seqOf[c])

\* runs.status comes from an event of the log.
RowLogged == row \in StatusEvents => \E n \in DOMAIN log : log[n] = row

\* So will the status a cancel without the hub is about to write.
UnlockedLogged ==
    \A c \in Cancels : can[c] = "unlocked_inserted" =>
        Taken(seqOf[c]) /\ log[seqOf[c]] = "cancelled"

OutcomeInv ==
    /\ Settled /\ CancelMarked /\ GoneFuture /\ WritesLast /\ RowLogged /\ UnlockedLogged
    /\ OnlyVerdictsAfterVerdict

-----------------------------------------------------------------------------
(* The steps that matter *)

\* A step that leaves the log, the status and the numbering alone, and brings
\* nobody nearer to changing them.
Calm ==
    /\ row' = row /\ log' = log /\ nextSeq' = nextSeq /\ cancelled' = cancelled
    /\ seqOf' = seqOf
    /\ pc \in Ending => pc' \in Ending
    /\ \A p \in Writers : io'[p] \in Inserted => io[p] \in Inserted
    /\ \A c \in Cancels : io'[c] # "idle" => io[c] # "idle"
    /\ \A c \in Cancels : can'[c] \in {"unlocked", "unlocked_inserted"} => can'[c] = can[c]

\* The steps that are not calm.
Eventful ==
    \/ \E p \in Tasks : Appends(p) \/ AppendFails(p)
    \/ \E p \in Writers : Projects(p)
    \/ Restarts
    \/ \E c \in Cancels : \/ CancelMarks(c) \/ CancelAppends(c)
                          \/ CancelAppendsUnlocked(c) \/ CancelProjectsUnlocked(c)
    \/ \E u \in Subscribers : RegistersHub(u)

\* Every step is calm or one of the eventful ones.
LEMMA CalmOrEventful ==
    ASSUME TypeOK, Control, [Next]_vars
    PROVE  Calm \/ Eventful
<1> USE WriterAssumption DEF dbVars, hubVars, taskVars, subVars, canVars, submVars, Ending, Inserted,
        Writers, Tasks, TypeOK, TaskTypeOK, RequestTypeOK, Control
<1>1. CASE Approved
  BY <1>1 DEF Calm, Approved
<1>2. CASE Researched
  BY <1>2 DEF Calm, Researched
<1>3. ASSUME NEW s \in Sections, SectionBegins(s)
      PROVE  Calm \/ Eventful
  BY <1>3 DEF Calm, SectionBegins
<1>4. ASSUME NEW s \in Sections, UpsertPlanned(s)
      PROVE  Calm \/ Eventful
  BY <1>4 DEF Calm, UpsertPlanned
<1>5. ASSUME NEW p \in Tasks, Waits(p)
      PROVE  Calm \/ Eventful
  BY <1>5 DEF Calm, Waits, Join, AtEmit
<1>6. ASSUME NEW p \in Tasks, SinkDrops(p)
      PROVE  Calm \/ Eventful
  BY <1>6 DEF Calm, SinkDrops, Leave, Return, AfterEmit, Enters, AtEmit, HasLock, EmitPcs
<1>7. ASSUME NEW p \in Tasks, Appends(p)
      PROVE  Calm \/ Eventful
  BY <1>7, Zenon DEF Eventful
<1>8. ASSUME NEW p \in Tasks, AppendFails(p)
      PROVE  Calm \/ Eventful
  BY <1>8, Zenon DEF Eventful
<1>9. ASSUME NEW p \in Tasks, FansOut(p)
      PROVE  Calm \/ Eventful
  BY <1>9 DEF Calm, FansOut, Leave, Return, AfterEmit
<1>10. ASSUME NEW p \in Writers, Projects(p)
      PROVE  Calm \/ Eventful
  BY <1>10, Zenon DEF Eventful
<1>11. CASE EngineFails
  <2>1. pc' \in {"finished", "error"} /\ \A q \in Writers : io'[q] \in {io[q], "idle"}
    BY <1>11 DEF EngineFails, Raise, Leave
  <2> QED
    BY <1>11, <2>1 DEF EngineFails, Calm
<1>12. ASSUME NEW s \in Sections, SectionFails(s)
      PROVE  Calm \/ Eventful
  <2>1. pc' \in {"finished", "error"} /\ \A q \in Writers : io'[q] \in {io[q], "idle"}
    BY <1>12 DEF SectionFails, Raise, Leave
  <2> QED
    BY <1>12, <2>1 DEF SectionFails, Calm
<1>13. CASE TimesOut
  BY <1>13 DEF Calm, TimesOut, Leave
<1>14. CASE Restarts
  BY <1>14, Zenon DEF Eventful
<1>15. ASSUME NEW c \in Cancels, CancelReads(c)
      PROVE  Calm \/ Eventful
  BY <1>15 DEF Calm, CancelReads
<1>16. ASSUME NEW c \in Cancels, CancelMarks(c)
      PROVE  Calm \/ Eventful
  BY <1>16, Zenon DEF Eventful
<1>17. ASSUME NEW c \in Cancels, CancelAppends(c)
      PROVE  Calm \/ Eventful
  BY <1>17, Zenon DEF Eventful
<1>18. ASSUME NEW c \in Cancels, CancelFansOut(c)
      PROVE  Calm \/ Eventful
  <2>1. /\ io'[c] = "idle" /\ \A q \in Writers : io'[q] \in {io[q], "idle"}
        /\ pc' \in {pc, "finished"} /\ can' = [can EXCEPT ![c] = "done"]
    BY <1>18 DEF CancelFansOut, Leave, Writers
  <2> QED
    BY <1>18, <2>1 DEF CancelFansOut, Calm, Ending, dbVars
<1>19. ASSUME NEW c \in Cancels, CancelAppendsUnlocked(c)
      PROVE  Calm \/ Eventful
  BY <1>19, Zenon DEF Eventful
<1>20. ASSUME NEW c \in Cancels, CancelProjectsUnlocked(c)
      PROVE  Calm \/ Eventful
  BY <1>20, Zenon DEF Eventful
<1>21. ASSUME NEW m \in Submits, NEW edited \in SUBSET Sections, SubmitEdits(m, edited)
      PROVE  Calm \/ Eventful
  BY <1>21 DEF Calm, SubmitEdits
<1>22. ASSUME NEW m \in Submits, NEW s \in Sections, SubmitUpserts(m, s)
      PROVE  Calm \/ Eventful
  BY <1>22 DEF Calm, SubmitUpserts
<1>23. ASSUME NEW m \in Submits, SubmitKeeps(m)
      PROVE  Calm \/ Eventful
  BY <1>23 DEF Calm, SubmitKeeps
<1>24. ASSUME NEW m \in Submits, SubmitRefused(m)
      PROVE  Calm \/ Eventful
  BY <1>24 DEF Calm, SubmitRefused
<1>25. ASSUME NEW m \in Submits, SubmitResolves(m)
      PROVE  Calm \/ Eventful
  BY <1>25 DEF Calm, SubmitResolves
<1>26. ASSUME NEW u \in Subscribers, Connects(u)
      PROVE  Calm \/ Eventful
  BY <1>26 DEF Calm, Connects
<1>27. ASSUME NEW u \in Subscribers, RegistersHub(u)
      PROVE  Calm \/ Eventful
  BY <1>27, Zenon DEF Eventful
<1>28. ASSUME NEW u \in Subscribers, ResolvesRun(u)
      PROVE  Calm \/ Eventful
  BY <1>28 DEF Calm, ResolvesRun
<1>29. ASSUME NEW u \in Subscribers, StartsTask(u)
      PROVE  Calm \/ Eventful
  BY <1>29 DEF Calm, StartsTask, Starting
<1>30. ASSUME NEW u \in Subscribers, StartFails(u)
      PROVE  Calm \/ Eventful
  BY <1>30 DEF Calm, StartFails
<1>31. ASSUME NEW u \in Subscribers, Replays(u)
      PROVE  Calm \/ Eventful
  BY <1>31 DEF Calm, Replays
<1>32. ASSUME NEW u \in Subscribers, Delivers(u)
      PROVE  Calm \/ Eventful
  BY <1>32 DEF Calm, Delivers
<1>33. ASSUME NEW u \in Subscribers, Disconnects(u)
      PROVE  Calm \/ Eventful
  BY <1>33 DEF Calm, Disconnects
<1>34. CASE UNCHANGED vars
  BY <1>34 DEF vars, Calm
<1> QED
  BY <1>1, <1>2, <1>3, <1>4, <1>5, <1>6, <1>7, <1>8, <1>9, <1>10, <1>11, <1>12, <1>13, <1>14,
     <1>15, <1>16, <1>17, <1>18, <1>19, <1>20, <1>21, <1>22, <1>23, <1>24, <1>25, <1>26, <1>27,
     <1>28, <1>29, <1>30, <1>31, <1>32, <1>33, <1>34
     DEF Next, EngineStep, Failure, CancelStep, SubmitStep, SubscriberStep

-----------------------------------------------------------------------------
(* Facts about the log *)

\* A seq that a writer allocated and the log has not is the next one: the
\* event goes to the end of the log.
LEMMA GoesLast ==
    ASSUME TypeOK, Numbered, NEW seq, NEW type, ~Taken(seq), log' = LogWith(seq, type),
           \/ seq = nextSeq
           \/ \E c \in Cancels : can[c] = "unlocked" /\ seq = seqOf[c]
    PROVE  /\ seq \in Nat /\ seq = Cardinality(DOMAIN log)
           /\ DOMAIN log' = DOMAIN log \cup {seq} /\ log'[seq] = type
           /\ \A n \in DOMAIN log : n \in Nat /\ n < seq /\ log'[n] = log[n]
<1>1. PICK n \in Nat :
         /\ DOMAIN log = 0 .. (n - 1)
         /\ nextSeq <= n
         /\ \A c \in Cancels : can[c] = "unlocked" => seqOf[c] <= n
  BY DEF Numbered
<1>2. seq \in Nat /\ seq <= n
  BY <1>1 DEF TypeOK, HubTypeOK, RequestTypeOK
<1>3. seq = n
  BY <1>1, <1>2, NextSeqFree
<1>4. Cardinality(0 .. (n - 1)) = n
  BY FS_Interval
<1>5. \A k \in DOMAIN log : k \in Nat /\ k < seq
  BY <1>1, <1>3
<1>6. /\ DOMAIN LogWith(seq, type) = DOMAIN log \cup {seq} /\ LogWith(seq, type)[seq] = type
      /\ \A k \in DOMAIN log : LogWith(seq, type)[k] = log[k]
  BY DEF LogWith, Taken
<1>7. seq = Cardinality(DOMAIN log)
  BY <1>1, <1>3, <1>4
<1> QED
  BY <1>2, <1>5, <1>6, <1>7

\* A log that has an outcome and gets another one, or has none, stays one
\* where only outcomes follow an outcome.
LEMMA VerdictsStay ==
    ASSUME OnlyVerdictsAfterVerdict, NEW seq, NEW type, Decided => type \in Terminal,
           seq \in Nat, DOMAIN log' = DOMAIN log \cup {seq}, log'[seq] = type,
           \A n \in DOMAIN log : n \in Nat /\ n < seq /\ log'[n] = log[n]
    PROVE  OnlyVerdictsAfterVerdict'
<1> SUFFICES ASSUME NEW i \in DOMAIN log', NEW j \in DOMAIN log', i < j, log'[i] \in Terminal
             PROVE  log'[j] \in Terminal
  BY DEF OnlyVerdictsAfterVerdict
<1>1. i \in DOMAIN log /\ log[i] \in Terminal
  <2>1. i # seq
    <3>1. j = seq => i # seq
      OBVIOUS
    <3>2. j # seq => j < seq /\ j \in Nat
      OBVIOUS
    <3> QED
      BY <3>1, <3>2
  <2> QED
    BY <2>1
<1>2. CASE j = seq
  BY <1>1, <1>2 DEF Decided
<1>3. CASE j # seq
  BY <1>1, <1>3 DEF OnlyVerdictsAfterVerdict
<1> QED
  BY <1>2, <1>3

\* The types of the events a task emits, and which of them are outcomes.
LEMMA OutcomeEmitted ==
    ASSUME TypeOK, Control, NEW p \in Tasks, io[p] # "idle" \/ AtEmit(p)
    PROVE  /\ EventOf(p) \in EventTypes \ {"cancelled"}
           /\ EventOf(p) \in Terminal <=> p = Engine /\ pc \in Ending
           /\ p = Engine => pc \in EmitPcs
           /\ p # Engine => p \in Sections /\ pc = "research" /\ EventOf(p) \in SectionEvents
<1>1. p \notin Cancels
  BY WriterAssumption DEF Tasks
<1>2. CASE p = Engine
  <2>1. pc \in EmitPcs /\ p \notin Sections
    BY <1>2, WriterAssumption DEF Control, AtEmit
  <2> QED
    BY <1>1, <1>2, <2>1 DEF EventOf, EmitPcs, EventTypes, StatusEvents, Terminal, Ending
<1>3. CASE p # Engine
  <2>1. p \in Sections /\ sec[p] \in SectionEvents
    BY <1>3 DEF Tasks, Control, AtEmit
  <2>2. pc = "research"
    BY <2>1 DEF Control
  <2> QED
    BY <1>1, <1>3, <2>1, <2>2 DEF EventOf, SectionEvents, EventTypes, Terminal, Ending
<1> QED
  BY <1>2, <1>3

\* A task that gets the lock is where it emits.
LEMMA EntersEmitting ==
    ASSUME NEW p \in Tasks, Enters(p)
    PROVE  io[p] # "idle" \/ AtEmit(p)
BY DEF Enters, HasLock

\* What a task appends after an outcome is an outcome.
LEMMA AppendsVerdict ==
    ASSUME TypeOK, Control, Settled, NEW p \in Tasks, Appends(p), Decided
    PROVE  EventOf(p) \in Terminal
<1>1. Admitted(p) /\ ~Taken(nextSeq) /\ Enters(p)
  BY DEF Appends
<1>2. p \notin Cancels
  BY WriterAssumption DEF Tasks
<1>3. CASE cancelled
  BY <1>1, <1>3, EntersEmitting, OutcomeEmitted DEF Admitted, Ending
<1>4. CASE pc \in Ending
  BY <1>1, <1>4, EntersEmitting, OutcomeEmitted DEF Ending
<1> QED
  BY <1>1, <1>3, <1>4 DEF Settled

\* Every step keeps the log one where only outcomes follow an outcome.
LEMMA VerdictsStep ==
    ASSUME TypeOK, Control, Numbered, Settled, OnlyVerdictsAfterVerdict, [Next]_vars
    PROVE  OnlyVerdictsAfterVerdict'
<1>1. ASSUME log' = log
      PROVE  OnlyVerdictsAfterVerdict'
  BY <1>1 DEF OnlyVerdictsAfterVerdict
<1>2. ASSUME NEW p \in Tasks, Appends(p)
      PROVE  OnlyVerdictsAfterVerdict'
  <2>1. ~Taken(nextSeq) /\ log' = LogWith(nextSeq, EventOf(p))
    BY <1>2 DEF Appends
  <2>2. Decided => EventOf(p) \in Terminal
    BY <1>2, AppendsVerdict
  <2> QED
    BY <2>1, <2>2, GoesLast, VerdictsStay
<1>3. ASSUME NEW c \in Cancels, CancelAppends(c)
      PROVE  OnlyVerdictsAfterVerdict'
  <2>1. CASE Taken(nextSeq)
    BY <1>1, <1>3, <2>1 DEF CancelAppends
  <2>2. CASE ~Taken(nextSeq)
    <3>1. log' = LogWith(nextSeq, "cancelled")
      BY <1>3, <2>2, Zenon DEF CancelAppends
    <3>2. "cancelled" \in Terminal
      BY DEF Terminal
    <3> QED
      BY <2>2, <3>1, <3>2, GoesLast, VerdictsStay
  <2> QED
    BY <2>1, <2>2
<1>4. ASSUME NEW c \in Cancels, CancelAppendsUnlocked(c)
      PROVE  OnlyVerdictsAfterVerdict'
  <2>1. CASE Taken(seqOf[c])
    BY <1>1, <1>4, <2>1 DEF CancelAppendsUnlocked
  <2>2. CASE ~Taken(seqOf[c])
    <3>1. log' = LogWith(seqOf[c], "cancelled") /\ can[c] = "unlocked"
      BY <1>4, <2>2, Zenon DEF CancelAppendsUnlocked
    <3>2. "cancelled" \in Terminal
      BY DEF Terminal
    <3> QED
      BY <2>2, <3>1, <3>2, GoesLast, VerdictsStay
  <2> QED
    BY <2>1, <2>2
<1>5. Calm \/ Eventful
  BY CalmOrEventful
<1> QED
  BY <1>1, <1>2, <1>3, <1>4, <1>5
     DEF Calm, Eventful, AppendFails, Projects, Restarts, CancelMarks, CancelProjectsUnlocked,
         RegistersHub, dbVars

-----------------------------------------------------------------------------
(* The inductive invariant *)

\* Every step keeps CancelMarked.
LEMMA CancelMarkedStep ==
    ASSUME TypeOK, Control, CancelMarked, [Next]_vars
    PROVE  CancelMarked'
<1> USE WriterAssumption DEF TypeOK, TaskTypeOK, Writers, Tasks, CancelMarked
<1>1. CASE Calm
  BY <1>1 DEF Calm
<1>2. ASSUME NEW p \in Tasks, Appends(p) \/ AppendFails(p)
      PROVE  CancelMarked'
  <2>1. p \notin Cancels
    BY DEF Tasks
  <2>2. cancelled' = cancelled /\ \A c \in Cancels : io'[c] = io[c]
    BY <1>2, <2>1 DEF Appends, AppendFails, Raise, Leave
  <2> QED
    BY <2>2
<1>3. ASSUME NEW p \in Writers, Projects(p)
      PROVE  CancelMarked'
  BY <1>3 DEF Projects, hubVars
<1>4. CASE Restarts
  BY <1>4 DEF Restarts, Leave
<1>5. ASSUME NEW c \in Cancels,
             CancelMarks(c) \/ CancelAppendsUnlocked(c) \/ CancelProjectsUnlocked(c)
      PROVE  CancelMarked'
  BY <1>5 DEF CancelMarks, CancelAppendsUnlocked, CancelProjectsUnlocked, hubVars, taskVars
<1>6. ASSUME NEW c \in Cancels, CancelAppends(c)
      PROVE  CancelMarked'
  <2>1. cancelled' = cancelled /\ io[c] # "idle"
    BY <1>6 DEF CancelAppends, HasLock
  <2>2. \A d \in Cancels : d # c => io'[d] = io[d]
    <3>1. CASE Taken(nextSeq)
      BY <1>6, <3>1 DEF CancelAppends, Leave
    <3>2. CASE ~Taken(nextSeq)
      BY <1>6, <3>2 DEF CancelAppends
    <3> QED
      BY <3>1, <3>2
  <2> QED
    BY <2>1, <2>2
<1>7. ASSUME NEW u \in Subscribers, RegistersHub(u)
      PROVE  CancelMarked'
  BY <1>7 DEF RegistersHub, Control, taskVars
<1> QED
  BY <1>1, <1>2, <1>3, <1>4, <1>5, <1>6, <1>7, CalmOrEventful DEF Eventful

\* Who cancels the future.
LEMMA FutureGoes ==
    ASSUME [Next]_vars
    PROVE  \/ approval' = "cancelled" => approval = "cancelled"
           \/ TimesOut \/ \E c \in Cancels : CancelFansOut(c)
<1> DEFINE Goal == \/ approval' = "cancelled" => approval = "cancelled"
                   \/ TimesOut \/ \E c \in Cancels : CancelFansOut(c)
<1> SUFFICES Goal
  OBVIOUS
<1> USE DEF hubVars
<1>1. CASE EngineStep
  BY <1>1 DEF EngineStep, Approved, Researched, SectionBegins, UpsertPlanned, Waits, SinkDrops,
     Appends, AppendFails, FansOut, Projects
<1>2. CASE Failure
  BY <1>2 DEF Failure, EngineFails, SectionFails
<1>3. ASSUME NEW c \in Cancels, CancelReads(c) \/ CancelStep(c)
      PROVE  Goal
  BY <1>3 DEF CancelReads, CancelStep, CancelMarks, CancelAppends, CancelAppendsUnlocked,
     CancelProjectsUnlocked
<1>4. ASSUME NEW m \in Submits, NEW edited \in SUBSET Sections, SubmitEdits(m, edited)
      PROVE  Goal
  BY <1>4 DEF SubmitEdits
<1>5. ASSUME NEW m \in Submits, SubmitKeeps(m) \/ SubmitRefused(m) \/ SubmitStep(m)
      PROVE  Goal
  BY <1>5 DEF SubmitKeeps, SubmitRefused, SubmitStep, SubmitUpserts, SubmitResolves
<1>6. ASSUME NEW u \in Subscribers,
             Connects(u) \/ SubscriberStep(u) \/ StartFails(u) \/ Disconnects(u)
      PROVE  Goal
  BY <1>6 DEF Connects, SubscriberStep, RegistersHub, ResolvesRun, StartsTask, StartFails,
     Replays, Delivers, Disconnects
<1>7. CASE Restarts
  BY <1>7 DEF Restarts
<1>8. CASE UNCHANGED vars
  BY <1>8 DEF vars
<1>9. TimesOut => Goal
  OBVIOUS
<1> HIDE DEF Goal
<1> QED
  BY <1>1, <1>2, <1>3, <1>4, <1>5, <1>6, <1>7, <1>8, <1>9, Zenon DEF Next

\* Every step keeps GoneFuture.
LEMMA GoneFutureStep ==
    ASSUME TypeOK, Control, CancelMarked, GoneFuture, [Next]_vars
    PROVE  GoneFuture'
<1> USE WriterAssumption DEF Writers, Tasks, Inserted
<1>1. CASE Restarts
  BY <1>1 DEF Restarts, GoneFuture
<1>2. CASE TimesOut
  BY <1>2 DEF TimesOut, GoneFuture, Ending
<1>3. ASSUME NEW c \in Cancels, CancelFansOut(c)
      PROVE  GoneFuture'
  <2>1. cancelled' = cancelled /\ cancelled
    BY <1>3 DEF CancelFansOut, CancelMarked
  <2>2. CASE pc \in {"off", "finished", "dropped"}
    <3>1. io[Engine] = "idle" /\ c # Engine
      BY <2>2 DEF Control, EmitPcs
    <3>2. Leave({c})
      BY <1>3, <2>2 DEF CancelFansOut
    <3>3. io'[Engine] = "idle"
      BY <3>1, <3>2 DEF Leave
    <3> QED
      BY <2>1, <3>3 DEF GoneFuture
  <2>3. CASE pc \notin {"off", "finished", "dropped"}
    BY <1>3, <2>3 DEF CancelFansOut, GoneFuture, Ending
  <2> QED
    BY <2>2, <2>3
<1> DEFINE Kept == /\ pc \in Ending => pc' \in Ending
                   /\ cancelled => cancelled' \/ approval' # "cancelled"
                   /\ cancelled /\ io'[Engine] \in Inserted => io[Engine] \in Inserted
<1>4. ASSUME approval' = "cancelled" => approval = "cancelled", Kept
      PROVE  GoneFuture'
  BY <1>4 DEF GoneFuture
<1>5. CASE Calm
  <2>1. Kept
    BY <1>5 DEF Calm
  <2> QED
    BY <1>2, <1>3, <1>4, <2>1, FutureGoes
<1>6. ASSUME NEW p \in Tasks, Appends(p) \/ AppendFails(p)
      PROVE  GoneFuture'
  <2>1. Admitted(p) /\ approval' = approval /\ pc' \in {pc, "error", "finished"}
    BY <1>6 DEF Appends, AppendFails, Raise
  <2>2. approval = "cancelled" => pc \in Ending
    BY <2>1 DEF GoneFuture, Admitted, Ending
  <2> QED
    BY <2>1, <2>2 DEF GoneFuture, Ending
<1>7. ASSUME NEW p \in Writers, Projects(p)
      PROVE  GoneFuture'
  <2>1. /\ pc' = pc /\ approval' = approval /\ cancelled' = cancelled
        /\ io[p] = "inserted" /\ io' = [io EXCEPT ![p] = "projected"]
    BY <1>7 DEF Projects, hubVars
  <2>2. io'[Engine] \in Inserted => io[Engine] \in Inserted
    BY <2>1 DEF TypeOK, TaskTypeOK
  <2> QED
    BY <1>4, <2>1, <2>2
<1>8. ASSUME NEW c \in Cancels,
             \/ CancelMarks(c) \/ CancelAppends(c) \/ CancelAppendsUnlocked(c)
             \/ CancelProjectsUnlocked(c)
      PROVE  GoneFuture'
  <2>1. pc' = pc /\ approval' = approval /\ (cancelled => cancelled')
    BY <1>8 DEF CancelMarks, CancelAppends, CancelAppendsUnlocked, CancelProjectsUnlocked,
       hubVars, taskVars
  <2>2. io'[Engine] \in {io[Engine], "idle"}
    <3>1. CASE CancelMarks(c)
      BY <3>1 DEF CancelMarks, Join, TypeOK, TaskTypeOK
    <3>2. CASE CancelAppends(c)
      BY <3>2 DEF CancelAppends, Leave, TypeOK, TaskTypeOK
    <3>3. CASE CancelAppendsUnlocked(c) \/ CancelProjectsUnlocked(c)
      BY <3>3 DEF CancelAppendsUnlocked, CancelProjectsUnlocked, taskVars
    <3> QED
      BY <1>8, <3>1, <3>2, <3>3
  <2> QED
    BY <1>4, <2>1, <2>2
<1>9. ASSUME NEW u \in Subscribers, RegistersHub(u)
      PROVE  GoneFuture'
  BY <1>9 DEF RegistersHub, GoneFuture
<1> QED
  BY <1>1, <1>5, <1>6, <1>7, <1>8, <1>9, CalmOrEventful DEF Eventful

\* What was taken stays taken.
LEMMA TakenStays ==
    ASSUME [Next]_vars, NEW seq, Taken(seq)
    PROVE  seq \in DOMAIN log' /\ log'[seq] = log[seq]
BY LogStep DEF LogGrows, Taken

\* Every step keeps Settled.
LEMMA SettledStep ==
    ASSUME TypeOK, Control, Numbered, CancelMarked, Settled, [Next]_vars
    PROVE  Settled'
<1> USE DEF Settled, Decided
<1>1. CASE Calm
  BY <1>1 DEF Calm, Taken
<1>2. ASSUME NEW p \in Tasks, Appends(p)
      PROVE  Settled'
  <2>1. /\ ~Taken(nextSeq) /\ log' = LogWith(nextSeq, EventOf(p))
        /\ pc' = pc /\ cancelled' = cancelled /\ Enters(p)
    BY <1>2 DEF Appends
  <2>2. CASE EventOf(p) \in Terminal
    <3>1. pc \in Ending
      BY <2>1, <2>2, EntersEmitting, OutcomeEmitted
    <3> QED
      BY <2>1, <3>1
  <2>3. CASE EventOf(p) \notin Terminal
    <3>1. ~Decided
      BY <1>2, <2>3, AppendsVerdict
    <3>2. /\ DOMAIN log' = DOMAIN log \cup {nextSeq} /\ log'[nextSeq] = EventOf(p)
          /\ \A n \in DOMAIN log : log'[n] = log[n]
      BY <2>1, GoesLast
    <3>3. ~Decided'
      BY <2>3, <3>1, <3>2
    <3> QED
      BY <3>3
  <2> QED
    BY <2>2, <2>3
<1>3. ASSUME NEW p \in Tasks, AppendFails(p)
      PROVE  Settled'
  BY <1>3 DEF AppendFails, Raise, Ending
<1>4. ASSUME NEW p \in Writers, Projects(p)
      PROVE  Settled'
  BY <1>4 DEF Projects, hubVars, Taken
<1>5. CASE Restarts
  <2>1. nextSeq' = 0 /\ log' = log
    BY <1>5 DEF Restarts, dbVars
  <2> QED
    BY <2>1 DEF Numbered, Taken
<1>6. ASSUME NEW c \in Cancels, CancelMarks(c) \/ CancelProjectsUnlocked(c)
      PROVE  Settled'
  BY <1>6 DEF CancelMarks, CancelProjectsUnlocked, dbVars, hubVars, taskVars, Taken
<1>7. ASSUME NEW c \in Cancels, CancelAppends(c)
      PROVE  Settled'
  <2>1. cancelled' = cancelled /\ cancelled
    BY <1>7 DEF CancelAppends, HasLock, CancelMarked
  <2> QED
    BY <2>1
<1>8. ASSUME NEW c \in Cancels, CancelAppendsUnlocked(c)
      PROVE  Settled'
  <2>1. nextSeq' = nextSeq /\ cancelled' = cancelled /\ pc' = pc
    BY <1>8 DEF CancelAppendsUnlocked, hubVars, taskVars
  <2>2. CASE Taken(seqOf[c])
    BY <1>8, <2>1, <2>2 DEF CancelAppendsUnlocked, Taken
  <2>3. CASE ~Taken(seqOf[c])
    <3>1. log' = LogWith(seqOf[c], "cancelled") /\ can[c] = "unlocked"
      BY <1>8, <2>3, Zenon DEF CancelAppendsUnlocked
    <3>2. PICK n \in Nat : DOMAIN log = 0 .. (n - 1) /\ nextSeq <= n /\ seqOf[c] <= n
      BY <3>1 DEF Numbered
    <3>3. seqOf[c] = n
      BY <2>3, <3>2, NextSeqFree DEF TypeOK, RequestTypeOK
    <3>4. DOMAIN log' = DOMAIN log \cup {n}
      BY <3>1, <3>3 DEF LogWith
    <3>5. nextSeq \in DOMAIN log'
      BY <3>2, <3>4 DEF TypeOK, HubTypeOK
    <3> QED
      BY <2>1, <3>5 DEF Taken
  <2> QED
    BY <2>2, <2>3
<1>9. ASSUME NEW u \in Subscribers, RegistersHub(u)
      PROVE  Settled'
  <2>1. nextSeq' = 0 /\ log' = log
    BY <1>9 DEF RegistersHub, dbVars
  <2> QED
    BY <2>1 DEF Numbered, Taken
<1> QED
  BY <1>1, <1>2, <1>3, <1>4, <1>5, <1>6, <1>7, <1>8, <1>9, CalmOrEventful DEF Eventful

\* Nobody writes when there is no hub.
LEMMA NoHubNoWriter ==
    ASSUME Control, ~hubUp, NEW p \in Writers
    PROVE  io[p] = "idle"
BY DEF Control, Writers, Tasks, EmitPcs, SectionEvents

\* While somebody queues for write_lock there is a hub, and no cancel starts
\* on the path without one.
LEMMA UnlockedStays ==
    ASSUME [Next]_vars, TypeOK, Control, NEW c \in Cancels, can'[c] = "unlocked",
           \E p \in Writers : io[p] # "idle"
    PROVE  can[c] = "unlocked" /\ seqOf'[c] = seqOf[c]
<1>1. hubUp
  BY NoHubNoWriter
<1>2. CASE Calm
  BY <1>2 DEF Calm
<1>3. ASSUME NEW p \in Tasks, Appends(p) \/ AppendFails(p)
      PROVE  can[c] = "unlocked" /\ seqOf'[c] = seqOf[c]
  BY <1>3 DEF Appends, AppendFails, canVars
<1>4. ASSUME NEW p \in Writers, Projects(p)
      PROVE  can[c] = "unlocked" /\ seqOf'[c] = seqOf[c]
  BY <1>4 DEF Projects, canVars
<1>5. CASE Restarts
  BY <1>5 DEF Restarts
<1>6. ASSUME NEW d \in Cancels, CancelMarks(d)
      PROVE  can[c] = "unlocked" /\ seqOf'[c] = seqOf[c]
  BY <1>1, <1>6 DEF CancelMarks, TypeOK, RequestTypeOK
<1>7. ASSUME NEW d \in Cancels,
             CancelAppends(d) \/ CancelAppendsUnlocked(d) \/ CancelProjectsUnlocked(d)
      PROVE  can[c] = "unlocked" /\ seqOf'[c] = seqOf[c]
  <2>1. seqOf' = seqOf /\ \A e \in Cancels : can'[e] \in {can[e], "failed", "unlocked_inserted", "unlocked_done"}
    BY <1>7 DEF CancelAppends, CancelAppendsUnlocked, CancelProjectsUnlocked, TypeOK, RequestTypeOK
  <2> QED
    BY <2>1
<1>8. ASSUME NEW u \in Subscribers, RegistersHub(u)
      PROVE  can[c] = "unlocked" /\ seqOf'[c] = seqOf[c]
  BY <1>8 DEF RegistersHub, canVars
<1> QED
  BY <1>2, <1>3, <1>4, <1>5, <1>6, <1>7, <1>8, CalmOrEventful DEF Eventful

\* Every step keeps WritesLast.
LEMMA WritesLastStep ==
    ASSUME TypeOK, Control, Queued, Numbered, WritesLast, [Next]_vars
    PROVE  WritesLast'
<1> USE DEF Taken
<1>1. ASSUME \A p \in Writers : io'[p] \notin Inserted
      PROVE  WritesLast'
  BY <1>1 DEF WritesLast
\* Somebody was writing already, and the log and the numbering stay.
<1>2. ASSUME log' = log, nextSeq' = nextSeq,
             \A p \in Writers : io'[p] \in Inserted => io[p] \in Inserted
      PROVE  WritesLast'
  <2> SUFFICES ASSUME NEW p \in Writers, io'[p] \in Inserted
               PROVE  /\ nextSeq \notin DOMAIN log
                      /\ \A c \in Cancels : can'[c] = "unlocked" => seqOf'[c] \in DOMAIN log
    BY <1>2 DEF WritesLast
  <2>1. io[p] \in Inserted
    BY <1>2
  <2>2. /\ nextSeq \notin DOMAIN log
        /\ \A c \in Cancels : can[c] = "unlocked" => seqOf[c] \in DOMAIN log
    BY <2>1 DEF WritesLast
  <2>3. \A c \in Cancels : can'[c] = "unlocked" => can[c] = "unlocked" /\ seqOf'[c] = seqOf[c]
    BY <2>1, UnlockedStays DEF Inserted
  <2> QED
    BY <2>2, <2>3
\* Somebody begins to write at the end of the log.
<1>3. ASSUME ~Taken(nextSeq), NEW type, log' = LogWith(nextSeq, type), nextSeq' = nextSeq + 1,
             can' = can, seqOf' = seqOf
      PROVE  WritesLast'
  <2>1. PICK n \in Nat : /\ DOMAIN log = 0 .. (n - 1) /\ nextSeq <= n
                         /\ \A c \in Cancels : can[c] = "unlocked" => seqOf[c] <= n
    BY DEF Numbered
  <2>2. nextSeq = n
    BY <1>3, <2>1, NextSeqFree DEF TypeOK, HubTypeOK
  <2>3. DOMAIN log' = DOMAIN log \cup {n}
    BY <1>3, <2>2 DEF LogWith
  <2>4. nextSeq' \notin DOMAIN log'
    BY <1>3, <2>1, <2>2, <2>3
  <2>5. \A c \in Cancels : can'[c] = "unlocked" => seqOf'[c] \in DOMAIN log'
    BY <1>3, <2>1, <2>3 DEF TypeOK, RequestTypeOK
  <2> QED
    BY <2>4, <2>5 DEF WritesLast
<1>4. CASE Calm
  BY <1>2, <1>4 DEF Calm
<1>5. ASSUME NEW p \in Tasks, Appends(p)
      PROVE  WritesLast'
  BY <1>3, <1>5 DEF Appends, canVars
<1>6. ASSUME NEW p \in Tasks, AppendFails(p)
      PROVE  WritesLast'
  <2>1. \A q \in Writers : io'[q] \notin Inserted
    BY <1>6, EntersAlone DEF AppendFails, Raise, Leave, Inserted
  <2> QED
    BY <1>1, <2>1
<1>7. ASSUME NEW p \in Writers, Projects(p)
      PROVE  WritesLast'
  <2>1. \A q \in Writers : io'[q] \in Inserted => io[q] \in Inserted
    BY <1>7 DEF Projects, Inserted, TypeOK, TaskTypeOK
  <2> QED
    BY <1>2, <1>7, <2>1 DEF Projects, hubVars
<1>8. CASE Restarts
  <2>1. \A q \in Writers : io'[q] \notin Inserted
    BY <1>8 DEF Restarts, Leave, Inserted
  <2> QED
    BY <1>1, <2>1
<1>9. ASSUME NEW c \in Cancels, CancelMarks(c)
      PROVE  WritesLast'
  <2>1. \A q \in Writers : io'[q] \in Inserted => io[q] \in Inserted
    <3>1. CASE hubUp
      BY <1>9, <3>1 DEF CancelMarks, Join, Inserted, TypeOK, TaskTypeOK
    <3>2. CASE ~hubUp
      BY <1>9, <3>2 DEF CancelMarks
    <3> QED
      BY <3>1, <3>2
  <2> QED
    BY <1>2, <1>9, <2>1 DEF CancelMarks, dbVars
<1>10. ASSUME NEW c \in Cancels, CancelAppends(c)
      PROVE  WritesLast'
  <2>1. CASE Taken(nextSeq)
    <3>1. \A q \in Writers : io[q] \notin Inserted
      BY <1>10, LockExcludes DEF CancelAppends, HasLock, Inserted, Writers
    <3>2. \A q \in Writers : io'[q] \notin Inserted
      BY <1>10, <2>1, <3>1 DEF CancelAppends, Leave, Inserted
    <3> QED
      BY <1>1, <3>2
  <2>2. CASE ~Taken(nextSeq)
    <3>1. /\ log' = LogWith(nextSeq, "cancelled") /\ nextSeq' = nextSeq + 1
          /\ can' = can /\ seqOf' = seqOf
      BY <1>10, <2>2 DEF CancelAppends
    <3> QED
      BY <1>3, <2>2, <3>1
  <2> QED
    BY <2>1, <2>2
<1>11. ASSUME NEW c \in Cancels, CancelAppendsUnlocked(c)
      PROVE  WritesLast'
  <2>1. io' = io /\ nextSeq' = nextSeq /\ can[c] = "unlocked"
    BY <1>11 DEF CancelAppendsUnlocked, hubVars, taskVars
  <2>2. CASE Taken(seqOf[c])
    BY <1>2, <1>11, <2>1, <2>2 DEF CancelAppendsUnlocked
  <2>3. CASE ~Taken(seqOf[c])
    <3>1. \A q \in Writers : io[q] \notin Inserted
      BY <2>1, <2>3 DEF WritesLast
    <3> QED
      BY <1>1, <2>1, <3>1
  <2> QED
    BY <2>2, <2>3
<1>12. ASSUME NEW c \in Cancels, CancelProjectsUnlocked(c)
      PROVE  WritesLast'
  BY <1>2, <1>12 DEF CancelProjectsUnlocked, hubVars, taskVars
<1>13. ASSUME NEW u \in Subscribers, RegistersHub(u)
      PROVE  WritesLast'
  <2>1. \A q \in Writers : io'[q] \notin Inserted
    BY <1>13, NoHubNoWriter DEF RegistersHub, Control, taskVars, Inserted
  <2> QED
    BY <1>1, <2>1
<1> QED
  BY <1>4, <1>5, <1>6, <1>7, <1>8, <1>9, <1>10, <1>11, <1>12, <1>13, CalmOrEventful DEF Eventful

\* What a projection or a cancel without the hub makes of the status.
LEMMA RowStep ==
    ASSUME [Next]_vars, TypeOK, Control
    PROVE  \/ row' = row
           \/ \E p \in Writers : Projects(p) /\ EventOf(p) \in StatusEvents /\ row' = EventOf(p)
           \/ \E c \in Cancels : CancelProjectsUnlocked(c) /\ row' = "cancelled"
<1>1. CASE Calm
  BY <1>1 DEF Calm
<1>2. ASSUME NEW p \in Tasks, Appends(p) \/ AppendFails(p)
      PROVE  row' = row
  BY <1>2 DEF Appends, AppendFails, dbVars
<1>3. ASSUME NEW p \in Writers, Projects(p)
      PROVE  \/ row' = row
             \/ EventOf(p) \in StatusEvents /\ row' = EventOf(p)
  <2>1. row' = RowAfter(EventOf(p))
    BY <1>3 DEF Projects
  <2> QED
    BY <2>1 DEF RowAfter
<1>4. CASE Restarts
  BY <1>4 DEF Restarts, dbVars
<1>5. ASSUME NEW c \in Cancels, CancelMarks(c) \/ CancelAppends(c) \/ CancelAppendsUnlocked(c)
      PROVE  row' = row
  BY <1>5 DEF CancelMarks, CancelAppends, CancelAppendsUnlocked, dbVars
<1>6. ASSUME NEW c \in Cancels, CancelProjectsUnlocked(c)
      PROVE  row' = "cancelled"
  BY <1>6 DEF CancelProjectsUnlocked, RowAfter, StatusEvents
<1>7. ASSUME NEW u \in Subscribers, RegistersHub(u)
      PROVE  row' = row
  BY <1>7 DEF RegistersHub, dbVars
<1> QED
  BY <1>1, <1>2, <1>3, <1>4, <1>5, <1>6, <1>7, CalmOrEventful DEF Eventful

\* What is projected is in the log.
LEMMA ProjectedLogged ==
    ASSUME Writing, NEW p \in Writers, Projects(p)
    PROVE  nextSeq - 1 \in DOMAIN log /\ log[nextSeq - 1] = EventOf(p)
BY DEF Projects, Writing

\* Every step keeps the status one the log has.
LEMMA RowLoggedStep ==
    ASSUME TypeOK, Control, Writing, RowLogged, UnlockedLogged, [Next]_vars
    PROVE  RowLogged'
<1>1. \A n \in DOMAIN log : n \in DOMAIN log' /\ log'[n] = log[n]
  BY LogStep DEF LogGrows
<1>2. CASE row' = row
  BY <1>1, <1>2 DEF RowLogged
<1>3. ASSUME NEW p \in Writers, Projects(p), EventOf(p) \in StatusEvents, row' = EventOf(p)
      PROVE  RowLogged'
  BY <1>1, <1>3, ProjectedLogged DEF RowLogged
<1>4. ASSUME NEW c \in Cancels, CancelProjectsUnlocked(c), row' = "cancelled"
      PROVE  RowLogged'
  BY <1>1, <1>4 DEF CancelProjectsUnlocked, UnlockedLogged, RowLogged, Taken
<1> QED
  BY <1>2, <1>3, <1>4, RowStep

\* Every step keeps the event of a cancel without the hub in the log.
LEMMA UnlockedLoggedStep ==
    ASSUME TypeOK, Control, UnlockedLogged, [Next]_vars
    PROVE  UnlockedLogged'
<1>1. \A n \in DOMAIN log : n \in DOMAIN log' /\ log'[n] = log[n]
  BY LogStep DEF LogGrows
<1>2. ASSUME \A c \in Cancels : can'[c] = "unlocked_inserted" =>
                 can[c] = "unlocked_inserted" /\ seqOf'[c] = seqOf[c]
      PROVE  UnlockedLogged'
  BY <1>1, <1>2 DEF UnlockedLogged, Taken
<1>3. CASE Calm
  BY <1>2, <1>3 DEF Calm
<1>4. ASSUME NEW p \in Tasks, Appends(p) \/ AppendFails(p)
      PROVE  UnlockedLogged'
  BY <1>2, <1>4 DEF Appends, AppendFails, canVars
<1>5. ASSUME NEW p \in Writers, Projects(p)
      PROVE  UnlockedLogged'
  BY <1>2, <1>5 DEF Projects, canVars
<1>6. CASE Restarts
  BY <1>2, <1>6 DEF Restarts
<1>7. ASSUME NEW c \in Cancels, CancelMarks(c)
      PROVE  UnlockedLogged'
  <2>1. \A d \in Cancels : can'[d] = "unlocked_inserted" =>
            can[d] = "unlocked_inserted" /\ seqOf'[d] = seqOf[d]
    <3>1. CASE hubUp
      BY <1>7, <3>1 DEF CancelMarks, TypeOK, RequestTypeOK
    <3>2. CASE ~hubUp
      BY <1>7, <3>2 DEF CancelMarks, TypeOK, RequestTypeOK
    <3> QED
      BY <3>1, <3>2
  <2> QED
    BY <1>2, <2>1
<1>8. ASSUME NEW c \in Cancels, CancelAppends(c) \/ CancelProjectsUnlocked(c)
      PROVE  UnlockedLogged'
  <2>1. seqOf' = seqOf /\ \A d \in Cancels : can'[d] \in {can[d], "failed", "unlocked_done"}
    BY <1>8 DEF CancelAppends, CancelProjectsUnlocked, TypeOK, RequestTypeOK
  <2> QED
    BY <1>2, <2>1
<1>9. ASSUME NEW c \in Cancels, CancelAppendsUnlocked(c)
      PROVE  UnlockedLogged'
  <2>1. CASE Taken(seqOf[c])
    <3>1. seqOf' = seqOf /\ can' = [can EXCEPT ![c] = "failed"]
      BY <1>9, <2>1 DEF CancelAppendsUnlocked
    <3> QED
      BY <1>2, <3>1 DEF TypeOK, RequestTypeOK
  <2>2. CASE ~Taken(seqOf[c])
    <3>1. /\ log' = LogWith(seqOf[c], "cancelled") /\ seqOf' = seqOf
          /\ can' = [can EXCEPT ![c] = "unlocked_inserted"]
      BY <1>9, <2>2 DEF CancelAppendsUnlocked
    <3>2. seqOf[c] \in DOMAIN log' /\ log'[seqOf[c]] = "cancelled"
      BY <3>1 DEF LogWith
    <3>3. ASSUME NEW d \in Cancels, can'[d] = "unlocked_inserted"
          PROVE  seqOf'[d] \in DOMAIN log' /\ log'[seqOf'[d]] = "cancelled"
      <4>1. CASE d = c
        BY <3>1, <3>2, <4>1
      <4>2. CASE d # c
        BY <1>1, <3>1, <3>3, <4>2 DEF UnlockedLogged, Taken, TypeOK, RequestTypeOK
      <4> QED
        BY <4>1, <4>2
    <3> QED
      BY <3>3 DEF UnlockedLogged, Taken
  <2> QED
    BY <2>1, <2>2
<1>10. ASSUME NEW u \in Subscribers, RegistersHub(u)
      PROVE  UnlockedLogged'
  BY <1>2, <1>10 DEF RegistersHub, canVars
<1> QED
  BY <1>3, <1>4, <1>5, <1>6, <1>7, <1>8, <1>9, <1>10, CalmOrEventful DEF Eventful

\* A run nobody connected to yet satisfies the invariant, and every step
\* keeps it.
LEMMA OutcomeInit == Init => OutcomeInv
<1> SUFFICES ASSUME Init PROVE OutcomeInv
  OBVIOUS
<1>1. DOMAIN log = {} /\ row = "queued" /\ \A c \in Cancels : can[c] = "idle"
  BY DEF Init
<1>2. \A p \in Writers : io[p] = "idle"
  BY DEF Init
<1>3. Settled /\ RowLogged /\ UnlockedLogged /\ OnlyVerdictsAfterVerdict
  BY <1>1 DEF Settled, Decided, RowLogged, StatusEvents, UnlockedLogged, OnlyVerdictsAfterVerdict
<1>4. CancelMarked /\ WritesLast
  BY <1>2 DEF CancelMarked, WritesLast, Writers, Inserted
<1>5. GoneFuture
  BY DEF Init, GoneFuture
<1> QED
  BY <1>3, <1>4, <1>5 DEF OutcomeInv

LEMMA OutcomeStep == IInv /\ OutcomeInv /\ [Next]_vars => OutcomeInv'
<1> SUFFICES ASSUME IInv, OutcomeInv, [Next]_vars PROVE OutcomeInv'
  OBVIOUS
<1>1. TypeOK /\ Control /\ Queued /\ Numbered /\ Writing
  BY DEF IInv
<1>2. /\ Settled /\ CancelMarked /\ GoneFuture /\ WritesLast /\ RowLogged /\ UnlockedLogged
      /\ OnlyVerdictsAfterVerdict
  BY DEF OutcomeInv
<1>3. Settled'
  BY <1>1, <1>2, SettledStep
<1>4. CancelMarked'
  BY <1>1, <1>2, CancelMarkedStep
<1>5. WritesLast'
  BY <1>1, <1>2, WritesLastStep
<1>6. RowLogged'
  BY <1>1, <1>2, RowLoggedStep
<1>7. UnlockedLogged'
  BY <1>1, <1>2, UnlockedLoggedStep
<1>8. OnlyVerdictsAfterVerdict'
  BY <1>1, <1>2, VerdictsStep
<1>9. GoneFuture'
  BY <1>1, <1>2, GoneFutureStep
<1> QED
  BY <1>3, <1>4, <1>5, <1>6, <1>7, <1>8, <1>9 DEF OutcomeInv

\* OutcomeInv holds in every state of a run.
THEOREM OutcomeInvariance == Spec => []OutcomeInv
BY OutcomeInit, OutcomeStep, Invariance, PTL DEF Spec

-----------------------------------------------------------------------------
(* What it gives *)

\* Nothing but outcomes follows an outcome in the log, whoever still writes:
\* an engine that was running, one started again by another process, cancels
\* with the hub and without.
THEOREM VerdictIsFinal == Spec => []OnlyVerdictsAfterVerdict
<1>1. OutcomeInv => OnlyVerdictsAfterVerdict
  BY DEF OutcomeInv
<1> QED
  BY <1>1, OutcomeInvariance, PTL

\* An event that is projected after an outcome is an outcome.
LEMMA ProjectsVerdict ==
    ASSUME TypeOK, Control, Numbered, Writing, WritesLast, OnlyVerdictsAfterVerdict,
           Decided, NEW p \in Writers, Projects(p)
    PROVE  EventOf(p) \in Terminal
<1>1. nextSeq - 1 \in DOMAIN log /\ log[nextSeq - 1] = EventOf(p)
  BY ProjectedLogged
<1>2. nextSeq \notin DOMAIN log
  BY DEF Projects, WritesLast, Inserted, Taken
<1>3. PICK n \in Nat : DOMAIN log = 0 .. (n - 1)
  BY DEF Numbered
<1>4. PICK i \in DOMAIN log : log[i] \in Terminal
  BY DEF Decided
<1>5. i = nextSeq - 1 \/ i < nextSeq - 1
  BY <1>1, <1>2, <1>3 DEF TypeOK, HubTypeOK
<1> QED
  BY <1>1, <1>4, <1>5 DEF OnlyVerdictsAfterVerdict

\* A run whose status is an outcome never goes back to work.
THEOREM VerdictKept == Spec => RowNeverReopens
<1>1. IInv /\ OutcomeInv /\ [Next]_vars => [(row \in Terminal) => (row' \in Terminal)]_vars
  <2> SUFFICES ASSUME IInv, OutcomeInv, [Next]_vars, row \in Terminal
               PROVE  row' \in Terminal
    OBVIOUS
  <2>1. /\ TypeOK /\ Control /\ Numbered /\ Writing /\ WritesLast /\ RowLogged
        /\ OnlyVerdictsAfterVerdict
    BY DEF IInv, OutcomeInv
  <2>2. Decided
    BY <2>1 DEF RowLogged, Decided, Terminal, StatusEvents
  <2>3. ASSUME NEW p \in Writers, Projects(p)
        PROVE  EventOf(p) \in Terminal
    BY <2>1, <2>2, <2>3, ProjectsVerdict
  <2>4. "cancelled" \in Terminal
    BY DEF Terminal
  <2> QED
    BY <2>1, <2>3, <2>4, RowStep
<1> QED
  BY <1>1, Invariance, OutcomeInvariance, PTL DEF Spec, RowNeverReopens

-----------------------------------------------------------------------------
(* RunService implements EventStream *)

\* The steps that move a subscriber or send it something.
Served ==
    \/ Restarts
    \/ \E u \in Subscribers : \/ Connects(u) \/ RegistersHub(u) \/ ResolvesRun(u) \/ StartsTask(u)
                             \/ StartFails(u) \/ Replays(u) \/ Delivers(u) \/ Disconnects(u)

\* No other step does.
LEMMA OnlyServed ==
    ASSUME [Next]_vars
    PROVE  UNCHANGED <<sub, got>> \/ Served
<1>1. CASE Approved
  BY <1>1 DEF Approved, subVars
<1>2. CASE Researched
  BY <1>2 DEF Researched, subVars
<1>3. ASSUME NEW s \in Sections, SectionBegins(s)
      PROVE  UNCHANGED <<sub, got>> \/ Served
  BY <1>3 DEF SectionBegins, subVars
<1>4. ASSUME NEW s \in Sections, UpsertPlanned(s)
      PROVE  UNCHANGED <<sub, got>> \/ Served
  BY <1>4 DEF UpsertPlanned, subVars
<1>5. ASSUME NEW p \in Tasks, Waits(p)
      PROVE  UNCHANGED <<sub, got>> \/ Served
  BY <1>5 DEF Waits, subVars
<1>6. ASSUME NEW p \in Tasks, SinkDrops(p)
      PROVE  UNCHANGED <<sub, got>> \/ Served
  BY <1>6 DEF SinkDrops, subVars
<1>7. ASSUME NEW p \in Tasks, Appends(p)
      PROVE  UNCHANGED <<sub, got>> \/ Served
  BY <1>7 DEF Appends, subVars
<1>8. ASSUME NEW p \in Tasks, AppendFails(p)
      PROVE  UNCHANGED <<sub, got>> \/ Served
  BY <1>8 DEF AppendFails, subVars
<1>9. ASSUME NEW p \in Tasks, FansOut(p)
      PROVE  UNCHANGED <<sub, got>> \/ Served
  BY <1>9 DEF FansOut, subVars
<1>10. ASSUME NEW p \in Writers, Projects(p)
      PROVE  UNCHANGED <<sub, got>> \/ Served
  BY <1>10 DEF Projects, subVars
<1>11. CASE EngineFails
  BY <1>11 DEF EngineFails, subVars
<1>12. ASSUME NEW s \in Sections, SectionFails(s)
      PROVE  UNCHANGED <<sub, got>> \/ Served
  BY <1>12 DEF SectionFails, subVars
<1>13. CASE TimesOut
  BY <1>13 DEF TimesOut, subVars
<1>14. CASE Restarts
  BY <1>14, Zenon DEF Served
<1>15. ASSUME NEW c \in Cancels, CancelReads(c)
      PROVE  UNCHANGED <<sub, got>> \/ Served
  BY <1>15 DEF CancelReads, subVars
<1>16. ASSUME NEW c \in Cancels, CancelMarks(c)
      PROVE  UNCHANGED <<sub, got>> \/ Served
  BY <1>16 DEF CancelMarks, subVars
<1>17. ASSUME NEW c \in Cancels, CancelAppends(c)
      PROVE  UNCHANGED <<sub, got>> \/ Served
  BY <1>17 DEF CancelAppends, subVars
<1>18. ASSUME NEW c \in Cancels, CancelFansOut(c)
      PROVE  UNCHANGED <<sub, got>> \/ Served
  BY <1>18 DEF CancelFansOut, subVars
<1>19. ASSUME NEW c \in Cancels, CancelAppendsUnlocked(c)
      PROVE  UNCHANGED <<sub, got>> \/ Served
  BY <1>19 DEF CancelAppendsUnlocked, subVars
<1>20. ASSUME NEW c \in Cancels, CancelProjectsUnlocked(c)
      PROVE  UNCHANGED <<sub, got>> \/ Served
  BY <1>20 DEF CancelProjectsUnlocked, subVars
<1>21. ASSUME NEW m \in Submits, NEW edited \in SUBSET Sections, SubmitEdits(m, edited)
      PROVE  UNCHANGED <<sub, got>> \/ Served
  BY <1>21 DEF SubmitEdits, subVars
<1>22. ASSUME NEW m \in Submits, NEW s \in Sections, SubmitUpserts(m, s)
      PROVE  UNCHANGED <<sub, got>> \/ Served
  BY <1>22 DEF SubmitUpserts, subVars
<1>23. ASSUME NEW m \in Submits, SubmitKeeps(m)
      PROVE  UNCHANGED <<sub, got>> \/ Served
  BY <1>23 DEF SubmitKeeps, subVars
<1>24. ASSUME NEW m \in Submits, SubmitRefused(m)
      PROVE  UNCHANGED <<sub, got>> \/ Served
  BY <1>24 DEF SubmitRefused, subVars
<1>25. ASSUME NEW m \in Submits, SubmitResolves(m)
      PROVE  UNCHANGED <<sub, got>> \/ Served
  BY <1>25 DEF SubmitResolves, subVars
<1>26. ASSUME NEW u \in Subscribers, Connects(u)
      PROVE  UNCHANGED <<sub, got>> \/ Served
  BY <1>26, Zenon DEF Served
<1>27. ASSUME NEW u \in Subscribers, RegistersHub(u)
      PROVE  UNCHANGED <<sub, got>> \/ Served
  BY <1>27, Zenon DEF Served
<1>28. ASSUME NEW u \in Subscribers, ResolvesRun(u)
      PROVE  UNCHANGED <<sub, got>> \/ Served
  BY <1>28, Zenon DEF Served
<1>29. ASSUME NEW u \in Subscribers, StartsTask(u)
      PROVE  UNCHANGED <<sub, got>> \/ Served
  BY <1>29, Zenon DEF Served
<1>30. ASSUME NEW u \in Subscribers, StartFails(u)
      PROVE  UNCHANGED <<sub, got>> \/ Served
  BY <1>30, Zenon DEF Served
<1>31. ASSUME NEW u \in Subscribers, Replays(u)
      PROVE  UNCHANGED <<sub, got>> \/ Served
  BY <1>31, Zenon DEF Served
<1>32. ASSUME NEW u \in Subscribers, Delivers(u)
      PROVE  UNCHANGED <<sub, got>> \/ Served
  BY <1>32, Zenon DEF Served
<1>33. ASSUME NEW u \in Subscribers, Disconnects(u)
      PROVE  UNCHANGED <<sub, got>> \/ Served
  BY <1>33, Zenon DEF Served
<1>34. CASE UNCHANGED vars
  BY <1>34 DEF vars, subVars
<1> QED
  BY <1>1, <1>2, <1>3, <1>4, <1>5, <1>6, <1>7, <1>8, <1>9, <1>10, <1>11, <1>12, <1>13, <1>14,
     <1>15, <1>16, <1>17, <1>18, <1>19, <1>20, <1>21, <1>22, <1>23, <1>24, <1>25, <1>26, <1>27,
     <1>28, <1>29, <1>30, <1>31, <1>32, <1>33, <1>34
     DEF Next, EngineStep, Failure, CancelStep, SubmitStep, SubscriberStep

\* A subscriber whose replay is still to come was sent nothing yet.
Unserved == \A u \in Subscribers : sub[u] \in Starting \cup {"attached"} => got[u] = << >>

LEMMA UnservedStep ==
    ASSUME TypeOK, Unserved, [Next]_vars
    PROVE  Unserved'
<1> USE DEF Unserved, TypeOK, SubscriberTypeOK, Starting, Registered
<1>1. CASE UNCHANGED <<sub, got>>
  BY <1>1
<1>2. CASE Restarts
  BY <1>2 DEF Restarts
<1>3. ASSUME NEW u \in Subscribers, Connects(u)
      PROVE  Unserved'
  <2>1. got' = [got EXCEPT ![u] = << >>] /\ \A v \in Subscribers : v # u => sub'[v] = sub[v]
    BY <1>3 DEF Connects, Attach
  <2> QED
    BY <2>1
<1>4. ASSUME NEW u \in Subscribers, RegistersHub(u) \/ ResolvesRun(u) \/ StartsTask(u)
      PROVE  Unserved'
  <2>1. /\ got' = got /\ sub[u] \in Starting
        /\ \A v \in Subscribers : v # u => sub'[v] = sub[v]
    BY <1>4 DEF RegistersHub, ResolvesRun, StartsTask, Attach
  <2> QED
    BY <2>1
<1>5. ASSUME NEW u \in Subscribers, StartFails(u) \/ Replays(u) \/ Delivers(u) \/ Disconnects(u)
      PROVE  Unserved'
  <2>1. /\ sub'[u] \notin Starting \cup {"attached"}
        /\ \A v \in Subscribers : v # u => sub'[v] = sub[v] /\ got'[v] = got[v]
    BY <1>5 DEF StartFails, Replays, Delivers, Disconnects
  <2> QED
    BY <2>1
<1> QED
  BY <1>1, <1>2, <1>3, <1>4, <1>5, OnlyServed DEF Served

\* A run begins as a stream does.
LEMMA StreamBegins == Init => Stream!StreamInit
BY DEF Init, Stream!StreamInit, StatusEvents

\* The event a writer inserts is published at the end of the log.
LEMMA Publishes ==
    ASSUME TypeOK, Numbered, NEW seq, NEW type \in EventTypes, ~Taken(seq),
           log' = LogWith(seq, type), row' = row, got' = got,
           \/ seq = nextSeq
           \/ \E c \in Cancels : can[c] = "unlocked" /\ seq = seqOf[c],
           Decided => type \in Terminal
    PROVE  Stream!Publish
<1>1. seq = Cardinality(DOMAIN log) /\ seq \notin DOMAIN log
  BY GoesLast DEF Taken
<1>2. LogWith(seq, type) = [n \in DOMAIN log \cup {Cardinality(DOMAIN log)} |->
                              IF n \in DOMAIN log THEN log[n] ELSE type]
  BY <1>1 DEF LogWith
<1>3. Stream!Concluded => type \in Terminal
  BY DEF Stream!Concluded, Decided
<1>4. Stream!Cardinality(DOMAIN log) = Cardinality(DOMAIN log)
  BY DEF Stream!Cardinality, Cardinality
<1> QED
  BY <1>2, <1>3, <1>4 DEF Stream!Publish

\* A status that is written is one the log has, and an outcome only gives way
\* to another.
LEMMA Marks ==
    ASSUME TypeOK, Control, Numbered, Writing, OutcomeInv, [Next]_vars,
           row' # row, log' = log, got' = got
    PROVE  Stream!Mark
<1>1. RowLogged /\ WritesLast /\ OnlyVerdictsAfterVerdict /\ UnlockedLogged
  BY DEF OutcomeInv
<1>2. row \in Terminal => Decided
  BY <1>1 DEF RowLogged, Decided, Terminal, StatusEvents
<1>3. ASSUME NEW p \in Writers, Projects(p), EventOf(p) \in StatusEvents, row' = EventOf(p)
      PROVE  Stream!Mark
  <2>1. row \in Terminal => EventOf(p) \in Terminal
    BY <1>1, <1>2, <1>3, ProjectsVerdict
  <2>2. nextSeq - 1 \in DOMAIN log /\ log[nextSeq - 1] = EventOf(p)
    BY <1>3, ProjectedLogged
  <2> QED
    BY <1>3, <2>1, <2>2 DEF Stream!Mark
<1>4. ASSUME NEW c \in Cancels, CancelProjectsUnlocked(c), row' = "cancelled"
      PROVE  Stream!Mark
  <2>1. seqOf[c] \in DOMAIN log /\ log[seqOf[c]] = "cancelled"
    BY <1>1, <1>4 DEF CancelProjectsUnlocked, UnlockedLogged, Taken
  <2> QED
    BY <1>4, <2>1 DEF Stream!Mark, Terminal, StatusEvents
<1> QED
  BY <1>3, <1>4, RowStep

\* What follows a prefix is longer, unless nothing follows.
LEMMA Extended ==
    ASSUME NEW s \in Seq(Items), NEW item \in Items
    PROVE  Len(s) < Len(Append(s, item)) /\ SubSeq(Append(s, item), 1, Len(s)) = s
<1>1. Len(Append(s, item)) = Len(s) + 1
  OBVIOUS
<1>2. SubSeq(Append(s, item), 1, Len(s)) = s
  OBVIOUS
<1> QED
  BY <1>1, <1>2

\* What a replay or a delivery adds to what a subscriber was sent is sent in
\* the sense of the stream.
LEMMA Sends ==
    ASSUME TypeOK, NEW u \in Subscribers, NEW sent \in Seq(Items),
           got' = [got EXCEPT ![u] = sent], log' = log, row' = row,
           (SentWasPersisted /\ SentInOrder)',
           Len(got[u]) < Len(sent), SubSeq(sent, 1, Len(got[u])) = got[u]
    PROVE  Stream!Send
<1>1. got'[u] = sent
  BY DEF TypeOK, SubscriberTypeOK
<1>2. Stream!Faithful(got'[u])
  BY DEF SentWasPersisted, SentInOrder, Stream!Faithful
<1> QED
  BY <1>1, <1>2 DEF Stream!Send

\* The steps that touch what the stream shows.
Shown ==
    \/ \E p \in Tasks : Appends(p)
    \/ \E p \in Writers : Projects(p)
    \/ \E c \in Cancels : CancelAppends(c) \/ CancelAppendsUnlocked(c) \/ CancelProjectsUnlocked(c)
    \/ \E u \in Subscribers : Connects(u) \/ Replays(u) \/ Delivers(u)
    \/ Restarts

LEMMA OnlyShown ==
    ASSUME TypeOK, Control, [Next]_vars
    PROVE  UNCHANGED <<log, row, got>> \/ Shown
<1>1. (UNCHANGED <<sub, got>>) \/ Served
  BY OnlyServed
<1>2. Calm \/ Eventful
  BY CalmOrEventful
<1>3. CASE Calm /\ UNCHANGED <<sub, got>>
  BY <1>3 DEF Calm
<1>4. CASE Eventful /\ UNCHANGED <<sub, got>>
  BY <1>4 DEF Eventful, Shown, AppendFails, CancelMarks, RegistersHub, dbVars
<1>5. CASE Served
  BY <1>5 DEF Served, Shown, RegistersHub, ResolvesRun, StartsTask, StartFails, Disconnects, dbVars
<1> QED
  BY <1>1, <1>2, <1>3, <1>4, <1>5

\* Every step of a run is a step of the stream, or shows nothing.
LEMMA StreamStep ==
    ASSUME IInv, IInv', OutcomeInv, Unserved, [Next]_vars
    PROVE  [Stream!StreamNext]_(Stream!streamVars)
<1>1. /\ TypeOK /\ Control /\ Numbered /\ Writing /\ Settled /\ UnlockedLogged
      /\ OnlyVerdictsAfterVerdict
  BY DEF IInv, OutcomeInv
<1>2. (SentWasPersisted /\ SentInOrder)'
  BY DEF IInv
<1>3. "cancelled" \in Terminal /\ "cancelled" \in EventTypes
  BY DEF Terminal, EventTypes, StatusEvents
<1> SUFFICES Stream!StreamNext \/ UNCHANGED <<log, row, got>>
  BY DEF Stream!streamVars
<1>4. ASSUME NEW p \in Tasks, Appends(p)
      PROVE  Stream!Publish
  <2>1. /\ ~Taken(nextSeq) /\ log' = LogWith(nextSeq, EventOf(p)) /\ Enters(p)
        /\ row' = row /\ got' = got
    BY <1>4 DEF Appends, subVars
  <2>2. EventOf(p) \in EventTypes
    BY <1>1, <2>1, EntersEmitting, OutcomeEmitted
  <2>3. Decided => EventOf(p) \in Terminal
    BY <1>1, <1>4, AppendsVerdict
  <2> QED
    BY <1>1, <2>1, <2>2, <2>3, Publishes
<1>5. ASSUME NEW p \in Writers, Projects(p)
      PROVE  Stream!Mark \/ UNCHANGED <<log, row, got>>
  <2>1. log' = log /\ got' = got
    BY <1>5 DEF Projects, subVars
  <2> QED
    BY <1>1, <2>1, Marks
<1>6. ASSUME NEW c \in Cancels, CancelAppends(c)
      PROVE  Stream!Publish \/ UNCHANGED <<log, row, got>>
  <2>1. row' = row /\ got' = got
    BY <1>6 DEF CancelAppends, subVars
  <2>2. CASE Taken(nextSeq)
    BY <1>6, <2>1, <2>2 DEF CancelAppends
  <2>3. CASE ~Taken(nextSeq)
    <3>1. log' = LogWith(nextSeq, "cancelled")
      BY <1>6, <2>3, Zenon DEF CancelAppends
    <3> QED
      BY <1>1, <1>3, <2>1, <2>3, <3>1, Publishes
  <2> QED
    BY <2>2, <2>3
<1>7. ASSUME NEW c \in Cancels, CancelAppendsUnlocked(c)
      PROVE  Stream!Publish \/ UNCHANGED <<log, row, got>>
  <2>1. row' = row /\ got' = got /\ can[c] = "unlocked"
    BY <1>7 DEF CancelAppendsUnlocked, subVars
  <2>2. CASE Taken(seqOf[c])
    BY <1>7, <2>1, <2>2 DEF CancelAppendsUnlocked
  <2>3. CASE ~Taken(seqOf[c])
    <3>1. log' = LogWith(seqOf[c], "cancelled")
      BY <1>7, <2>3, Zenon DEF CancelAppendsUnlocked
    <3> QED
      BY <1>1, <1>3, <2>1, <2>3, <3>1, Publishes
  <2> QED
    BY <2>2, <2>3
<1>8. ASSUME NEW c \in Cancels, CancelProjectsUnlocked(c)
      PROVE  Stream!Mark \/ UNCHANGED <<log, row, got>>
  <2>1. log' = log /\ got' = got
    BY <1>8 DEF CancelProjectsUnlocked, subVars
  <2> QED
    BY <1>1, <2>1, Marks
<1>9. ASSUME NEW u \in Subscribers, Connects(u)
      PROVE  Stream!Reconnect
  <2>1. got' = [v \in Subscribers |-> IF v \in {u} THEN << >> ELSE got[v]]
    BY <1>1, <1>9 DEF Connects, TypeOK, SubscriberTypeOK
  <2>2. UNCHANGED <<log, row>>
    BY <1>9 DEF Connects, dbVars
  <2> QED
    BY <2>1, <2>2 DEF Stream!Reconnect
<1>10. ASSUME NEW u \in Subscribers, Replays(u)
       PROVE  Stream!Send \/ UNCHANGED <<log, row, got>>
  <2>1. got' = [got EXCEPT ![u] = Replay] /\ log' = log /\ row' = row
    BY <1>10 DEF Replays, dbVars
  <2>2. got[u] = << >>
    BY <1>10 DEF Replays, Unserved
  <2>3. Replay \in Seq(Items)
    BY <1>1, ReplayFaithful
  <2>4. CASE Replay = << >>
    BY <1>1, <2>1, <2>2, <2>4 DEF TypeOK, SubscriberTypeOK
  <2>5. CASE Replay # << >>
    <3>1. Len(got[u]) < Len(Replay) /\ SubSeq(Replay, 1, Len(got[u])) = got[u]
      BY <2>2, <2>3, <2>5
    <3> QED
      BY <1>1, <1>2, <2>1, <2>3, <3>1, Sends
  <2> QED
    BY <2>4, <2>5
<1>11. ASSUME NEW u \in Subscribers, Delivers(u)
       PROVE  Stream!Send \/ UNCHANGED <<log, row, got>>
  <2> DEFINE item == Head(queue[u])
  <2>1. /\ log' = log /\ row' = row
        /\ got' = got \/ got' = [got EXCEPT ![u] = Append(got[u], item)]
    BY <1>11 DEF Delivers, dbVars
  <2>2. CASE got' = got
    BY <2>1, <2>2
  <2>3. CASE got' = [got EXCEPT ![u] = Append(got[u], item)]
    <3>1. got[u] \in Seq(Items) /\ item \in Items
      BY <1>1, <1>11 DEF Delivers, TypeOK, SubscriberTypeOK
    <3>2. /\ Append(got[u], item) \in Seq(Items)
          /\ Len(got[u]) < Len(Append(got[u], item))
          /\ SubSeq(Append(got[u], item), 1, Len(got[u])) = got[u]
      BY <3>1, Extended
    <3> QED
      BY <1>1, <1>2, <2>1, <2>3, <3>2, Sends
  <2> QED
    BY <2>1, <2>2, <2>3
<1>12. CASE Restarts
  <2>1. got' = [v \in Subscribers |-> IF v \in Subscribers THEN << >> ELSE got[v]]
    BY <1>12 DEF Restarts
  <2>2. UNCHANGED <<log, row>>
    BY <1>12 DEF Restarts, dbVars
  <2> QED
    BY <2>1, <2>2 DEF Stream!Reconnect, Stream!StreamNext
<1> QED
  BY <1>1, <1>4, <1>5, <1>6, <1>7, <1>8, <1>9, <1>10, <1>11, <1>12, OnlyShown
     DEF Shown, Stream!StreamNext

\* RunService implements EventStream: its log, its status and what its
\* subscribers are sent are those of a stream, whatever fails, races or
\* restarts.
THEOREM StreamImplemented == Spec => ImplementsEventStream
<1>1. Init => Unserved
  BY DEF Init, Unserved
<1>2. IInv /\ Unserved /\ [Next]_vars => Unserved'
  BY UnservedStep DEF IInv
<1>3. Spec => []Unserved
  BY <1>1, <1>2, Invariance, PTL DEF Spec
<1>4. IInv /\ IInv' /\ OutcomeInv /\ Unserved /\ [Next]_vars
         => [Stream!StreamNext]_(Stream!streamVars)
  BY StreamStep
<1> QED
  BY StreamBegins, <1>3, <1>4, Invariance, OutcomeInvariance, PTL
     DEF Spec, ImplementsEventStream, Stream!StreamSpec

=============================================================================

---------------------------- MODULE RunReaderProofs ----------------------------
(***************************************************************************)
(* Proofs about what those who watch a run are shown: that a stream which  *)
(* ends with `done` was complete, that a stream the server closes told its *)
(* reader how the run ended, and that runs.status is the last one logged.  *)
(***************************************************************************)
EXTENDS RunOutcomeProofs, WellFoundedInduction

\* Where the engine may still come to the end of its work.
ToDone == {"planning", "plan", "awaiting_plan", "wait", "researching", "research",
           "writing", "report_delta", "report", "done"}

\* `done` may still be fanned out: nothing tore the engine, the hub numbers
\* the log, and no cancellation makes the sink drop what comes.
Flowing ==
    /\ pc \in ToDone
    /\ ~Taken(nextSeq)
    /\ cancelled => \E p \in Tasks : io[p] \in Inserted

\* The seq the next event to be fanned out has.
Fanned == IF \E p \in Writers : io[p] \in Inserted THEN nextSeq - 1 ELSE nextSeq

\* What u was sent is the log from its beginning.
Seamless(u) == \A i \in DOMAIN got[u] : got[u][i].seq = i - 1

\* While the run flows, the queue of a subscriber ends with the last event
\* fanned out and has no hole, and it begins where what it was sent ends or
\* before.
QueueJoins ==
    Flowing => \A u \in Subscribers : sub[u] \in Registered =>
        /\ \A i \in DOMAIN queue[u] : /\ queue[u][i] # Stop
                                      /\ queue[u][i].seq = Fanned - Len(queue[u]) + i - 1
        /\ sub[u] = "live" => Seamless(u) /\ Fanned - Len(queue[u]) <= Len(got[u])

\* Whatever happens next, a `done` that is queued stays at the end of a queue
\* without a hole.
DoneJoins ==
    \A u \in Subscribers : sub[u] = "live" =>
        \A i \in DOMAIN queue[u] : queue[u][i].type = "done" =>
            /\ Seamless(u)
            /\ \A j \in 1 .. i : /\ queue[u][j] # Stop
                                 /\ queue[u][j].seq = queue[u][i].seq - i + j
            /\ queue[u][i].seq - i < Len(got[u])

\* Only registered subscribers have a queue that is filled, and there are none
\* before the task of the run was started.
Attended ==
    /\ \A u \in Subscribers : sub[u] \notin Registered => queue[u] = << >>
    /\ \A u \in Subscribers : sub[u] \in Registered => pc # "off"

-----------------------------------------------------------------------------
(* What a step does to the subscribers *)

\* The items are put on the queues.
Pushed(items) == queue' = PushTo(items) /\ sub' = sub /\ got' = got

\* The engine was torn or its events are dropped; the task may end with it.
Torn ==
    /\ ~Flowing'
    /\ \/ Pushed(<< >>)
       \/ Pushed(<<Stop>>) /\ (SinkDrops(Engine) \/ \E p \in Tasks : AppendFails(p))

Fans ==
    \/ \E p \in Tasks : FansOut(p)
    \/ \E c \in Cancels : CancelFansOut(c)

\* A step leaves the subscribers alone, tears the engine, fans an event out,
\* or is taken by a subscriber.
LEMMA ReadersStep ==
    ASSUME TypeOK, Control, Queued, [Next]_vars
    PROVE  (UNCHANGED <<sub, queue, got>>) \/ Torn \/ Fans \/ Served
<1>1. CASE Approved
  BY <1>1 DEF Approved, subVars
<1>2. CASE Researched
  BY <1>2 DEF Researched, subVars
<1>3. ASSUME NEW s \in Sections, SectionBegins(s)
      PROVE  (UNCHANGED <<sub, queue, got>>) \/ Torn \/ Fans \/ Served
  BY <1>3 DEF SectionBegins, subVars
<1>4. ASSUME NEW s \in Sections, UpsertPlanned(s)
      PROVE  (UNCHANGED <<sub, queue, got>>) \/ Torn \/ Fans \/ Served
  BY <1>4 DEF UpsertPlanned, subVars
<1>5. ASSUME NEW p \in Tasks, Waits(p)
      PROVE  (UNCHANGED <<sub, queue, got>>) \/ Torn \/ Fans \/ Served
  BY <1>5 DEF Waits, subVars
<1>6. ASSUME NEW p \in Tasks, SinkDrops(p)
      PROVE  (UNCHANGED <<sub, queue, got>>) \/ Torn \/ Fans \/ Served
  <2>1. cancelled' /\ \A q \in Tasks : io'[q] \notin Inserted
    BY <1>6, EntersAlone DEF SinkDrops, Leave, Admitted, hubVars, Inserted, Writers
  <2>2. Append(<< >>, Stop) = <<Stop>>
    OBVIOUS
  <2>3. Pushed(<< >>) \/ (Pushed(<<Stop>>) /\ p = Engine)
    <3>1. p # Engine => pc # "finished"
      BY <1>6 DEF SinkDrops, Enters, AtEmit, HasLock, Control, Tasks, SectionEvents
    <3> QED
      BY <1>6, <2>2, <3>1 DEF SinkDrops, Return, Pushed
  <2> QED
    BY <1>6, <2>1, <2>3 DEF Torn, Flowing
<1>7. ASSUME NEW p \in Tasks, Appends(p)
      PROVE  (UNCHANGED <<sub, queue, got>>) \/ Torn \/ Fans \/ Served
  BY <1>7 DEF Appends, subVars
<1>8. ASSUME NEW p \in Tasks, AppendFails(p)
      PROVE  (UNCHANGED <<sub, queue, got>>) \/ Torn \/ Fans \/ Served
  <2>1. pc' \notin ToDone /\ (Pushed(<<Stop>>) \/ Pushed(<< >>))
    BY <1>8 DEF AppendFails, Raise, ToDone, Pushed
  <2> QED
    BY <1>8, <2>1 DEF Torn, Flowing
<1>9. ASSUME NEW p \in Tasks, FansOut(p)
      PROVE  (UNCHANGED <<sub, queue, got>>) \/ Torn \/ Fans \/ Served
  BY <1>9, Zenon DEF Fans
<1>10. ASSUME NEW p \in Writers, Projects(p)
      PROVE  (UNCHANGED <<sub, queue, got>>) \/ Torn \/ Fans \/ Served
  BY <1>10 DEF Projects, subVars
<1>11. CASE EngineFails
  <2>1. pc' \notin ToDone /\ Pushed(<< >>)
    BY <1>11 DEF EngineFails, Raise, ToDone, Pushed, Control
  <2> QED
    BY <2>1 DEF Torn, Flowing
<1>12. ASSUME NEW s \in Sections, SectionFails(s)
      PROVE  (UNCHANGED <<sub, queue, got>>) \/ Torn \/ Fans \/ Served
  <2>1. pc' \notin ToDone /\ Pushed(<< >>)
    BY <1>12 DEF SectionFails, Raise, ToDone, Pushed, Control
  <2> QED
    BY <2>1 DEF Torn, Flowing
<1>13. CASE TimesOut
  BY <1>13 DEF TimesOut, subVars
<1>14. CASE Restarts
  BY <1>14, Zenon DEF Served
<1>15. ASSUME NEW c \in Cancels, CancelReads(c)
      PROVE  (UNCHANGED <<sub, queue, got>>) \/ Torn \/ Fans \/ Served
  BY <1>15 DEF CancelReads, subVars
<1>16. ASSUME NEW c \in Cancels, CancelMarks(c)
      PROVE  (UNCHANGED <<sub, queue, got>>) \/ Torn \/ Fans \/ Served
  BY <1>16 DEF CancelMarks, subVars
<1>17. ASSUME NEW c \in Cancels, CancelAppends(c)
      PROVE  (UNCHANGED <<sub, queue, got>>) \/ Torn \/ Fans \/ Served
  BY <1>17 DEF CancelAppends, subVars
<1>18. ASSUME NEW c \in Cancels, CancelFansOut(c)
      PROVE  (UNCHANGED <<sub, queue, got>>) \/ Torn \/ Fans \/ Served
  BY <1>18, Zenon DEF Fans
<1>19. ASSUME NEW c \in Cancels, CancelAppendsUnlocked(c)
      PROVE  (UNCHANGED <<sub, queue, got>>) \/ Torn \/ Fans \/ Served
  BY <1>19 DEF CancelAppendsUnlocked, subVars
<1>20. ASSUME NEW c \in Cancels, CancelProjectsUnlocked(c)
      PROVE  (UNCHANGED <<sub, queue, got>>) \/ Torn \/ Fans \/ Served
  BY <1>20 DEF CancelProjectsUnlocked, subVars
<1>21. ASSUME NEW m \in Submits, NEW edited \in SUBSET Sections, SubmitEdits(m, edited)
      PROVE  (UNCHANGED <<sub, queue, got>>) \/ Torn \/ Fans \/ Served
  BY <1>21 DEF SubmitEdits, subVars
<1>22. ASSUME NEW m \in Submits, NEW s \in Sections, SubmitUpserts(m, s)
      PROVE  (UNCHANGED <<sub, queue, got>>) \/ Torn \/ Fans \/ Served
  BY <1>22 DEF SubmitUpserts, subVars
<1>23. ASSUME NEW m \in Submits, SubmitKeeps(m)
      PROVE  (UNCHANGED <<sub, queue, got>>) \/ Torn \/ Fans \/ Served
  BY <1>23 DEF SubmitKeeps, subVars
<1>24. ASSUME NEW m \in Submits, SubmitRefused(m)
      PROVE  (UNCHANGED <<sub, queue, got>>) \/ Torn \/ Fans \/ Served
  BY <1>24 DEF SubmitRefused, subVars
<1>25. ASSUME NEW m \in Submits, SubmitResolves(m)
      PROVE  (UNCHANGED <<sub, queue, got>>) \/ Torn \/ Fans \/ Served
  BY <1>25 DEF SubmitResolves, subVars
<1>26. ASSUME NEW u \in Subscribers, Connects(u)
      PROVE  (UNCHANGED <<sub, queue, got>>) \/ Torn \/ Fans \/ Served
  BY <1>26, Zenon DEF Served
<1>27. ASSUME NEW u \in Subscribers, RegistersHub(u)
      PROVE  (UNCHANGED <<sub, queue, got>>) \/ Torn \/ Fans \/ Served
  BY <1>27, Zenon DEF Served
<1>28. ASSUME NEW u \in Subscribers, ResolvesRun(u)
      PROVE  (UNCHANGED <<sub, queue, got>>) \/ Torn \/ Fans \/ Served
  BY <1>28, Zenon DEF Served
<1>29. ASSUME NEW u \in Subscribers, StartsTask(u)
      PROVE  (UNCHANGED <<sub, queue, got>>) \/ Torn \/ Fans \/ Served
  BY <1>29, Zenon DEF Served
<1>30. ASSUME NEW u \in Subscribers, StartFails(u)
      PROVE  (UNCHANGED <<sub, queue, got>>) \/ Torn \/ Fans \/ Served
  BY <1>30, Zenon DEF Served
<1>31. ASSUME NEW u \in Subscribers, Replays(u)
      PROVE  (UNCHANGED <<sub, queue, got>>) \/ Torn \/ Fans \/ Served
  BY <1>31, Zenon DEF Served
<1>32. ASSUME NEW u \in Subscribers, Delivers(u)
      PROVE  (UNCHANGED <<sub, queue, got>>) \/ Torn \/ Fans \/ Served
  BY <1>32, Zenon DEF Served
<1>33. ASSUME NEW u \in Subscribers, Disconnects(u)
      PROVE  (UNCHANGED <<sub, queue, got>>) \/ Torn \/ Fans \/ Served
  BY <1>33, Zenon DEF Served
<1>34. CASE UNCHANGED vars
  BY <1>34 DEF vars, subVars
<1> QED
  BY <1>1, <1>2, <1>3, <1>4, <1>5, <1>6, <1>7, <1>8, <1>9, <1>10, <1>11, <1>12, <1>13, <1>14,
     <1>15, <1>16, <1>17, <1>18, <1>19, <1>20, <1>21, <1>22, <1>23, <1>24, <1>25, <1>26, <1>27,
     <1>28, <1>29, <1>30, <1>31, <1>32, <1>33, <1>34
     DEF Next, EngineStep, Failure, CancelStep, SubmitStep, SubscriberStep

\* What a run that flows depends on.
LEMMA FlowLess ==
    ASSUME pc' = pc, nextSeq' = nextSeq, log' = log, cancelled => cancelled',
           \A q \in Writers : io'[q] \in Inserted <=> io[q] \in Inserted, Flowing'
    PROVE  Flowing /\ Fanned' = Fanned
BY DEF Flowing, Fanned, Taken, Writers

LEMMA FlowSame ==
    ASSUME pc' \in ToDone => pc \in ToDone, nextSeq' = nextSeq, log' = log,
           cancelled' = cancelled,
           \A q \in Writers : io'[q] \in Inserted <=> io[q] \in Inserted, Flowing'
    PROVE  Flowing /\ Fanned' = Fanned
BY DEF Flowing, Fanned, Taken, Writers

\* A run that flows after a step flowed before it, and the step fanned
\* nothing out but what a task wrote; or the task of the run was started.
LEMMA FlowStep ==
    ASSUME TypeOK, Control, Queued, Numbered, CancelMarked, WritesLast, [Next]_vars, Flowing'
    PROVE  \/ Flowing /\ Fanned' = Fanned
           \/ \E q \in Tasks : FansOut(q) /\ Flowing
           \/ \E v \in Subscribers : StartsTask(v)
<1> DEFINE Goal == \/ Flowing /\ Fanned' = Fanned
                   \/ \E q \in Tasks : FansOut(q) /\ Flowing
                   \/ \E v \in Subscribers : StartsTask(v)
<1>1. CASE Approved
  <2>1. /\ pc' \in ToDone => pc \in ToDone
        /\ nextSeq' = nextSeq /\ log' = log /\ cancelled' = cancelled
        /\ \A q \in Writers : io'[q] \in Inserted <=> io[q] \in Inserted
    BY <1>1 DEF Approved, dbVars, hubVars, taskVars, ToDone, Inserted
  <2> QED
    BY <2>1, FlowSame
<1>2. CASE Researched
  <2>1. /\ pc' \in ToDone => pc \in ToDone
        /\ nextSeq' = nextSeq /\ log' = log /\ cancelled' = cancelled
        /\ \A q \in Writers : io'[q] \in Inserted <=> io[q] \in Inserted
    BY <1>2 DEF Researched, dbVars, hubVars, taskVars, ToDone, Inserted
  <2> QED
    BY <2>1, FlowSame
<1>3. ASSUME NEW s \in Sections, SectionBegins(s)
      PROVE  Goal
  <2>1. /\ pc' \in ToDone => pc \in ToDone
        /\ nextSeq' = nextSeq /\ log' = log /\ cancelled' = cancelled
        /\ \A q \in Writers : io'[q] \in Inserted <=> io[q] \in Inserted
    BY <1>3 DEF SectionBegins, dbVars, hubVars, taskVars, ToDone, Inserted
  <2> QED
    BY <2>1, FlowSame
<1>4. ASSUME NEW s \in Sections, UpsertPlanned(s)
      PROVE  Goal
  <2>1. /\ pc' \in ToDone => pc \in ToDone
        /\ nextSeq' = nextSeq /\ log' = log /\ cancelled' = cancelled
        /\ \A q \in Writers : io'[q] \in Inserted <=> io[q] \in Inserted
    BY <1>4 DEF UpsertPlanned, dbVars, hubVars, taskVars, ToDone, Inserted
  <2> QED
    BY <2>1, FlowSame
<1>5. ASSUME NEW p \in Tasks, Waits(p)
      PROVE  Goal
  <2>1. /\ pc' \in ToDone => pc \in ToDone
        /\ nextSeq' = nextSeq /\ log' = log /\ cancelled' = cancelled
        /\ \A q \in Writers : io'[q] \in Inserted <=> io[q] \in Inserted
    BY <1>5 DEF Waits, AtEmit, Join, TypeOK, TaskTypeOK, dbVars, hubVars, taskVars, ToDone, Inserted
  <2> QED
    BY <2>1, FlowSame
<1>6. ASSUME NEW p \in Tasks, SinkDrops(p)
      PROVE  Goal
  <2>1. cancelled' /\ \A q \in Tasks : io'[q] \notin Inserted
    BY <1>6, EntersAlone DEF SinkDrops, Leave, Admitted, hubVars, Inserted, Writers
  <2> QED
    BY <2>1 DEF Flowing
<1>7. ASSUME NEW p \in Tasks, Appends(p)
      PROVE  Goal
  <2>1. \A q \in Writers : io[q] \notin Inserted
    BY <1>7, EntersAlone DEF Appends, Inserted
  <2>2. Fanned = nextSeq
    BY <2>1 DEF Fanned
  <2>3. io'[p] \in Inserted /\ p \in Writers /\ nextSeq' = nextSeq + 1 /\ nextSeq \in Nat
    BY <1>7 DEF Appends, Inserted, TypeOK, TaskTypeOK, HubTypeOK, Writers
  <2>4. Fanned' = nextSeq
    BY <2>3 DEF Fanned
  <2>5. ~cancelled /\ ~Taken(nextSeq) /\ pc' = pc
    BY <1>7 DEF Appends, Admitted, Flowing, ToDone
  <2> QED
    BY <2>2, <2>4, <2>5 DEF Flowing
<1>8. ASSUME NEW p \in Tasks, AppendFails(p)
      PROVE  Goal
  BY <1>8 DEF AppendFails, Raise, Flowing, ToDone
<1>9. ASSUME NEW p \in Tasks, FansOut(p)
      PROVE  Goal
  <2>1. io[p] \in Inserted /\ p \in Writers
    BY <1>9 DEF FansOut, Inserted, Writers
  <2>2. ~Taken(nextSeq)
    BY <2>1 DEF WritesLast
  <2>3. pc \in ToDone
    <3>1. p = Engine => pc \in EmitPcs
      BY <2>1 DEF Control, Inserted
    <3>2. p # Engine => pc = "research"
      BY <2>1 DEF Control, Inserted, Tasks
    <3>3. pc' = IF p = Engine THEN AfterEmit(pc) ELSE pc
      BY <1>9 DEF FansOut, Return
    <3>4. pc \notin {"timeout", "error"}
      BY <3>2, <3>3 DEF AfterEmit, Flowing, ToDone
    <3> QED
      BY <3>1, <3>2, <3>4 DEF EmitPcs, ToDone
  <2> QED
    BY <1>9, <2>1, <2>2, <2>3 DEF Flowing
<1>10. ASSUME NEW p \in Writers, Projects(p)
      PROVE  Goal
  <2>1. /\ pc' \in ToDone => pc \in ToDone
        /\ nextSeq' = nextSeq /\ log' = log /\ cancelled' = cancelled
        /\ \A q \in Writers : io'[q] \in Inserted <=> io[q] \in Inserted
    BY <1>10 DEF Projects, TypeOK, TaskTypeOK, dbVars, hubVars, taskVars, ToDone, Inserted
  <2> QED
    BY <2>1, FlowSame
<1>11. CASE EngineFails
  BY <1>11 DEF EngineFails, Raise, Flowing, ToDone
<1>12. ASSUME NEW s \in Sections, SectionFails(s)
      PROVE  Goal
  BY <1>12 DEF SectionFails, Raise, Flowing, ToDone
<1>13. CASE TimesOut
  BY <1>13 DEF TimesOut, Flowing, ToDone
<1>14. CASE Restarts
  BY <1>14 DEF Restarts, Flowing, ToDone
<1>15. ASSUME NEW c \in Cancels, CancelReads(c)
      PROVE  Goal
  <2>1. /\ pc' \in ToDone => pc \in ToDone
        /\ nextSeq' = nextSeq /\ log' = log /\ cancelled' = cancelled
        /\ \A q \in Writers : io'[q] \in Inserted <=> io[q] \in Inserted
    BY <1>15 DEF CancelReads, dbVars, hubVars, taskVars, ToDone, Inserted
  <2> QED
    BY <2>1, FlowSame
<1>16. ASSUME NEW c \in Cancels, CancelMarks(c)
      PROVE  Goal
  <2>1. pc' = pc /\ nextSeq' = nextSeq /\ log' = log
    BY <1>16 DEF CancelMarks, dbVars
  <2>2. \A q \in Writers : io'[q] \in Inserted <=> io[q] \in Inserted
    <3>1. CASE hubUp
      <4>1. io[c] \notin Inserted
        BY <1>16 DEF CancelMarks, Control, Inserted
      <4> QED
        BY <1>16, <3>1, <4>1 DEF CancelMarks, Join, Inserted, TypeOK, TaskTypeOK
    <3>2. CASE ~hubUp
      BY <1>16, <3>2 DEF CancelMarks
    <3> QED
      BY <3>1, <3>2
  <2>3. cancelled => cancelled'
    BY <1>16 DEF CancelMarks, TypeOK, HubTypeOK
  <2> QED
    BY <2>1, <2>2, <2>3, FlowLess
<1>17. ASSUME NEW c \in Cancels, CancelAppends(c)
      PROVE  Goal
  <2>1. cancelled' = cancelled /\ cancelled
    BY <1>17 DEF CancelAppends, CancelMarked, HasLock
  <2>2. \A q \in Writers : io[q] \notin Inserted
    BY <1>17, LockExcludes DEF CancelAppends, HasLock, Inserted, Writers
  <2>3. \A q \in Tasks : io'[q] \notin Inserted
    <3>1. c \notin Tasks
      BY WriterAssumption DEF Tasks
    <3>2. \A q \in Tasks : io'[q] \in {io[q], "idle"}
      BY <1>17, <3>1 DEF CancelAppends, Leave, Writers, TypeOK, TaskTypeOK
    <3> QED
      BY <2>2, <3>2 DEF Inserted, Writers
  <2> QED
    BY <2>1, <2>3 DEF Flowing
<1>18. ASSUME NEW c \in Cancels, CancelFansOut(c)
      PROVE  Goal
  BY <1>18 DEF CancelFansOut, Flowing, ToDone
<1>19. ASSUME NEW c \in Cancels, CancelAppendsUnlocked(c)
      PROVE  Goal
  <2>1. pc' = pc /\ nextSeq' = nextSeq /\ cancelled' = cancelled /\ io' = io
    BY <1>19 DEF CancelAppendsUnlocked, hubVars, taskVars
  <2>2. Taken(nextSeq) => nextSeq \in DOMAIN log'
    BY LogStep DEF LogGrows, Taken
  <2> QED
    BY <2>1, <2>2 DEF Flowing, Fanned, Taken
<1>20. ASSUME NEW c \in Cancels, CancelProjectsUnlocked(c)
      PROVE  Goal
  <2>1. /\ pc' \in ToDone => pc \in ToDone
        /\ nextSeq' = nextSeq /\ log' = log /\ cancelled' = cancelled
        /\ \A q \in Writers : io'[q] \in Inserted <=> io[q] \in Inserted
    BY <1>20 DEF CancelProjectsUnlocked, dbVars, hubVars, taskVars, ToDone, Inserted
  <2> QED
    BY <2>1, FlowSame
<1>21. ASSUME NEW m \in Submits, NEW edited \in SUBSET Sections, SubmitEdits(m, edited)
      PROVE  Goal
  <2>1. /\ pc' \in ToDone => pc \in ToDone
        /\ nextSeq' = nextSeq /\ log' = log /\ cancelled' = cancelled
        /\ \A q \in Writers : io'[q] \in Inserted <=> io[q] \in Inserted
    BY <1>21 DEF SubmitEdits, dbVars, hubVars, taskVars, ToDone, Inserted
  <2> QED
    BY <2>1, FlowSame
<1>22. ASSUME NEW m \in Submits, NEW s \in Sections, SubmitUpserts(m, s)
      PROVE  Goal
  <2>1. /\ pc' \in ToDone => pc \in ToDone
        /\ nextSeq' = nextSeq /\ log' = log /\ cancelled' = cancelled
        /\ \A q \in Writers : io'[q] \in Inserted <=> io[q] \in Inserted
    BY <1>22 DEF SubmitUpserts, dbVars, hubVars, taskVars, ToDone, Inserted
  <2> QED
    BY <2>1, FlowSame
<1>23. ASSUME NEW m \in Submits, SubmitKeeps(m)
      PROVE  Goal
  <2>1. /\ pc' \in ToDone => pc \in ToDone
        /\ nextSeq' = nextSeq /\ log' = log /\ cancelled' = cancelled
        /\ \A q \in Writers : io'[q] \in Inserted <=> io[q] \in Inserted
    BY <1>23 DEF SubmitKeeps, dbVars, hubVars, taskVars, ToDone, Inserted
  <2> QED
    BY <2>1, FlowSame
<1>24. ASSUME NEW m \in Submits, SubmitRefused(m)
      PROVE  Goal
  <2>1. /\ pc' \in ToDone => pc \in ToDone
        /\ nextSeq' = nextSeq /\ log' = log /\ cancelled' = cancelled
        /\ \A q \in Writers : io'[q] \in Inserted <=> io[q] \in Inserted
    BY <1>24 DEF SubmitRefused, dbVars, hubVars, taskVars, ToDone, Inserted
  <2> QED
    BY <2>1, FlowSame
<1>25. ASSUME NEW m \in Submits, SubmitResolves(m)
      PROVE  Goal
  <2>1. /\ pc' \in ToDone => pc \in ToDone
        /\ nextSeq' = nextSeq /\ log' = log /\ cancelled' = cancelled
        /\ \A q \in Writers : io'[q] \in Inserted <=> io[q] \in Inserted
    BY <1>25 DEF SubmitResolves, dbVars, hubVars, taskVars, ToDone, Inserted
  <2> QED
    BY <2>1, FlowSame
<1>26. ASSUME NEW u \in Subscribers, Connects(u)
      PROVE  Goal
  <2>1. /\ pc' \in ToDone => pc \in ToDone
        /\ nextSeq' = nextSeq /\ log' = log /\ cancelled' = cancelled
        /\ \A q \in Writers : io'[q] \in Inserted <=> io[q] \in Inserted
    BY <1>26 DEF Connects, dbVars, hubVars, taskVars, ToDone, Inserted
  <2> QED
    BY <2>1, FlowSame
<1>27. ASSUME NEW u \in Subscribers, RegistersHub(u)
      PROVE  Goal
  BY <1>27 DEF RegistersHub, Control, taskVars, Flowing, ToDone
<1>28. ASSUME NEW u \in Subscribers, ResolvesRun(u)
      PROVE  Goal
  <2>1. /\ pc' \in ToDone => pc \in ToDone
        /\ nextSeq' = nextSeq /\ log' = log /\ cancelled' = cancelled
        /\ \A q \in Writers : io'[q] \in Inserted <=> io[q] \in Inserted
    BY <1>28 DEF ResolvesRun, dbVars, hubVars, taskVars, ToDone, Inserted
  <2> QED
    BY <2>1, FlowSame
<1>29. ASSUME NEW u \in Subscribers, StartsTask(u)
      PROVE  Goal
  BY <1>29
<1>30. ASSUME NEW u \in Subscribers, StartFails(u)
      PROVE  Goal
  <2>1. /\ pc' \in ToDone => pc \in ToDone
        /\ nextSeq' = nextSeq /\ log' = log /\ cancelled' = cancelled
        /\ \A q \in Writers : io'[q] \in Inserted <=> io[q] \in Inserted
    BY <1>30 DEF StartFails, dbVars, hubVars, taskVars, ToDone, Inserted
  <2> QED
    BY <2>1, FlowSame
<1>31. ASSUME NEW u \in Subscribers, Replays(u)
      PROVE  Goal
  <2>1. /\ pc' \in ToDone => pc \in ToDone
        /\ nextSeq' = nextSeq /\ log' = log /\ cancelled' = cancelled
        /\ \A q \in Writers : io'[q] \in Inserted <=> io[q] \in Inserted
    BY <1>31 DEF Replays, dbVars, hubVars, taskVars, ToDone, Inserted
  <2> QED
    BY <2>1, FlowSame
<1>32. ASSUME NEW u \in Subscribers, Delivers(u)
      PROVE  Goal
  <2>1. /\ pc' \in ToDone => pc \in ToDone
        /\ nextSeq' = nextSeq /\ log' = log /\ cancelled' = cancelled
        /\ \A q \in Writers : io'[q] \in Inserted <=> io[q] \in Inserted
    BY <1>32 DEF Delivers, dbVars, hubVars, taskVars, ToDone, Inserted
  <2> QED
    BY <2>1, FlowSame
<1>33. ASSUME NEW u \in Subscribers, Disconnects(u)
      PROVE  Goal
  <2>1. /\ pc' \in ToDone => pc \in ToDone
        /\ nextSeq' = nextSeq /\ log' = log /\ cancelled' = cancelled
        /\ \A q \in Writers : io'[q] \in Inserted <=> io[q] \in Inserted
    BY <1>33 DEF Disconnects, dbVars, hubVars, taskVars, ToDone, Inserted
  <2> QED
    BY <2>1, FlowSame
<1>34. CASE UNCHANGED vars
  BY <1>34, FlowSame DEF vars, dbVars, hubVars, taskVars
<1> QED
  BY <1>1, <1>2, <1>3, <1>4, <1>5, <1>6, <1>7, <1>8, <1>9, <1>10, <1>11, <1>12, <1>13, <1>14,
     <1>15, <1>16, <1>17, <1>18, <1>19, <1>20, <1>21, <1>22, <1>23, <1>24, <1>25, <1>26, <1>27,
     <1>28, <1>29, <1>30, <1>31, <1>32, <1>33, <1>34
     DEF Next, EngineStep, Failure, CancelStep, SubmitStep, SubscriberStep

-----------------------------------------------------------------------------
(* How a subscriber is served *)

\* The step is taken by v: the others notice nothing.
Aside(v) ==
    \A w \in Subscribers \ {v} : sub'[w] = sub[w] /\ queue'[w] = queue[w] /\ got'[w] = got[w]

\* v gets its queue in hub.subscribers.
Attaches(v) ==
    /\ sub'[v] = "attached" /\ pc' # "off"
    /\ queue'[v] = IF pc' = "finished" THEN <<Stop>> ELSE << >>
    /\ got'[v] \in {got[v], << >>}

\* v has no queue that is filled, and was not told that this is the end.
Goes(v) ==
    /\ sub'[v] \notin Registered \cup {"closed"}
    /\ queue'[v] = << >>
    /\ got'[v] \in {got[v], << >>}

LEMMA ServedStep ==
    ASSUME TypeOK, Control, Attended, Served
    PROVE  \/ Restarts
           \/ \E v \in Subscribers :
                 Aside(v) /\ (Attaches(v) \/ Goes(v) \/ Replays(v) \/ Delivers(v))
<1> DEFINE Goal == \E v \in Subscribers :
                       Aside(v) /\ (Attaches(v) \/ Goes(v) \/ Replays(v) \/ Delivers(v))
<1> USE DEF TypeOK, SubscriberTypeOK
<1>1. ASSUME NEW v \in Subscribers, Connects(v)
      PROVE  Goal
  <2>1. Aside(v)
    BY <1>1 DEF Connects, Attach, Aside
  <2>2. got'[v] = << >> /\ pc' = pc
    BY <1>1 DEF Connects, taskVars
  <2>3. CASE hubUp /\ pc # "off"
    <3>1. Attach(v)
      BY <1>1, <2>3, Zenon DEF Connects
    <3>2. Attaches(v)
      BY <2>2, <2>3, <3>1 DEF Attach, Attaches, FirstItems
    <3> QED
      BY <2>1, <3>2
  <2>4. CASE ~(hubUp /\ pc # "off")
    <3>1. queue' = queue /\ sub'[v] \in {"resolve", "register"} /\ sub[v] \notin Registered
      BY <1>1, <2>4 DEF Connects
    <3>2. Goes(v)
      BY <2>2, <3>1 DEF Goes, Attended, Registered
    <3> QED
      BY <2>1, <3>2
  <2> QED
    BY <2>3, <2>4
<1>2. ASSUME NEW v \in Subscribers, RegistersHub(v) \/ ResolvesRun(v) \/ StartFails(v) \/ Disconnects(v)
      PROVE  Goal
  <2>1. Aside(v) /\ sub'[v] \notin Registered \cup {"closed"} /\ got'[v] = got[v]
    BY <1>2 DEF RegistersHub, ResolvesRun, StartFails, Disconnects, Aside, Registered
  <2>2. (queue'[v] = queue[v] /\ sub[v] \notin Registered) \/ queue'[v] = << >>
    BY <1>2 DEF RegistersHub, ResolvesRun, StartFails, Disconnects, Registered
  <2> QED
    BY <2>1, <2>2 DEF Goes, Attended
<1>3. ASSUME NEW v \in Subscribers, StartsTask(v)
      PROVE  Goal
  <2>1. Aside(v) /\ sub'[v] = "attached" /\ got'[v] = got[v] /\ queue'[v] = FirstItems
    BY <1>3 DEF StartsTask, Attach, Aside
  <2>2. pc' \in {"planning", "dropped"} /\ pc = "off"
    BY <1>3 DEF StartsTask, Control
  <2> QED
    BY <2>1, <2>2 DEF Attaches, FirstItems
<1>4. ASSUME NEW v \in Subscribers, Replays(v) \/ Delivers(v)
      PROVE  Goal
  <2>1. Aside(v)
    BY <1>4 DEF Replays, Delivers, Aside
  <2> QED
    BY <1>4, <2>1
<1> HIDE DEF Goal
<1> QED
  BY <1>1, <1>2, <1>3, <1>4, Zenon DEF Served, Goal

\* A turn of the live loop takes the first item of the queue.
LEMMA Delivered ==
    ASSUME TypeOK, NEW v \in Subscribers, Delivers(v)
    PROVE  /\ sub[v] = "live" /\ sub'[v] \in {"live", "closed"}
           /\ Len(queue[v]) \in Nat \ {0} /\ queue[v][1] \in Items
           /\ got'[v] = IF queue[v][1] # Stop /\ Unseen(v, queue[v][1])
                        THEN Append(got[v], queue[v][1]) ELSE got[v]
           /\ sub'[v] = "closed" =>
                  /\ queue'[v] = << >>
                  /\ \/ queue[v][1] = Stop
                     \/ Unseen(v, queue[v][1]) /\ queue[v][1].type \in StreamEnds
           /\ sub'[v] = "live" =>
                  /\ queue[v][1] # Stop
                  /\ Len(queue'[v]) = Len(queue[v]) - 1
                  /\ \A i \in DOMAIN queue'[v] :
                         i + 1 \in DOMAIN queue[v] /\ queue'[v][i] = queue[v][i + 1]
<1> DEFINE item == Head(queue[v])
           ends == item = Stop \/ (Unseen(v, item) /\ item.type \in StreamEnds)
<1>1. queue[v] \in Seq(Items) /\ queue[v] # << >> /\ sub[v] = "live"
  BY DEF Delivers, TypeOK, SubscriberTypeOK
<1>2. item = queue[v][1] /\ Len(queue[v]) \in Nat \ {0} /\ queue[v][1] \in Items
  BY <1>1
<1>3. /\ got' = [got EXCEPT ![v] = IF item # Stop /\ Unseen(v, item)
                                   THEN Append(got[v], item) ELSE got[v]]
      /\ sub' = IF ends THEN [sub EXCEPT ![v] = "closed"] ELSE sub
      /\ queue' = [queue EXCEPT ![v] = IF ends THEN << >> ELSE Tail(queue[v])]
  BY DEF Delivers, TypeOK, SubscriberTypeOK
<1> HIDE DEF item
<1>4. got'[v] = IF item # Stop /\ Unseen(v, item) THEN Append(got[v], item) ELSE got[v]
  BY <1>3 DEF TypeOK, SubscriberTypeOK
<1>5. ends => sub'[v] = "closed" /\ queue'[v] = << >>
  BY <1>3 DEF TypeOK, SubscriberTypeOK
<1>6. ~ends => sub'[v] = "live" /\ queue'[v] = Tail(queue[v])
  BY <1>1, <1>3 DEF TypeOK, SubscriberTypeOK
<1>7. /\ Len(Tail(queue[v])) = Len(queue[v]) - 1
      /\ \A i \in DOMAIN Tail(queue[v]) :
             i + 1 \in DOMAIN queue[v] /\ Tail(queue[v])[i] = queue[v][i + 1]
  BY <1>1
<1> QED
  BY <1>1, <1>2, <1>4, <1>5, <1>6, <1>7

\* After a history without a hole, an event is new if it does not belong to it.
LEMMA UnseenNext ==
    ASSUME TypeOK, NEW u \in Subscribers, Seamless(u), NEW item \in Items
    PROVE  Unseen(u, item) <=> item.seq >= Len(got[u])
<1>1. got[u] \in Seq(Items) /\ item.seq \in Nat
  BY DEF TypeOK, SubscriberTypeOK, Items
<1>2. CASE got[u] = << >>
  BY <1>1, <1>2 DEF Unseen
<1>3. CASE got[u] # << >>
  <2>1. Len(got[u]) \in DOMAIN got[u] /\ Len(got[u]) \in Nat
    BY <1>1, <1>3
  <2>2. got[u][Len(got[u])].seq = Len(got[u]) - 1
    BY <2>1 DEF Seamless
  <2> QED
    BY <1>1, <1>3, <2>1, <2>2 DEF Unseen
<1> QED
  BY <1>2, <1>3

\* A replay has no hole, and it is the whole log if no event of it ends a stream.
LEMMA ReplayShape ==
    ASSUME TypeOK, Numbered, NEW n \in Nat, DOMAIN log = 0 .. (n - 1)
    PROVE  /\ \A i \in DOMAIN Replay : Replay[i].seq = i - 1 /\ Replay[i].type = log[i - 1]
           /\ (\A k \in DOMAIN log : log[k] \notin StreamEnds) => Len(Replay) = n
<1> DEFINE shown == {m \in DOMAIN log : \A k \in DOMAIN log : k < m => log[k] \notin StreamEnds}
<1>1. IsFiniteSet(0 .. (n - 1)) /\ Cardinality(0 .. (n - 1)) = n
  BY FS_Interval
<1>2. Cardinality(shown) \in Nat
  BY <1>1, FS_Subset, FS_CardinalityType
<1> DEFINE k == Cardinality(shown)
<1>3. Replay = [i \in 1 .. k |-> [seq |-> i - 1, type |-> log[i - 1]]]
  BY DEF Replay
<1>4. ASSUME \A m \in DOMAIN log : log[m] \notin StreamEnds
      PROVE  k = n
  <2>1. shown = 0 .. (n - 1)
    BY <1>4
  <2> QED
    BY <1>1, <2>1
<1>5. k \in Nat
  BY <1>2
<1> HIDE DEF k
<1> QED
  BY <1>3, <1>4, <1>5

-----------------------------------------------------------------------------
(* A stream that ends with `done` is complete *)

\* Only a restart takes the run's task away, and it ends with an emission
\* that returns or raises, or with a cancel.
LEMMA TaskStays ==
    ASSUME Control, [Next]_vars
    PROVE  /\ pc' = "off" => pc = "off" \/ Restarts
           /\ pc' = "finished" => \/ pc = "finished"
                                  \/ \E p \in Tasks : FansOut(p) \/ SinkDrops(p) \/ AppendFails(p)
                                  \/ \E c \in Cancels : CancelFansOut(c)
<1> DEFINE Goal == /\ pc' = "off" => pc = "off" \/ Restarts
                   /\ pc' = "finished" => \/ pc = "finished"
                                          \/ \E p \in Tasks : FansOut(p) \/ SinkDrops(p) \/ AppendFails(p)
                                          \/ \E c \in Cancels : CancelFansOut(c)
<1> USE DEF taskVars
<1>1. CASE Approved \/ Researched \/ EngineFails \/ TimesOut
  BY <1>1 DEF Approved, Researched, EngineFails, Raise, TimesOut
<1>2. ASSUME NEW s \in Sections, SectionBegins(s) \/ UpsertPlanned(s) \/ SectionFails(s)
      PROVE  Goal
  BY <1>2 DEF SectionBegins, UpsertPlanned, SectionFails, Raise, Control
<1>3. ASSUME NEW p \in Tasks, Waits(p) \/ Appends(p)
      PROVE  Goal
  BY <1>3 DEF Waits, Appends
<1>4. ASSUME NEW p \in Tasks, SinkDrops(p) \/ FansOut(p) \/ AppendFails(p)
      PROVE  Goal
  <2>1. pc' = "off" => pc = "off"
    BY <1>4 DEF SinkDrops, FansOut, AppendFails, Raise, Return, AfterEmit
  <2> QED
    BY <1>4, <2>1
<1>5. ASSUME NEW p \in Writers, Projects(p)
      PROVE  Goal
  BY <1>5 DEF Projects
<1>6. ASSUME NEW c \in Cancels, CancelReads(c) \/ CancelMarks(c) \/ CancelAppends(c)
      PROVE  Goal
  BY <1>6 DEF CancelReads, CancelMarks, CancelAppends
<1>7. ASSUME NEW c \in Cancels, CancelAppendsUnlocked(c) \/ CancelProjectsUnlocked(c)
      PROVE  Goal
  BY <1>7 DEF CancelAppendsUnlocked, CancelProjectsUnlocked
<1>8. ASSUME NEW m \in Submits, NEW edited \in SUBSET Sections, SubmitEdits(m, edited)
      PROVE  Goal
  BY <1>8 DEF SubmitEdits
<1>9. ASSUME NEW m \in Submits, NEW s \in Sections, SubmitUpserts(m, s)
      PROVE  Goal
  BY <1>9 DEF SubmitUpserts
<1>10. ASSUME NEW m \in Submits, SubmitKeeps(m) \/ SubmitRefused(m) \/ SubmitResolves(m)
       PROVE  Goal
  BY <1>10 DEF SubmitKeeps, SubmitRefused, SubmitResolves
<1>11. ASSUME NEW u \in Subscribers, Connects(u) \/ RegistersHub(u) \/ ResolvesRun(u) \/ StartsTask(u)
       PROVE  Goal
  BY <1>11 DEF Connects, RegistersHub, ResolvesRun, StartsTask
<1>12. ASSUME NEW u \in Subscribers, StartFails(u) \/ Replays(u) \/ Delivers(u) \/ Disconnects(u)
       PROVE  Goal
  BY <1>12 DEF StartFails, Replays, Delivers, Disconnects
<1>13. CASE UNCHANGED vars
  BY <1>13 DEF vars
<1>14. CASE Restarts
  BY <1>14 DEF Restarts
<1>15. ASSUME NEW c \in Cancels, CancelFansOut(c)
       PROVE  Goal
  <2>1. pc' = "off" => pc = "off"
    BY <1>15 DEF CancelFansOut
  <2> QED
    BY <1>15, <2>1
<1> QED
  BY <1>1, <1>2, <1>3, <1>4, <1>5, <1>6, <1>7, <1>8, <1>9, <1>10, <1>11, <1>12, <1>13,
     <1>14, <1>15
     DEF Next, EngineStep, Failure, CancelStep, SubmitStep, SubscriberStep

\* Fanning out and tearing down fill the queues of the registered only.
LEMMA PushedAside ==
    ASSUME TypeOK, NEW items, Pushed(items), NEW u \in Subscribers
    PROVE  /\ sub'[u] = sub[u] /\ got'[u] = got[u]
           /\ queue'[u] = IF sub[u] \in Registered THEN queue[u] \o items ELSE queue[u]
BY DEF Pushed, PushTo

LEMMA LastItems ==
    ASSUME NEW event, NEW items \in {Append(<<event>>, Stop), <<event, Stop>>, <<event>>}
    PROVE  Len(items) \in 1 .. 2 /\ items[1] = event /\ (Len(items) = 2 => items[2] = Stop)
<1>1. CASE items = Append(<<event>>, Stop)
  <2>1. Len(<<event>>) = 1 /\ <<event>>[1] = event
    OBVIOUS
  <2> QED
    BY <1>1, <2>1
<1>2. CASE items = <<event, Stop>> \/ items = <<event>>
  BY <1>2
<1> QED
  BY <1>1, <1>2

\* The task ends by fanning out an outcome.
LEMMA FinalEvent ==
    ASSUME Control, GoneFuture, NEW p \in Tasks, FansOut(p), pc' = "finished"
    PROVE  EventOf(p) \in Terminal
<1>1. io[p] = "projected" /\ p \in Writers
  BY DEF FansOut, Writers
<1>2. p # Engine => pc = "research"
  BY <1>1 DEF Control, Tasks
<1>3. p = Engine /\ AfterEmit(pc) = "finished"
  BY <1>2 DEF FansOut, Return
<1>4. pc = "awaiting_plan" => approval # "cancelled"
  BY <1>1, <1>3 DEF GoneFuture, Ending, Inserted
<1>5. pc \in {"done", "error", "timeout"}
  BY <1>1, <1>3, <1>4 DEF Control, AfterEmit, EmitPcs
<1> QED
  BY <1>3, <1>5, WriterAssumption DEF EventOf, Terminal

LEMMA FansPushes ==
    ASSUME TypeOK, Control, GoneFuture, Writing, Fans
    PROVE  \E p \in Writers, items \in Seq(Items) :
               /\ io[p] = "projected" /\ Written(p) \in Items /\ Pushed(items)
               /\ Len(items) \in 1 .. 2 /\ items[1] = Written(p)
               /\ Len(items) = 2 => items[2] = Stop /\ Written(p).type \in Terminal
<1>1. ASSUME NEW p \in Writers, io[p] = "projected"
      PROVE  /\ Written(p) \in Items
             /\ \A items \in {Append(<<Written(p)>>, Stop), <<Written(p), Stop>>, <<Written(p)>>} :
                    /\ items \in Seq(Items) /\ Len(items) \in 1 .. 2 /\ items[1] = Written(p)
                    /\ Len(items) = 2 => items[2] = Stop
  <2>1. Written(p) \in Items
    BY <1>1, WrittenTyped
  <2> QED
    BY <2>1, EventPushed, LastItems
<1>2. ASSUME NEW p \in Tasks, FansOut(p)
      PROVE  /\ io[p] = "projected" /\ p \in Writers
             /\ \/ Pushed(<<Written(p)>>)
                \/ Pushed(Append(<<Written(p)>>, Stop)) /\ Written(p).type \in Terminal
  <2>1. io[p] = "projected" /\ p \in Writers
    BY <1>2 DEF FansOut, Writers
  <2>2. pc' = "finished" => EventOf(p) \in Terminal
    BY <1>2, FinalEvent
  <2> QED
    BY <1>2, <2>1, <2>2 DEF FansOut, Return, Pushed, Written
<1>3. ASSUME NEW c \in Cancels, CancelFansOut(c)
      PROVE  /\ io[c] = "projected" /\ c \in Writers
             /\ Pushed(<<Written(c)>>) \/ Pushed(<<Written(c), Stop>>)
             /\ Written(c).type \in Terminal
  BY <1>3 DEF CancelFansOut, LastWords, Pushed, Writers, Written, EventOf, Terminal
<1> DEFINE Goal == \E p \in Writers, items \in Seq(Items) :
               /\ io[p] = "projected" /\ Written(p) \in Items /\ Pushed(items)
               /\ Len(items) \in 1 .. 2 /\ items[1] = Written(p)
               /\ Len(items) = 2 => items[2] = Stop /\ Written(p).type \in Terminal
<1>4. ASSUME NEW p \in Writers, io[p] = "projected", Pushed(<<Written(p)>>)
      PROVE  Goal
  <2> DEFINE one == <<Written(p)>>
  <2>1. Len(one) = 1
    OBVIOUS
  <2>2. /\ Written(p) \in Items /\ one \in Seq(Items) /\ Len(one) \in 1 .. 2
        /\ one[1] = Written(p) /\ Pushed(one)
    BY <1>1, <1>4
  <2> HIDE DEF one
  <2> QED
    BY <1>4, <2>1, <2>2
<1>5. ASSUME NEW p \in Writers, io[p] = "projected", Written(p).type \in Terminal,
             Pushed(<<Written(p), Stop>>) \/ Pushed(Append(<<Written(p)>>, Stop))
      PROVE  Goal
  BY <1>1, <1>5
<1> QED
  BY <1>2, <1>3, <1>4, <1>5 DEF Fans

\* Every step keeps Attended.
LEMMA AttendedStep ==
    ASSUME TypeOK, Control, GoneFuture, Queued, Writing, Attended, [Next]_vars
    PROVE  Attended'
<1>0. pc' = "off" => pc = "off" \/ Restarts
  BY TaskStays
<1>1. CASE Restarts
  BY <1>1 DEF Restarts, Attended, Registered
<1>2. ASSUME ~Restarts, \A u \in Subscribers : sub'[u] = sub[u],
             \A u \in Subscribers : sub[u] \notin Registered => queue'[u] = queue[u]
      PROVE  Attended'
  BY <1>0, <1>2 DEF Attended
<1>3. ASSUME ~Restarts, NEW items, Pushed(items)
      PROVE  Attended'
  BY <1>2, <1>3, PushedAside
<1>4. ASSUME ~Restarts, NEW v \in Subscribers, Aside(v),
             Attaches(v) \/ Goes(v) \/ Replays(v) \/ Delivers(v)
      PROVE  Attended'
  <2>1. sub'[v] \in Registered => (sub'[v] = "attached" /\ pc' # "off") \/ sub[v] \in Registered
    BY <1>4 DEF Attaches, Goes, Replays, Delivers, Registered
  <2>2. sub'[v] \notin Registered => queue'[v] = << >>
    BY <1>4, Delivered DEF Attaches, Goes, Replays, Registered, TypeOK, SubscriberTypeOK
  <2> QED
    BY <1>4, <1>0, <2>1, <2>2 DEF Attended, Aside
<1> QED
  BY <1>1, <1>2, <1>3, <1>4, ReadersStep, FansPushes, ServedStep DEF Torn

\* Every step keeps QueueJoins.
LEMMA QueueJoinsStep ==
    ASSUME TypeOK, TypeOK', Control, Queued, Numbered, Writing, CancelMarked, WritesLast,
           Attended, QueueJoins, [Next]_vars
    PROVE  QueueJoins'
<1> DEFINE Joins(u) ==
        /\ \A i \in DOMAIN queue[u] : /\ queue[u][i] # Stop
                                      /\ queue[u][i].seq = Fanned - Len(queue[u]) + i - 1
        /\ sub[u] = "live" => Seamless(u) /\ Fanned - Len(queue[u]) <= Len(got[u])
<1> SUFFICES ASSUME Flowing', NEW u \in Subscribers, sub'[u] \in Registered
             PROVE  Joins(u)'
  BY DEF QueueJoins
<1>0. Fanned \in Int
  BY DEF TypeOK, HubTypeOK, Fanned
<1>1. /\ queue[u] \in Seq(Items) /\ got[u] \in Seq(Items)
      /\ queue'[u] \in Seq(Items) /\ got'[u] \in Seq(Items)
  BY DEF TypeOK, SubscriberTypeOK
<1>9. /\ Len(queue[u]) \in Nat /\ Len(got[u]) \in Nat
      /\ Len(queue'[u]) \in Nat /\ Len(got'[u]) \in Nat
  BY <1>1
<1> HIDE DEF Flowing
<1>2. Flowing /\ sub[u] \in Registered => Joins(u)
  BY DEF QueueJoins
<1>3. ASSUME Flowing, Fanned' = Fanned, sub'[u] = sub[u], queue'[u] = queue[u], got'[u] = got[u]
      PROVE  Joins(u)'
  BY <1>2, <1>3 DEF Seamless
<1>4. ASSUME NEW p \in Tasks, FansOut(p), Flowing
      PROVE  Joins(u)'
  <2>1. io[p] \in Inserted /\ p \in Writers
    BY <1>4 DEF FansOut, Inserted, Writers
  <2>2. Fanned = nextSeq - 1 /\ nextSeq \in Nat
    BY <2>1 DEF Fanned, TypeOK, HubTypeOK
  <2>3. \A q \in Writers : io'[q] \notin Inserted
    BY <1>4, <2>1, LockExcludes DEF FansOut, Leave, Inserted
  <2>4. nextSeq' = nextSeq
    BY <1>4 DEF FansOut, hubVars
  <2>5. Fanned' = nextSeq
    BY <2>3, <2>4 DEF Fanned
  <2>6. pc' # "finished"
    BY DEF Flowing, ToDone
  <2>7. Pushed(<<Written(p)>>)
    BY <1>4, <2>6 DEF FansOut, Return, Pushed
  <2>8. Written(p) \in Items /\ Written(p).seq = nextSeq - 1 /\ Written(p).seq \in DOMAIN log
    BY <2>1, WrittenTyped, WrittenLogged DEF Written, Inserted
  <2>9. Written(p) # Stop
    <3>1. Written(p).type = EventOf(p) /\ EventOf(p) \in EventTypes
      BY <2>1, EventTyped DEF Written, Inserted
    <3> QED
      BY <3>1 DEF Stop, EventTypes, StatusEvents, SectionEvents
  <2> DEFINE event == Written(p)
  <2> HIDE DEF event
  <2>10. /\ sub'[u] = sub[u] /\ got'[u] = got[u] /\ queue'[u] = queue[u] \o <<event>>
    BY <2>7, PushedAside DEF event
  <2>11. /\ Len(queue'[u]) = Len(queue[u]) + 1
         /\ \A i \in DOMAIN queue'[u] :
                IF i = Len(queue[u]) + 1 THEN queue'[u][i] = event
                ELSE i \in DOMAIN queue[u] /\ queue'[u][i] = queue[u][i]
    BY <1>1, <2>8, <2>10 DEF event
  <2>12. Joins(u)
    BY <1>2, <1>4, <2>10
  <2>13. event # Stop /\ event.seq = nextSeq - 1
    BY <2>8, <2>9 DEF event
  <2>14. ASSUME NEW i \in DOMAIN queue'[u]
         PROVE  queue'[u][i] # Stop /\ queue'[u][i].seq = Fanned' - Len(queue'[u]) + i - 1
    <3>1. i \in Nat /\ Len(queue[u]) \in Nat
      BY <1>1
    <3>2. CASE i = Len(queue[u]) + 1
      BY <2>2, <2>5, <2>11, <2>13, <3>1, <3>2
    <3>3. CASE i # Len(queue[u]) + 1
      <4>1. queue[u][i] # Stop /\ queue[u][i].seq = Fanned - Len(queue[u]) + i - 1
        BY <2>11, <2>12, <3>3
      <4>2. queue'[u][i] = queue[u][i]
        BY <2>11, <3>3
      <4> DEFINE l == Len(queue[u])
      <4>3. l \in Nat /\ queue[u][i].seq = (nextSeq - 1) - l + i - 1 /\ Len(queue'[u]) = l + 1
        BY <1>9, <2>2, <2>11, <4>1
      <4> HIDE DEF l
      <4>4. queue[u][i].seq = nextSeq - (l + 1) + i - 1
        BY <2>2, <3>1, <4>3
      <4> QED
        BY <2>5, <4>1, <4>2, <4>3, <4>4
    <3> QED
      BY <3>2, <3>3
  <2>15. ASSUME sub[u] = "live"
         PROVE  Seamless(u)' /\ Fanned' - Len(queue'[u]) <= Len(got'[u])
    <3>1. Seamless(u) /\ Fanned - Len(queue[u]) <= Len(got[u])
      BY <2>12, <2>15
    <3>2. Seamless(u)'
      BY <2>10, <3>1 DEF Seamless
    <3>3. Len(queue[u]) \in Nat /\ Len(got[u]) \in Nat
      BY <1>1
    <3> QED
      <4> DEFINE l == Len(queue[u])
                 g == Len(got[u])
      <4>1. l \in Nat /\ g \in Nat /\ (nextSeq - 1) - l <= g
        BY <2>2, <3>1, <3>3
      <4> HIDE DEF l, g
      <4>2. nextSeq - (l + 1) <= g
        BY <2>2, <4>1
      <4> QED
        BY <2>5, <2>10, <2>11, <3>2, <4>2 DEF l, g
  <2> QED
    BY <2>10, <2>14, <2>15
<1>5. ASSUME NEW v \in Subscribers, StartsTask(v)
      PROVE  Joins(u)'
  <2>1. pc = "off" /\ Attach(v)
    BY <1>5 DEF StartsTask, Control
  <2>2. sub[u] \notin Registered
    BY <2>1 DEF Attended
  <2>3. u = v
    BY <2>1, <2>2 DEF Attach, TypeOK, SubscriberTypeOK
  <2>4. queue'[u] = << >> /\ sub'[u] = "attached"
    BY <2>1, <2>3 DEF Attach, FirstItems, TypeOK, SubscriberTypeOK
  <2> QED
    BY <2>4
<1>6. ASSUME Flowing, Fanned' = Fanned, NEW v \in Subscribers, Aside(v),
             Attaches(v) \/ Goes(v) \/ Replays(v) \/ Delivers(v)
      PROVE  Joins(u)'
  <2>1. CASE u # v
    BY <1>3, <1>6, <2>1 DEF Aside
  <2>2. CASE u = v /\ Attaches(v)
    <3>1. queue'[u] = << >> /\ sub'[u] = "attached"
      BY <2>2 DEF Attaches, Flowing, ToDone
    <3> QED
      BY <3>1
  <2>3. CASE u = v /\ Goes(v)
    BY <2>3 DEF Goes
  <2>4. CASE u = v /\ Replays(v)
    <3>1. sub'[u] = "live" /\ sub[u] \in Registered /\ queue'[u] = queue[u] /\ got'[u] = Replay
          /\ \A n \in DOMAIN log : log[n] \notin StreamEnds
      BY <2>4 DEF Replays, Registered, TypeOK, SubscriberTypeOK
    <3>2. PICK n \in Nat : DOMAIN log = 0 .. (n - 1) /\ nextSeq <= n
      BY DEF Numbered
    <3>3. Len(got'[u]) = n /\ \A i \in DOMAIN got'[u] : got'[u][i].seq = i - 1
      BY <3>1, <3>2, ReplayShape
    <3>4. Fanned <= n
      BY <3>2 DEF Fanned, TypeOK, HubTypeOK
    <3>5. Joins(u)
      BY <1>2, <1>6, <3>1
    <3>6. Fanned' - Len(queue'[u]) <= Len(got'[u])
      BY <1>0, <1>9, <1>6, <3>1, <3>2, <3>3, <3>4, <3>5
    <3> QED
      BY <1>6, <3>1, <3>3, <3>5, <3>6 DEF Seamless
  <2>5. CASE u = v /\ Delivers(v)
    <3> DEFINE item == queue[u][1]
    <3>1. /\ sub[u] = "live" /\ sub'[u] = "live" /\ item # Stop /\ item \in Items
          /\ Len(queue[u]) \in Nat \ {0}
          /\ Len(queue'[u]) = Len(queue[u]) - 1
          /\ \A i \in DOMAIN queue'[u] :
                 i + 1 \in DOMAIN queue[u] /\ queue'[u][i] = queue[u][i + 1]
          /\ got'[u] = IF Unseen(u, item) THEN Append(got[u], item) ELSE got[u]
      BY <2>5, Delivered DEF Registered
    <3>2. Seamless(u) /\ Fanned - Len(queue[u]) <= Len(got[u])
      BY <1>2, <1>6, <3>1 DEF Registered
    <3>3. \A i \in DOMAIN queue[u] :
              queue[u][i] # Stop /\ queue[u][i].seq = Fanned - Len(queue[u]) + i - 1
      BY <1>2, <1>6, <3>1 DEF Registered
    <3>4. 1 \in DOMAIN queue[u] /\ Len(got[u]) \in Nat
      BY <1>1, <3>1
    <3>5. item.seq = Fanned - Len(queue[u]) /\ item.seq \in Nat
      BY <1>0, <1>9, <3>1, <3>3, <3>4 DEF Items
    <3>6. Unseen(u, item) <=> item.seq >= Len(got[u])
      BY <3>1, <3>2, UnseenNext
    <3> HIDE DEF item
    <3>7. ASSUME NEW i \in DOMAIN queue'[u]
          PROVE  queue'[u][i] # Stop /\ queue'[u][i].seq = Fanned' - Len(queue'[u]) + i - 1
      <4>1. i \in Nat
        BY <1>1
      <4>2. queue[u][i + 1] # Stop /\ queue[u][i + 1].seq = Fanned - Len(queue[u]) + (i + 1) - 1
        BY <3>1, <3>3
      <4> DEFINE l == Len(queue[u])
      <4>3. l \in Nat /\ queue[u][i + 1].seq = Fanned - l + (i + 1) - 1 /\ Len(queue'[u]) = l - 1
        BY <1>9, <3>1, <4>2
      <4> HIDE DEF l
      <4>4. Fanned - l + (i + 1) - 1 = Fanned - (l - 1) + i - 1
        BY <1>0, <4>1, <4>3
      <4> QED
        BY <1>6, <3>1, <4>2, <4>3, <4>4
    <3>8. CASE Unseen(u, item)
      <4>1. item.seq = Len(got[u]) /\ got'[u] = Append(got[u], item)
        BY <3>1, <3>2, <3>4, <3>5, <3>6, <3>8
      <4>2. /\ Len(got'[u]) = Len(got[u]) + 1
            /\ \A i \in DOMAIN got'[u] : IF i = Len(got[u]) + 1 THEN got'[u][i] = item
                                         ELSE i \in DOMAIN got[u] /\ got'[u][i] = got[u][i]
        BY <1>1, <3>1, <4>1
      <4>3. Seamless(u)'
        BY <3>2, <3>4, <4>1, <4>2 DEF Seamless
      <4> DEFINE l == Len(queue[u])
                 g == Len(got[u])
      <4>4. /\ l \in Nat /\ g \in Nat /\ Fanned - l <= g /\ Fanned' = Fanned
            /\ Len(queue'[u]) = l - 1 /\ Len(got'[u]) = g + 1
        BY <1>9, <1>6, <3>1, <3>2, <4>2
      <4> HIDE DEF l, g
      <4>5. Fanned - (l - 1) <= g + 1
        BY <1>0, <4>4
      <4>6. Fanned' - Len(queue'[u]) <= Len(got'[u])
        BY <4>4, <4>5
      <4> QED
        BY <3>7, <4>3, <4>6
    <3>9. CASE ~Unseen(u, item)
      <4>1. got'[u] = got[u] /\ item.seq < Len(got[u])
        BY <3>1, <3>4, <3>5, <3>6, <3>9
      <4> DEFINE l == Len(queue[u])
                 g == Len(got[u])
      <4>2. /\ l \in Nat /\ g \in Nat /\ Fanned - l < g /\ Fanned' = Fanned
            /\ Len(queue'[u]) = l - 1 /\ Len(got'[u]) = g
        BY <1>9, <1>6, <3>1, <3>5, <4>1
      <4> HIDE DEF l, g
      <4>3. Fanned - (l - 1) <= g
        BY <1>0, <4>2
      <4>4. Fanned' - Len(queue'[u]) <= Len(got'[u])
        BY <4>2, <4>3
      <4> QED
        BY <3>2, <3>7, <4>1, <4>4 DEF Seamless
    <3> QED
      BY <3>8, <3>9
  <2> QED
    BY <1>6, <2>1, <2>2, <2>3, <2>4, <2>5
<1>7. CASE Flowing /\ Fanned' = Fanned
  <2>1. CASE UNCHANGED <<sub, queue, got>>
    BY <1>3, <1>7, <2>1
  <2>2. CASE Torn
    BY <2>2 DEF Torn
  <2>3. CASE Fans
    <3>1. ASSUME NEW c \in Cancels, CancelFansOut(c)
          PROVE  FALSE
      BY <3>1 DEF CancelFansOut, Flowing, ToDone
    <3> QED
      BY <1>4, <1>7, <2>3, <3>1 DEF Fans
  <2>4. CASE Served
    <3>1. ~Restarts
      BY DEF Restarts, Flowing, ToDone
    <3> QED
      BY <1>6, <1>7, <2>4, <3>1, ServedStep
  <2> QED
    BY <2>1, <2>2, <2>3, <2>4, ReadersStep
<1> QED
  BY <1>4, <1>5, <1>7, FlowStep

\* A `done` that is fanned out was written by a run that flowed.
LEMMA DoneFlows ==
    ASSUME TypeOK, Control, WritesLast, NEW p \in Writers, io[p] = "projected",
           EventOf(p) = "done"
    PROVE  Flowing /\ Fanned = Written(p).seq
<1>1. p \in Tasks
  BY DEF EventOf, Writers
<1>2. p = Engine /\ pc \in Ending
  BY <1>1, OutcomeEmitted DEF Terminal
<1>3. Engine \notin Cancels \cup Sections
  BY WriterAssumption
<1>4. pc = "done"
  BY <1>2, <1>3 DEF EventOf, Ending
<1>5. ~Taken(nextSeq) /\ io[p] \in Inserted
  BY DEF WritesLast, Inserted
<1> QED
  BY <1>1, <1>4, <1>5 DEF Flowing, Fanned, ToDone, Written

\* Filling a queue keeps the items it has.
LEMMA PushExtends ==
    ASSUME TypeOK, NEW items \in Seq(Items), Pushed(items), NEW u \in Subscribers
    PROVE  /\ sub'[u] = sub[u] /\ got'[u] = got[u]
           /\ Len(queue[u]) \in Nat
           /\ \A i \in DOMAIN queue[u] : i \in DOMAIN queue'[u] /\ queue'[u][i] = queue[u][i]
           /\ \A i \in DOMAIN queue'[u] :
                  \/ i \in DOMAIN queue[u]
                  \/ /\ sub[u] \in Registered /\ i - Len(queue[u]) \in 1 .. Len(items)
                     /\ queue'[u][i] = items[i - Len(queue[u])]
<1>1. queue[u] \in Seq(Items)
  BY DEF TypeOK, SubscriberTypeOK
<1>2. /\ sub'[u] = sub[u] /\ got'[u] = got[u]
      /\ queue'[u] = IF sub[u] \in Registered THEN queue[u] \o items ELSE queue[u]
  BY PushedAside
<1>3. CASE sub[u] \notin Registered
  BY <1>1, <1>2, <1>3
<1>4. CASE sub[u] \in Registered
  <2>1. queue'[u] = queue[u] \o items
    BY <1>2, <1>4
  <2> DEFINE q == queue[u]
  <2>2. q \in Seq(Items) /\ queue'[u] = q \o items
    BY <1>1, <2>1
  <2> HIDE DEF q
  <2>3. /\ Len(q) \in Nat /\ DOMAIN q = 1 .. Len(q) /\ DOMAIN (q \o items) = 1 .. Len(q) + Len(items)
        /\ \A i \in 1 .. Len(q) + Len(items) :
               (q \o items)[i] = IF i <= Len(q) THEN q[i] ELSE items[i - Len(q)]
    BY <2>2
  <2>4. Len(items) \in Nat
    OBVIOUS
  <2>5. \A i \in DOMAIN q : i \in DOMAIN queue'[u] /\ queue'[u][i] = q[i]
    BY <2>2, <2>3, <2>4
  <2>6. ASSUME NEW i \in DOMAIN queue'[u], i \notin DOMAIN q
        PROVE  i - Len(q) \in 1 .. Len(items) /\ queue'[u][i] = items[i - Len(q)]
    BY <2>2, <2>3, <2>4, <2>6
  <2> QED
    BY <1>2, <1>4, <2>3, <2>5, <2>6 DEF q
<1> QED
  BY <1>3, <1>4

\* Every step keeps DoneJoins.
LEMMA DoneJoinsStep ==
    ASSUME TypeOK, TypeOK', Control, GoneFuture, Queued, Writing, SentWasPersisted, WritesLast,
           Attended, QueueJoins, DoneJoins, [Next]_vars
    PROVE  DoneJoins'
<1> DEFINE Joins(u, i) ==
        /\ Seamless(u)
        /\ \A j \in 1 .. i : /\ queue[u][j] # Stop
                             /\ queue[u][j].seq = queue[u][i].seq - i + j
        /\ queue[u][i].seq - i < Len(got[u])
<1> SUFFICES ASSUME NEW u \in Subscribers, sub'[u] = "live",
                    NEW i \in DOMAIN queue'[u], queue'[u][i].type = "done"
             PROVE  Joins(u, i)'
  BY DEF DoneJoins
<1>1. sub[u] = "live" /\ i \in DOMAIN queue[u] /\ queue[u][i].type = "done" => Joins(u, i)
  BY DEF DoneJoins
<1>2. i \in Nat /\ DOMAIN queue[u] = 1 .. Len(queue[u]) /\ Len(queue[u]) \in Nat
      /\ got[u] \in Seq(Items) /\ Len(got[u]) \in Nat
  BY DEF TypeOK, SubscriberTypeOK
<1>3. ASSUME sub'[u] = sub[u], got'[u] = got[u], i \in DOMAIN queue[u],
             \A j \in DOMAIN queue[u] : queue'[u][j] = queue[u][j]
      PROVE  Joins(u, i)'
  <2>1. Joins(u, i)
    BY <1>1, <1>3
  <2>2. \A j \in 1 .. i : queue'[u][j] = queue[u][j]
    BY <1>2, <1>3
  <2> QED
    BY <1>3, <2>1, <2>2 DEF Seamless
<1>4. CASE UNCHANGED <<sub, queue, got>>
  BY <1>3, <1>4
<1>5. ASSUME NEW items \in Seq(Items), Pushed(items), i \in DOMAIN queue[u]
      PROVE  Joins(u, i)'
  BY <1>3, <1>5, PushExtends
<1>6. CASE Torn
  <2>1. PICK items \in {<<Stop>>, << >>} : Pushed(items)
    BY <1>6 DEF Torn
  <2>2. items \in Seq(Items) /\ \A j \in DOMAIN items : items[j] = Stop
    BY <2>1, StopPushed
  <2>3. i \in DOMAIN queue[u]
    BY <2>1, <2>2, PushExtends DEF Stop
  <2> QED
    BY <1>5, <2>1, <2>2, <2>3
<1>7. CASE Fans
  <2>1. PICK p \in Writers, items \in Seq(Items) :
               /\ io[p] = "projected" /\ Written(p) \in Items /\ Pushed(items)
               /\ Len(items) \in 1 .. 2 /\ items[1] = Written(p)
               /\ Len(items) = 2 => items[2] = Stop /\ Written(p).type \in Terminal
    BY <1>7, FansPushes
  <2>2. CASE i \in DOMAIN queue[u]
    BY <1>5, <2>1, <2>2
  <2>3. CASE i \notin DOMAIN queue[u]
    <3>1. /\ sub'[u] = sub[u] /\ got'[u] = got[u] /\ sub[u] \in Registered
          /\ i - Len(queue[u]) \in 1 .. Len(items) /\ queue'[u][i] = items[i - Len(queue[u])]
          /\ \A j \in DOMAIN queue[u] : queue'[u][j] = queue[u][j]
      BY <2>1, <2>3, PushExtends
    <3>2. i - Len(queue[u]) = 1
      BY <2>1, <3>1 DEF Stop
    <3> DEFINE l == Len(queue[u])
               g == Len(got[u])
               event == Written(p)
    <3>3. l \in Nat /\ g \in Nat /\ i = l + 1 /\ queue'[u][i] = event
      BY <1>2, <2>1, <3>1, <3>2
    <3>4. event.type = "done" /\ event.type = EventOf(p) /\ event.seq \in Nat /\ event # Stop
      BY <2>1, <3>3 DEF Written, Stop, Items
    <3>5. Flowing /\ Fanned = event.seq
      BY <2>1, <3>4, DoneFlows
    <3>6. /\ \A j \in DOMAIN queue[u] : /\ queue[u][j] # Stop
                                        /\ queue[u][j].seq = Fanned - l + j - 1
          /\ Seamless(u) /\ Fanned - l <= g
      BY <3>1, <3>5 DEF QueueJoins
    <3>7. DOMAIN queue[u] = 1 .. l
      BY <1>2
    <3> HIDE DEF l, g, event
    <3>8. ASSUME NEW j \in 1 .. l
          PROVE  queue'[u][j] # Stop /\ queue'[u][j].seq = event.seq - i + j
      <4>1. j \in Int /\ queue[u][j] # Stop /\ queue[u][j].seq = Fanned - l + j - 1
        BY <3>3, <3>6, <3>7
      <4>2. Fanned - l + j - 1 = event.seq - i + j
        BY <3>3, <3>4, <3>5, <4>1
      <4> QED
        BY <3>1, <3>7, <4>1, <4>2
    <3>9. event.seq - i < g
      BY <3>3, <3>4, <3>5, <3>6
    <3>10. \A j \in 1 .. i : queue'[u][j] # Stop /\ queue'[u][j].seq = event.seq - i + j
      BY <3>3, <3>4, <3>8
    <3>11. Seamless(u)' /\ Len(got'[u]) = g
      BY <3>1, <3>6 DEF Seamless, g
    <3> QED
      BY <3>3, <3>9, <3>10, <3>11
  <2> QED
    BY <2>2, <2>3
<1>8. ASSUME NEW v \in Subscribers, Aside(v), Attaches(v) \/ Goes(v) \/ Replays(v) \/ Delivers(v)
      PROVE  Joins(u, i)'
  <2>1. CASE u # v
    BY <1>3, <1>8, <2>1 DEF Aside
  <2>2. CASE u = v /\ (Attaches(v) \/ Goes(v))
    BY <2>2 DEF Attaches, Goes, Registered
  <2>3. CASE u = v /\ Replays(v)
    <3>1. queue'[u] = queue[u] /\ \A n \in DOMAIN log : log[n] \notin StreamEnds
      BY <2>3 DEF Replays, TypeOK, SubscriberTypeOK
    <3>2. queue[u][i] # Stop
      BY <3>1 DEF Stop
    <3>3. log[queue[u][i].seq] = "done" /\ queue[u][i].seq \in DOMAIN log
      BY <3>1, <3>2 DEF SentWasPersisted
    <3> QED
      BY <3>1, <3>3 DEF StreamEnds
  <2>4. CASE u = v /\ Delivers(v)
    <3> DEFINE item == queue[u][1]
               last == queue[u][i + 1]
    <3>1. /\ sub[u] = "live" /\ item # Stop /\ item \in Items
          /\ i + 1 \in DOMAIN queue[u] /\ queue'[u][i] = last
          /\ \A j \in DOMAIN queue'[u] :
                 j + 1 \in DOMAIN queue[u] /\ queue'[u][j] = queue[u][j + 1]
          /\ got'[u] = IF Unseen(u, item) THEN Append(got[u], item) ELSE got[u]
      BY <2>4, Delivered
    <3>2. /\ Seamless(u)
          /\ \A j \in 1 .. (i + 1) : /\ queue[u][j] # Stop
                                     /\ queue[u][j].seq = last.seq - (i + 1) + j
          /\ last.seq - (i + 1) < Len(got[u])
      BY <3>1 DEF DoneJoins
    <3>3. last.seq \in Nat /\ last \in Items
      <4>1. queue[u] \in Seq(Items)
        BY DEF TypeOK, SubscriberTypeOK
      <4>2. last \in Items
        BY <3>1, <4>1
      <4> QED
        BY <4>2 DEF Items
    <3>4. i \in Nat \ {0} /\ DOMAIN queue'[u] = 1 .. Len(queue'[u]) /\ Len(queue'[u]) \in Nat
      BY DEF TypeOK, SubscriberTypeOK
    <3>5. item.seq = last.seq - i
      <4>1. item.seq = last.seq - (i + 1) + 1
        BY <3>2, <3>4
      <4> DEFINE d == last.seq
      <4>2. d \in Nat
        BY <3>3
      <4> HIDE DEF d
      <4>3. d - (i + 1) + 1 = d - i
        BY <3>4, <4>2
      <4> QED
        BY <4>1, <4>3 DEF d
    <3>6. Unseen(u, item) <=> item.seq >= Len(got[u])
      BY <3>1, <3>2, UnseenNext
    <3> DEFINE g == Len(got[u])
    <3>7. g \in Nat /\ last.seq - (i + 1) < g
      BY <1>2, <3>2
    <3> HIDE DEF item, last
    <3>8. ASSUME NEW j \in 1 .. i
          PROVE  queue'[u][j] # Stop /\ queue'[u][j].seq = last.seq - i + j
      <4>1. j \in DOMAIN queue'[u] /\ j + 1 \in 1 .. (i + 1) /\ j \in Nat
        BY <3>4
      <4>2. queue'[u][j] = queue[u][j + 1]
        BY <3>1, <4>1
      <4>3. queue[u][j + 1] # Stop /\ queue[u][j + 1].seq = last.seq - (i + 1) + (j + 1)
        BY <3>2, <4>1
      <4> QED
        BY <3>3, <3>4, <4>1, <4>2, <4>3
    <3>9. CASE Unseen(u, item)
      <4>1. item.seq >= g /\ got'[u] = Append(got[u], item)
        BY <3>1, <3>6, <3>9
      <4>2. /\ Len(got'[u]) = g + 1
            /\ \A k \in DOMAIN got'[u] : IF k = g + 1 THEN got'[u][k] = item
                                         ELSE k \in DOMAIN got[u] /\ got'[u][k] = got[u][k]
        BY <1>2, <3>1, <4>1
      <4> HIDE DEF g
      <4>3. item.seq = g
        <5> DEFINE d == last.seq
        <5>1. d \in Nat /\ d - (i + 1) < g /\ d - i >= g
          BY <3>3, <3>5, <3>7, <4>1
        <5> HIDE DEF d
        <5>2. d - i = g
          BY <3>4, <3>7, <5>1
        <5> QED
          BY <3>5, <5>2 DEF d
      <4>4. Seamless(u)'
        BY <3>2, <3>7, <4>2, <4>3 DEF Seamless
      <4>5. last.seq - i < g + 1
        BY <3>3, <3>4, <3>7
      <4> QED
        BY <3>1, <3>8, <4>2, <4>4, <4>5
    <3>10. CASE ~Unseen(u, item)
      <4>1. got'[u] = got[u] /\ item.seq < g
        BY <3>1, <3>3, <3>4, <3>5, <3>6, <3>7, <3>10
      <4>2. Seamless(u)'
        BY <3>2, <4>1 DEF Seamless
      <4> QED
        BY <3>1, <3>5, <3>8, <4>1, <4>2
    <3> QED
      BY <3>9, <3>10
  <2> QED
    BY <1>8, <2>1, <2>2, <2>3, <2>4
<1>9. CASE Restarts
  BY <1>9 DEF Restarts
<1> QED
  BY <1>4, <1>6, <1>7, <1>8, <1>9, ReadersStep, ServedStep

\* Every step keeps DoneStreamComplete.
LEMMA DoneCompleteStep ==
    ASSUME TypeOK, TypeOK', Control, GoneFuture, Queued, Numbered, Writing, Attended, DoneJoins,
           DoneStreamComplete, [Next]_vars
    PROVE  DoneStreamComplete'
<1> SUFFICES ASSUME NEW u \in Subscribers, NEW i \in DOMAIN got'[u], got'[u][i].type = "done"
             PROVE  got'[u][i].seq = i - 1
  BY DEF DoneStreamComplete
<1>1. CASE got'[u] = got[u]
  BY <1>1 DEF DoneStreamComplete
<1>2. CASE got'[u] = << >>
  BY <1>2
<1>3. ASSUME NEW v \in Subscribers, Aside(v), Attaches(v) \/ Goes(v) \/ Replays(v) \/ Delivers(v)
      PROVE  got'[u][i].seq = i - 1
  <2>1. CASE u # v \/ Attaches(v) \/ Goes(v)
    BY <1>1, <1>2, <1>3, <2>1 DEF Aside, Attaches, Goes
  <2>2. CASE u = v /\ Replays(v)
    <3>1. got'[u] = Replay
      BY <2>2 DEF Replays, TypeOK, SubscriberTypeOK
    <3> QED
      BY <3>1, ReplayShape DEF Numbered
  <2>3. CASE u = v /\ Delivers(v)
    <3> DEFINE item == queue[u][1]
               g == Len(got[u])
    <3>1. /\ sub[u] = "live" /\ 1 \in DOMAIN queue[u] /\ item \in Items
          /\ got'[u] = IF item # Stop /\ Unseen(u, item) THEN Append(got[u], item) ELSE got[u]
      <4>1. queue[u] \in Seq(Items)
        BY DEF TypeOK, SubscriberTypeOK
      <4> QED
        BY <2>3, <4>1, Delivered
    <3> HIDE DEF item
    <3>2. CASE item # Stop /\ Unseen(u, item)
      <4>1. got[u] \in Seq(Items) /\ got'[u] = Append(got[u], item)
        BY <3>1, <3>2 DEF TypeOK, SubscriberTypeOK
      <4>2. /\ g \in Nat
            /\ IF i = g + 1 THEN got'[u][i] = item
               ELSE i \in DOMAIN got[u] /\ got'[u][i] = got[u][i]
        BY <3>1, <4>1
      <4>3. ASSUME item.type = "done"
            PROVE  item.seq = g
        <5>1. Seamless(u) /\ item.seq - 1 < g
          BY <3>1, <4>3 DEF DoneJoins, item
        <5>2. item.seq >= g /\ item.seq \in Nat
          BY <3>1, <3>2, <5>1, UnseenNext DEF Items
        <5> HIDE DEF g
        <5> QED
          BY <4>2, <5>1, <5>2
      <4> HIDE DEF g
      <4>4. CASE i = g + 1
        BY <4>2, <4>3, <4>4
      <4>5. CASE i # g + 1
        BY <4>2, <4>5 DEF DoneStreamComplete
      <4> QED
        BY <4>4, <4>5
    <3>3. CASE ~(item # Stop /\ Unseen(u, item))
      BY <1>1, <3>1, <3>3
    <3> QED
      BY <3>2, <3>3
  <2> QED
    BY <1>3, <2>1, <2>2, <2>3
<1>4. CASE Restarts
  BY <1>2, <1>4 DEF Restarts
<1>5. CASE Torn \/ Fans
  BY <1>1, <1>5, FansPushes DEF Torn, Pushed
<1> QED
  BY <1>1, <1>3, <1>4, <1>5, ReadersStep, ServedStep

ReaderInv == Attended /\ QueueJoins /\ DoneJoins /\ DoneStreamComplete

LEMMA ReaderInit == Init => ReaderInv
BY DEF Init, ReaderInv, Attended, QueueJoins, DoneJoins, DoneStreamComplete, Registered

LEMMA ReaderStep == IInv /\ IInv' /\ OutcomeInv /\ ReaderInv /\ [Next]_vars => ReaderInv'
<1> SUFFICES ASSUME IInv, IInv', OutcomeInv, ReaderInv, [Next]_vars
             PROVE  ReaderInv'
  OBVIOUS
<1>1. /\ TypeOK /\ TypeOK' /\ Control /\ Queued /\ Numbered /\ Writing /\ SentWasPersisted
      /\ CancelMarked /\ GoneFuture /\ WritesLast
      /\ Attended /\ QueueJoins /\ DoneJoins /\ DoneStreamComplete
  BY DEF IInv, OutcomeInv, ReaderInv
<1>2. Attended'
  BY <1>1, AttendedStep
<1>3. QueueJoins'
  BY <1>1, QueueJoinsStep
<1>4. DoneJoins'
  BY <1>1, DoneJoinsStep
<1>5. DoneStreamComplete'
  BY <1>1, DoneCompleteStep
<1> QED
  BY <1>2, <1>3, <1>4, <1>5 DEF ReaderInv

\* ReaderInv holds in every state of a run.
THEOREM ReaderInvariance == Spec => []ReaderInv
BY ReaderInit, ReaderStep, Invariance, OutcomeInvariance, PTL DEF Spec

\* A stream that ends with `done` carried every event of the run before it:
\* nothing is lost between the replay and the live queue.
THEOREM DoneIsLast == Spec => []DoneStreamComplete
<1>1. ReaderInv => DoneStreamComplete
  BY DEF ReaderInv
<1> QED
  BY <1>1, ReaderInvariance, PTL

-----------------------------------------------------------------------------
(* The order of the queues *)

\* What is queued was fanned out ...
QueuedWasFanned ==
    \A u \in Subscribers : \A i \in DOMAIN queue[u] :
        queue[u][i] # Stop => queue[u][i].seq < Fanned

\* ... in the order of the log ...
QueueAscends ==
    \A u \in Subscribers : \A i, j \in DOMAIN queue[u] :
        i < j /\ queue[u][i] # Stop /\ queue[u][j] # Stop => queue[u][i].seq < queue[u][j].seq

\* ... and what a live subscriber will skip, it was sent.
SkippedWasSent ==
    \A u \in Subscribers : sub[u] = "live" =>
        \A i \in DOMAIN queue[u] : queue[u][i] # Stop =>
            \/ \E j \in DOMAIN got[u] : got[u][j] = queue[u][i]
            \/ \A j \in DOMAIN got[u] : got[u][j].seq < queue[u][i].seq

\* The fan-out goes forward, except where nobody has a queue.
LEMMA FannedStep ==
    ASSUME TypeOK, Control, Queued, Attended, [Next]_vars
    PROVE  \/ Fanned' >= Fanned
           \/ Restarts
           \/ \A u \in Subscribers : queue[u] = << >>
<1> USE DEF TypeOK, HubTypeOK
<1>1. ASSUME nextSeq' = nextSeq, \A p \in Writers : io'[p] \in Inserted => io[p] \in Inserted
      PROVE  Fanned' >= Fanned
  BY <1>1 DEF Fanned
<1>2. CASE Calm
  BY <1>1, <1>2 DEF Calm
<1>3. ASSUME NEW p \in Tasks, Appends(p)
      PROVE  Fanned' >= Fanned
  BY <1>3 DEF Appends, Fanned
<1>4. ASSUME NEW p \in Tasks, AppendFails(p)
      PROVE  Fanned' >= Fanned
  BY <1>4 DEF AppendFails, Fanned
<1>5. ASSUME NEW p \in Writers, Projects(p)
      PROVE  Fanned' >= Fanned
  <2>1. nextSeq' = nextSeq /\ \A q \in Writers : io'[q] \in Inserted => io[q] \in Inserted
    BY <1>5 DEF Projects, hubVars, Inserted, TaskTypeOK
  <2> QED
    BY <1>1, <2>1
<1>6. ASSUME NEW c \in Cancels, CancelMarks(c)
      PROVE  Fanned' >= Fanned
  <2>1. nextSeq' = nextSeq /\ \A q \in Writers : io'[q] \in Inserted => io[q] \in Inserted
    BY <1>6 DEF CancelMarks, Join, Inserted, TaskTypeOK
  <2> QED
    BY <1>1, <2>1
<1>7. ASSUME NEW c \in Cancels, CancelAppends(c)
      PROVE  Fanned' >= Fanned
  <2>1. nextSeq' = nextSeq + 1
    BY <1>7 DEF CancelAppends
  <2> QED
    BY <2>1 DEF Fanned
<1>8. ASSUME NEW c \in Cancels, CancelAppendsUnlocked(c) \/ CancelProjectsUnlocked(c)
      PROVE  Fanned' >= Fanned
  <2>1. nextSeq' = nextSeq /\ io' = io
    BY <1>8 DEF CancelAppendsUnlocked, CancelProjectsUnlocked, hubVars, taskVars
  <2> QED
    BY <1>1, <2>1
<1>9. ASSUME NEW u \in Subscribers, RegistersHub(u)
      PROVE  \A v \in Subscribers : queue[v] = << >>
  BY <1>9 DEF RegistersHub, Control, Attended
<1> QED
  BY <1>2, <1>3, <1>4, <1>5, <1>6, <1>7, <1>8, <1>9, CalmOrEventful DEF Eventful

\* An event that is fanned out is the last one of the log, and the next one is
\* still to come.
LEMMA FansForward ==
    ASSUME TypeOK, Control, Queued, Numbered, Writing, WritesLast, Fans,
           NEW p \in Writers, io[p] = "projected"
    PROVE  /\ Written(p).seq = Fanned /\ Fanned \in Nat /\ Fanned' = Fanned + 1
           /\ \A n \in DOMAIN log : n \in Nat /\ n <= Fanned
<1>1. Fanned = nextSeq - 1 /\ Written(p).seq = nextSeq - 1 /\ nextSeq \in Nat
  BY DEF Fanned, Inserted, Written, TypeOK, HubTypeOK
<1>2. nextSeq' = nextSeq /\ \A q \in Writers : io'[q] \notin Inserted
  <2>1. ASSUME NEW t \in Tasks, FansOut(t)
        PROVE  nextSeq' = nextSeq /\ \A q \in Writers : io'[q] \notin Inserted
    <3>1. io[t] = "projected" /\ t \in Writers /\ nextSeq' = nextSeq
      BY <2>1 DEF FansOut, hubVars, Writers
    <3>2. \A q \in Writers : q # t => io[q] \notin Inserted
      BY <3>1, LockExcludes DEF Inserted
    <3> QED
      BY <2>1, <3>1, <3>2 DEF FansOut, Leave, Inserted
  <2>2. ASSUME NEW c \in Cancels, CancelFansOut(c)
        PROVE  nextSeq' = nextSeq /\ \A q \in Writers : io'[q] \notin Inserted
    <3>1. io[c] = "projected" /\ c \in Writers /\ nextSeq' = nextSeq
      BY <2>2 DEF CancelFansOut, hubVars, Writers
    <3>2. \A q \in Writers : q # c => io[q] \notin Inserted
      BY <3>1, LockExcludes DEF Inserted
    <3>3. Leave({c}) \/ Leave(Tasks \cup {c})
      BY <2>2, Zenon DEF CancelFansOut
    <3> QED
      BY <3>1, <3>2, <3>3 DEF Leave, Inserted
  <2> QED
    BY <2>1, <2>2 DEF Fans
<1>3. Fanned' = nextSeq
  BY <1>2 DEF Fanned
<1>4. nextSeq - 1 \in DOMAIN log /\ ~Taken(nextSeq)
  BY DEF Writing, WritesLast, Inserted
<1>5. \A n \in DOMAIN log : n \in Nat /\ n <= nextSeq - 1
  <2>1. PICK n \in Nat : DOMAIN log = 0 .. (n - 1) /\ nextSeq <= n
    BY DEF Numbered
  <2>2. nextSeq = n
    BY <1>1, <1>4, <2>1 DEF Taken
  <2> QED
    BY <2>1, <2>2
<1>6. nextSeq - 1 \in Nat
  BY <1>4, <1>5
<1> QED
  BY <1>1, <1>3, <1>5, <1>6

\* Every step keeps the order.
LEMMA OrderStep ==
    ASSUME TypeOK, TypeOK', Control, GoneFuture, Queued, Numbered, Writing, SentWasPersisted, WritesLast,
           Attended, QueuedWasFanned, QueueAscends, SkippedWasSent, [Next]_vars
    PROVE  (QueuedWasFanned /\ QueueAscends /\ SkippedWasSent)'
<1> DEFINE Below(u)   == \A i \in DOMAIN queue[u] : queue[u][i] # Stop => queue[u][i].seq < Fanned
           Ascends(u) == \A i, j \in DOMAIN queue[u] :
                             i < j /\ queue[u][i] # Stop /\ queue[u][j] # Stop =>
                                 queue[u][i].seq < queue[u][j].seq
           Later(u, item) == \/ \E j \in DOMAIN got[u] : got[u][j] = item
                             \/ \A j \in DOMAIN got[u] : got[u][j].seq < item.seq
           Skips(u)   == sub[u] = "live" =>
                             \A i \in DOMAIN queue[u] : queue[u][i] # Stop => Later(u, queue[u][i])
<1> SUFFICES ASSUME NEW u \in Subscribers
             PROVE  Below(u)' /\ Ascends(u)' /\ Skips(u)'
  BY DEF QueuedWasFanned, QueueAscends, SkippedWasSent
<1>1. Below(u) /\ Ascends(u) /\ Skips(u)
  BY DEF QueuedWasFanned, QueueAscends, SkippedWasSent
<1>2. /\ queue[u] \in Seq(Items) /\ got[u] \in Seq(Items)
      /\ queue'[u] \in Seq(Items) /\ got'[u] \in Seq(Items)
      /\ \A i \in DOMAIN queue[u] : queue[u][i].seq \in Nat
      /\ \A i \in DOMAIN got[u] : got[u][i].seq \in Nat
  <2>1. /\ queue[u] \in Seq(Items) /\ got[u] \in Seq(Items)
        /\ queue'[u] \in Seq(Items) /\ got'[u] \in Seq(Items)
    BY DEF TypeOK, SubscriberTypeOK
  <2>2. \A i \in DOMAIN queue[u] : queue[u][i] \in Items
    BY <2>1
  <2>3. \A i \in DOMAIN got[u] : got[u][i] \in Items
    BY <2>1
  <2> QED
    BY <2>1, <2>2, <2>3 DEF Items
<1>3. Fanned \in Int /\ Fanned' \in Int
  BY DEF TypeOK, HubTypeOK, Fanned
<1>4. Fanned' >= Fanned \/ Restarts \/ queue[u] = << >>
  BY FannedStep
<1>5. CASE Restarts
  BY <1>5 DEF Restarts
<1>6. ASSUME ~Restarts, sub'[u] = sub[u], got'[u] = got[u],
             \A i \in DOMAIN queue'[u] : i \in DOMAIN queue[u] \/ queue'[u][i] = Stop,
             \A i \in DOMAIN queue[u] : i \in DOMAIN queue'[u] => queue'[u][i] = queue[u][i]
      PROVE  Below(u)' /\ Ascends(u)' /\ Skips(u)'
  <2>1. Below(u)'
    BY <1>1, <1>2, <1>3, <1>4, <1>6
  <2>2. Ascends(u)' /\ Skips(u)'
    BY <1>1, <1>6
  <2> QED
    BY <2>1, <2>2
<1>7. CASE Torn /\ ~Restarts
  <2>1. PICK items \in {<<Stop>>, << >>} : Pushed(items)
    BY <1>7 DEF Torn
  <2>2. items \in Seq(Items) /\ \A j \in DOMAIN items : items[j] = Stop
    BY <2>1, StopPushed
  <2>3. \A i \in DOMAIN queue'[u] : i \in DOMAIN queue[u] \/ queue'[u][i] = Stop
    BY <2>1, <2>2, PushExtends
  <2> QED
    BY <1>6, <1>7, <2>1, <2>2, <2>3, PushExtends
<1>8. CASE Fans /\ ~Restarts
  <2>1. PICK p \in Writers, items \in Seq(Items) :
               /\ io[p] = "projected" /\ Written(p) \in Items /\ Pushed(items)
               /\ Len(items) \in 1 .. 2 /\ items[1] = Written(p)
               /\ Len(items) = 2 => items[2] = Stop /\ Written(p).type \in Terminal
    BY <1>8, FansPushes
  <2> DEFINE event == Written(p)
  <2>2. /\ event.seq = Fanned /\ Fanned \in Nat /\ Fanned' = Fanned + 1
        /\ \A n \in DOMAIN log : n \in Nat /\ n <= Fanned
    BY <1>8, <2>1, FansForward
  <2>3. /\ sub'[u] = sub[u] /\ got'[u] = got[u]
        /\ \A i \in DOMAIN queue[u] : i \in DOMAIN queue'[u] /\ queue'[u][i] = queue[u][i]
        /\ \A i \in DOMAIN queue'[u] :
               \/ i \in DOMAIN queue[u]
               \/ /\ sub[u] \in Registered /\ i - Len(queue[u]) \in 1 .. Len(items)
                  /\ queue'[u][i] = items[i - Len(queue[u])]
    BY <2>1, PushExtends
  <2> DEFINE l == Len(queue[u])
  <2>4. /\ l \in Nat /\ DOMAIN queue[u] = 1 .. l
        /\ \A i \in DOMAIN queue'[u] : i \in Nat \ {0}
    BY <1>2
  <2>5. \A i \in DOMAIN queue'[u] :
            \/ i \in DOMAIN queue[u] /\ i <= l
            \/ i = l + 1 /\ queue'[u][i] = event
            \/ i = l + 2 /\ queue'[u][i] = Stop
    <3> SUFFICES ASSUME NEW i \in DOMAIN queue'[u], i \notin DOMAIN queue[u]
                 PROVE  \/ i = l + 1 /\ queue'[u][i] = event
                        \/ i = l + 2 /\ queue'[u][i] = Stop
      BY <2>4
    <3>1. i - l \in 1 .. Len(items) /\ queue'[u][i] = items[i - l]
      BY <2>3
    <3>2. i - l = 1 \/ (i - l = 2 /\ Len(items) = 2)
      BY <2>1, <2>4, <3>1
    <3> HIDE DEF l
    <3> QED
      BY <2>1, <2>4, <3>1, <3>2
  <2> HIDE DEF event, l
  <2>6. Below(u)'
    BY <1>1, <1>2, <2>2, <2>3, <2>5
  <2>7. ASSUME NEW i \in DOMAIN queue'[u], NEW j \in DOMAIN queue'[u],
               i < j, queue'[u][i] # Stop, queue'[u][j] # Stop
        PROVE  queue'[u][i].seq < queue'[u][j].seq
    <3>1. CASE j \in DOMAIN queue[u]
      <4>1. i \in DOMAIN queue[u]
        BY <2>4, <2>7, <3>1
      <4> QED
        BY <1>1, <2>3, <2>7, <3>1, <4>1
    <3>2. CASE j \notin DOMAIN queue[u]
      <4>1. j = l + 1 /\ queue'[u][j] = event
        BY <2>5, <2>7, <3>2
      <4>2. i \in DOMAIN queue[u]
        BY <2>4, <2>7, <4>1
      <4>3. queue[u][i].seq < Fanned /\ queue'[u][i] = queue[u][i]
        BY <1>1, <2>3, <2>7, <4>2
      <4> QED
        BY <2>2, <4>1, <4>3
    <3> QED
      BY <3>1, <3>2
  <2>8. event \in Items /\ event.seq \in DOMAIN log /\ log[event.seq] = event.type
    BY <2>1, WrittenLogged DEF event
  <2>9. Later(u, event)
    <3>1. CASE \E j \in DOMAIN got[u] : got[u][j].seq = event.seq
      <4>1. PICK j \in DOMAIN got[u] : got[u][j].seq = event.seq
        BY <3>1
      <4>2. got[u][j].type = event.type /\ got[u][j] \in Items
        BY <1>2, <2>8, <4>1 DEF SentWasPersisted
      <4>3. got[u][j] = event
        BY <2>8, <4>1, <4>2 DEF Items
      <4> QED
        BY <4>3
    <3>2. CASE \A j \in DOMAIN got[u] : got[u][j].seq # event.seq
      <4>1. \A j \in DOMAIN got[u] : got[u][j].seq \in DOMAIN log
        BY DEF SentWasPersisted
      <4> QED
        BY <2>2, <3>2, <4>1
    <3> QED
      BY <3>1, <3>2
  <2>10. Skips(u)'
    BY <1>1, <2>3, <2>5, <2>9
  <2> QED
    BY <2>6, <2>7, <2>10
<1>9. ASSUME ~Restarts, NEW v \in Subscribers, Aside(v),
             Attaches(v) \/ Goes(v) \/ Replays(v) \/ Delivers(v)
      PROVE  Below(u)' /\ Ascends(u)' /\ Skips(u)'
  <2>1. CASE u # v
    BY <1>6, <1>9, <2>1 DEF Aside
  <2>2. CASE u = v /\ (Attaches(v) \/ Goes(v))
    <3>1. sub'[u] # "live" /\ \A i \in DOMAIN queue'[u] : queue'[u][i] = Stop
      BY <2>2 DEF Attaches, Goes, Registered
    <3> QED
      BY <3>1
  <2>3. CASE u = v /\ Replays(v)
    <3>1. CASE sub'[u] = "live"
      <4>1. queue'[u] = queue[u] /\ got'[u] = Replay
            /\ \A n \in DOMAIN log : log[n] \notin StreamEnds
        BY <2>3, <3>1 DEF Replays, TypeOK, SubscriberTypeOK
      <4>2. PICK n \in Nat : DOMAIN log = 0 .. (n - 1)
        BY DEF Numbered
      <4>3. /\ Len(Replay) = n /\ Replay \in Seq(Items)
            /\ \A i \in DOMAIN Replay : Replay[i].seq = i - 1 /\ Replay[i].type = log[i - 1]
        BY <4>1, <4>2, ReplayShape, ReplayFaithful
      <4>4. ASSUME NEW i \in DOMAIN queue[u], queue[u][i] # Stop
            PROVE  \E j \in DOMAIN Replay : Replay[j] = queue[u][i]
        <5> DEFINE item == queue[u][i]
        <5>1. item \in Items /\ item.seq \in DOMAIN log /\ log[item.seq] = item.type
          BY <1>2, <4>4 DEF SentWasPersisted
        <5>2. item.seq + 1 \in DOMAIN Replay /\ item.seq \in Int
          BY <4>2, <4>3, <5>1
        <5>3. /\ Replay[item.seq + 1] \in Items /\ Replay[item.seq + 1].seq = item.seq
              /\ Replay[item.seq + 1].type = item.type
          BY <4>3, <5>1, <5>2
        <5> HIDE DEF item
        <5>4. Replay[item.seq + 1] = item
          BY <5>1, <5>3 DEF Items
        <5> QED
          BY <5>2, <5>4 DEF item
      <4>5. Skips(u)'
        BY <4>1, <4>4
      <4>6. Below(u)' /\ Ascends(u)'
        BY <1>1, <1>2, <1>3, <1>4, <1>9, <4>1
      <4> QED
        BY <4>5, <4>6
    <3>2. CASE sub'[u] # "live"
      <4>1. queue'[u] = << >>
        BY <2>3, <3>2 DEF Replays, TypeOK, SubscriberTypeOK
      <4> QED
        BY <3>2, <4>1
    <3> QED
      BY <3>1, <3>2
  <2>4. CASE u = v /\ Delivers(v)
    <3> DEFINE item == queue[u][1]
    <3>1. /\ sub[u] = "live" /\ sub'[u] \in {"live", "closed"}
          /\ 1 \in DOMAIN queue[u] /\ item \in Items
          /\ got'[u] = IF item # Stop /\ Unseen(u, item) THEN Append(got[u], item) ELSE got[u]
          /\ sub'[u] = "closed" => queue'[u] = << >>
          /\ sub'[u] = "live" =>
                 /\ item # Stop
                 /\ \A i \in DOMAIN queue'[u] :
                        i + 1 \in DOMAIN queue[u] /\ queue'[u][i] = queue[u][i + 1]
      BY <1>2, <2>4, Delivered
    <3>2. CASE sub'[u] = "closed"
      BY <3>1, <3>2
    <3>3. CASE sub'[u] = "live"
      <4>1. \A i \in DOMAIN queue'[u] : i \in Nat \ {0}
        BY <1>2
      <4>2. Below(u)'
        BY <1>1, <1>2, <1>3, <1>4, <1>9, <3>1, <3>3
      <4>3. ASSUME NEW i \in DOMAIN queue'[u], NEW j \in DOMAIN queue'[u],
                   i < j, queue'[u][i] # Stop, queue'[u][j] # Stop
            PROVE  queue'[u][i].seq < queue'[u][j].seq
        <5>1. /\ queue'[u][i] = queue[u][i + 1] /\ i + 1 \in DOMAIN queue[u]
              /\ queue'[u][j] = queue[u][j + 1] /\ j + 1 \in DOMAIN queue[u] /\ i + 1 < j + 1
          BY <3>1, <3>3, <4>1, <4>3
        <5> QED
          BY <1>1, <4>3, <5>1
      <4>4. ASSUME NEW i \in DOMAIN queue'[u], queue'[u][i] # Stop
            PROVE  \/ \E j \in DOMAIN got'[u] : got'[u][j] = queue'[u][i]
                   \/ \A j \in DOMAIN got'[u] : got'[u][j].seq < queue'[u][i].seq
        <5> DEFINE next == queue[u][i + 1]
        <5>1. queue'[u][i] = next /\ i + 1 \in DOMAIN queue[u] /\ next # Stop
          BY <3>1, <3>3, <4>4
        <5>2. Later(u, next)
          BY <1>1, <3>1, <5>1
        <5>3. item.seq < next.seq
          BY <1>1, <3>1, <3>3, <4>1, <5>1
        <5> HIDE DEF next, item
        <5>4. CASE got'[u] = got[u]
          BY <5>1, <5>2, <5>4
        <5>5. CASE got'[u] = Append(got[u], item)
          <6> DEFINE g == Len(got[u])
          <6>1. /\ g \in Nat /\ DOMAIN got[u] = 1 .. g /\ DOMAIN got'[u] = 1 .. g + 1
                /\ got'[u][g + 1] = item
                /\ \A j \in 1 .. g : got'[u][j] = got[u][j]
            BY <1>2, <3>1, <5>5
          <6> HIDE DEF g
          <6>2. CASE \E j \in DOMAIN got[u] : got[u][j] = next
            <7>1. \E j \in DOMAIN got'[u] : got'[u][j] = next
              BY <6>1, <6>2
            <7> QED
              BY <5>1, <7>1
          <6>3. CASE \A j \in DOMAIN got[u] : got[u][j].seq < next.seq
            <7>1. \A j \in DOMAIN got'[u] : got'[u][j].seq < next.seq
              BY <5>3, <6>1, <6>3
            <7> QED
              BY <5>1, <7>1
          <6> QED
            BY <5>2, <6>2, <6>3
        <5> QED
          BY <3>1, <5>4, <5>5
      <4> QED
        BY <4>2, <4>3, <4>4
    <3> QED
      BY <3>1, <3>2, <3>3
  <2> QED
    BY <1>9, <2>1, <2>2, <2>3, <2>4
<1>10. CASE UNCHANGED <<sub, queue, got>> /\ ~Restarts
  BY <1>6, <1>10
<1> QED
  BY <1>5, <1>7, <1>8, <1>9, <1>10, ReadersStep, ServedStep

-----------------------------------------------------------------------------
(* A run that is not broken off *)

\* The process was not restarted and every cancel went through the hub: what
\* ClosedStreamHasVerdict and RowMatchesLog are about.
Unbroken == restarts = 0 /\ ~UnlockedCancel

Bypassed == {"unlocked", "unlocked_inserted", "unlocked_done", "failed", "lost"}

\* A cancel that bypassed the hub, or failed, stays one that did.
LEMMA BypassedStays ==
    ASSUME TypeOK, Control, [Next]_vars
    PROVE  \/ Restarts
           \/ /\ restarts' = restarts
              /\ \A c \in Cancels : can[c] \in Bypassed => can'[c] \in Bypassed
<1> DEFINE Stays == \A c \in Cancels : can[c] \in Bypassed => can'[c] \in Bypassed
           Goal == restarts' = restarts /\ Stays
<1> USE DEF canVars, Bypassed
<1>1. CASE Approved \/ Researched \/ EngineFails \/ TimesOut
  BY <1>1 DEF Approved, Researched, EngineFails, TimesOut
<1>2. ASSUME NEW s \in Sections, SectionBegins(s) \/ UpsertPlanned(s) \/ SectionFails(s)
      PROVE  Goal
  BY <1>2 DEF SectionBegins, UpsertPlanned, SectionFails
<1>3. ASSUME NEW p \in Tasks, Waits(p) \/ Appends(p) \/ AppendFails(p) \/ SinkDrops(p) \/ FansOut(p)
      PROVE  Goal
  BY <1>3 DEF Waits, Appends, AppendFails, SinkDrops, FansOut
<1>4. ASSUME NEW p \in Writers, Projects(p)
      PROVE  Goal
  BY <1>4 DEF Projects
<1>5. ASSUME NEW c \in Cancels,
             \/ CancelReads(c) \/ CancelMarks(c) \/ CancelAppends(c) \/ CancelFansOut(c)
             \/ CancelAppendsUnlocked(c) \/ CancelProjectsUnlocked(c)
      PROVE  Goal
  <2>1. restarts' = restarts
    BY <1>5 DEF CancelReads, CancelMarks, CancelAppends, CancelFansOut, CancelAppendsUnlocked,
       CancelProjectsUnlocked
  <2>2. \A d \in Cancels : d # c => can'[d] = can[d]
    BY <1>5 DEF CancelReads, CancelMarks, CancelAppends, CancelFansOut, CancelAppendsUnlocked,
       CancelProjectsUnlocked, TypeOK, RequestTypeOK
  <2>3. can[c] \in Bypassed => can'[c] \in Bypassed
    <3>1. CASE CancelReads(c) \/ CancelMarks(c) \/ CancelAppends(c) \/ CancelFansOut(c)
      BY <3>1 DEF CancelReads, CancelMarks, CancelAppends, CancelFansOut, HasLock, Control
    <3>2. CASE CancelAppendsUnlocked(c)
      BY <3>2 DEF CancelAppendsUnlocked, TypeOK, RequestTypeOK
    <3>3. CASE CancelProjectsUnlocked(c)
      BY <3>3 DEF CancelProjectsUnlocked, TypeOK, RequestTypeOK
    <3> QED
      BY <1>5, <3>1, <3>2, <3>3
  <2> QED
    BY <2>1, <2>2, <2>3
<1>6. ASSUME NEW m \in Submits, NEW edited \in SUBSET Sections, SubmitEdits(m, edited)
      PROVE  Goal
  BY <1>6 DEF SubmitEdits
<1>7. ASSUME NEW m \in Submits, NEW s \in Sections, SubmitUpserts(m, s)
      PROVE  Goal
  BY <1>7 DEF SubmitUpserts
<1>8. ASSUME NEW m \in Submits, SubmitKeeps(m) \/ SubmitRefused(m) \/ SubmitResolves(m)
      PROVE  Goal
  BY <1>8 DEF SubmitKeeps, SubmitRefused, SubmitResolves
<1>9. ASSUME NEW u \in Subscribers, Connects(u) \/ RegistersHub(u) \/ ResolvesRun(u) \/ StartsTask(u)
      PROVE  Goal
  BY <1>9 DEF Connects, RegistersHub, ResolvesRun, StartsTask
<1>10. ASSUME NEW u \in Subscribers, StartFails(u) \/ Replays(u) \/ Delivers(u) \/ Disconnects(u)
       PROVE  Goal
  BY <1>10 DEF StartFails, Replays, Delivers, Disconnects
<1>11. CASE UNCHANGED vars
  BY <1>11 DEF vars
<1> QED
  BY <1>1, <1>2, <1>3, <1>4, <1>5, <1>6, <1>7, <1>8, <1>9, <1>10, <1>11
     DEF Next, EngineStep, Failure, CancelStep, SubmitStep, SubscriberStep

LEMMA UnbrokenStep ==
    ASSUME TypeOK, Control, [Next]_vars, Unbroken'
    PROVE  Unbroken /\ ~Restarts
<1>1. ~Restarts
  BY DEF Restarts, Unbroken, TypeOK, StoreTypeOK
<1>2. restarts' = restarts /\ \A c \in Cancels : can[c] \in Bypassed => can'[c] \in Bypassed
  BY <1>1, BypassedStays
<1> QED
  BY <1>1, <1>2 DEF Unbroken, UnlockedCancel, Bypassed

\* Under write_lock nobody gains or loses anything by these steps.
Quiet ==
    /\ UNCHANGED <<row, log, nextSeq, cancelled, hubUp, io, ahead>>
    /\ pc' # "timeout" => pc # "timeout"

\* The other steps of a run that is not broken off.
Loud ==
    \/ \E p \in Tasks : Waits(p) \/ SinkDrops(p) \/ Appends(p) \/ AppendFails(p) \/ FansOut(p)
    \/ \E p \in Writers : Projects(p)
    \/ EngineFails \/ (\E s \in Sections : SectionFails(s)) \/ TimesOut
    \/ \E c \in Cancels : \/ CancelMarks(c) /\ hubUp
                          \/ CancelAppends(c) /\ ~Taken(nextSeq)
                          \/ CancelFansOut(c)
    \/ \E u \in Subscribers : RegistersHub(u)

LEMMA QuietOrLoud ==
    ASSUME TypeOK, Control, [Next]_vars, Unbroken'
    PROVE  Quiet \/ Loud
<1> USE DEF Quiet, taskVars, hubVars, dbVars
<1>1. CASE Approved \/ Researched
  BY <1>1 DEF Approved, Researched
<1>2. ASSUME NEW s \in Sections, SectionBegins(s) \/ UpsertPlanned(s)
      PROVE  Quiet
  BY <1>2 DEF SectionBegins, UpsertPlanned
<1>3. ~Restarts
  BY UnbrokenStep
<1>4. ASSUME NEW c \in Cancels, CancelReads(c)
      PROVE  Quiet
  BY <1>4 DEF CancelReads
<1>5. ASSUME NEW c \in Cancels, CancelMarks(c)
      PROVE  hubUp
  BY <1>5 DEF CancelMarks, Unbroken, UnlockedCancel, TypeOK, RequestTypeOK
<1>6. ASSUME NEW c \in Cancels, CancelAppends(c)
      PROVE  ~Taken(nextSeq)
  BY <1>6 DEF CancelAppends, Unbroken, UnlockedCancel, TypeOK, RequestTypeOK
<1>7. ASSUME NEW c \in Cancels, CancelAppendsUnlocked(c) \/ CancelProjectsUnlocked(c)
      PROVE  FALSE
  BY <1>7 DEF CancelAppendsUnlocked, CancelProjectsUnlocked, Unbroken, UnlockedCancel, TypeOK,
     RequestTypeOK
<1>8. ASSUME NEW m \in Submits, NEW edited \in SUBSET Sections, SubmitEdits(m, edited)
      PROVE  Quiet
  BY <1>8 DEF SubmitEdits
<1>9. ASSUME NEW m \in Submits, NEW s \in Sections, SubmitUpserts(m, s)
      PROVE  Quiet
  BY <1>9 DEF SubmitUpserts
<1>10. ASSUME NEW m \in Submits, SubmitKeeps(m) \/ SubmitRefused(m) \/ SubmitResolves(m)
       PROVE  Quiet
  BY <1>10 DEF SubmitKeeps, SubmitRefused, SubmitResolves
<1>11. ASSUME NEW u \in Subscribers, Connects(u) \/ ResolvesRun(u)
       PROVE  Quiet
  BY <1>11 DEF Connects, ResolvesRun
<1>12. ASSUME NEW u \in Subscribers, StartsTask(u)
       PROVE  Quiet
  BY <1>12 DEF StartsTask, Control
<1>13. ASSUME NEW u \in Subscribers, StartFails(u) \/ Replays(u) \/ Delivers(u) \/ Disconnects(u)
       PROVE  Quiet
  BY <1>13 DEF StartFails, Replays, Delivers, Disconnects
<1>14. CASE UNCHANGED vars
  BY <1>14 DEF vars
<1> HIDE DEF Quiet
<1> QED
  BY <1>1, <1>2, <1>3, <1>4, <1>5, <1>6, <1>7, <1>8, <1>9, <1>10, <1>11, <1>12, <1>13, <1>14
     DEF Next, EngineStep, Failure, CancelStep, SubmitStep, SubscriberStep, Loud

-----------------------------------------------------------------------------
(* A stream the server closes told how the run ended *)

\* The hub numbers the log, which is empty before there is a hub.
HubNumbers == ~Taken(nextSeq) /\ (~hubUp => DOMAIN log = {})

\* The engine waits for write_lock behind cancels only.
BehindCancel ==
    io[Engine] = "waiting" => \E c \in Cancels : io[c] # "idle" /\ c \in ahead[Engine]

CancelsIdle == \A c \in Cancels : io[c] = "idle"

\* An outcome was sent to u or is queued, before the i-th item if it is Told.
Told(u, i) ==
    \/ \E j \in DOMAIN got[u] : got[u][j].type \in Terminal
    \/ \E j \in DOMAIN queue[u] : j < i /\ queue[u][j].type \in Terminal

Informed(u) ==
    \/ \E j \in DOMAIN got[u] : got[u][j].type \in Terminal
    \/ \E j \in DOMAIN queue[u] : queue[u][j].type \in Terminal

\* Once no cancel is under way any more, a cancelled run has an outcome and
\* whoever is live knows it.
CancelTold ==
    cancelled /\ CancelsIdle =>
        Decided /\ \A u \in Subscribers : sub[u] = "live" => Informed(u)

\* The sentinel comes after an outcome.
StopTold ==
    \A u \in Subscribers : \A i \in DOMAIN queue[u] : queue[u][i] = Stop =>
        Decided /\ (sub[u] = "live" => Told(u, i))

\* A run that came to its end has an outcome.
FinishDecided == pc = "finished" => Decided

\* Every step keeps HubNumbers.
LEMMA HubNumbersStep ==
    ASSUME TypeOK, Control, Numbered, HubNumbers, Quiet \/ Loud
    PROVE  HubNumbers'
<1>1. ASSUME log' = log, nextSeq' = nextSeq, hubUp' = hubUp
      PROVE  HubNumbers'
  BY <1>1 DEF HubNumbers, Taken
<1>2. ASSUME NEW type, log' = LogWith(nextSeq, type), nextSeq' = nextSeq + 1, hubUp' = hubUp, hubUp
      PROVE  HubNumbers'
  <2>1. PICK n \in Nat : DOMAIN log = 0 .. (n - 1) /\ nextSeq <= n
    BY DEF Numbered
  <2>2. DOMAIN log' = DOMAIN log \cup {nextSeq}
    BY <1>2 DEF LogWith
  <2>3. nextSeq \in Nat /\ nextSeq = n
    BY <2>1 DEF HubNumbers, Taken, TypeOK, HubTypeOK
  <2> QED
    BY <1>2, <2>1, <2>2, <2>3 DEF HubNumbers, Taken
<1>3. ASSUME NEW p \in Tasks, Appends(p)
      PROVE  HubNumbers'
  <2>1. hubUp
    BY <1>3 DEF Appends, Enters, AtEmit, HasLock, Control, Tasks, EmitPcs, SectionEvents
  <2> QED
    BY <1>2, <1>3, <2>1 DEF Appends
<1>4. ASSUME NEW c \in Cancels, CancelAppends(c), ~Taken(nextSeq)
      PROVE  HubNumbers'
  <2>1. hubUp
    BY <1>4 DEF CancelAppends, HasLock, Control
  <2> QED
    BY <1>2, <1>4, <2>1 DEF CancelAppends
<1>5. ASSUME NEW u \in Subscribers, RegistersHub(u)
      PROVE  HubNumbers'
  BY <1>5 DEF RegistersHub, Control, HubNumbers, Taken, dbVars
<1>6. ASSUME NEW p \in Tasks, Waits(p) \/ SinkDrops(p) \/ FansOut(p)
      PROVE  HubNumbers'
  BY <1>1, <1>6 DEF Waits, SinkDrops, FansOut, dbVars, hubVars
<1>7. ASSUME NEW p \in Tasks, AppendFails(p)
      PROVE  HubNumbers'
  BY <1>7 DEF AppendFails, HubNumbers
<1>8. ASSUME NEW p \in Writers, Projects(p)
      PROVE  HubNumbers'
  BY <1>1, <1>8 DEF Projects, hubVars
<1>9. ASSUME NEW s \in Sections, EngineFails \/ SectionFails(s) \/ TimesOut
      PROVE  HubNumbers'
  BY <1>1, <1>9 DEF EngineFails, SectionFails, TimesOut, dbVars, hubVars
<1>10. ASSUME NEW c \in Cancels, CancelMarks(c) \/ CancelFansOut(c)
       PROVE  HubNumbers'
  BY <1>1, <1>10 DEF CancelMarks, CancelFansOut, dbVars
<1>11. CASE Quiet
  BY <1>1, <1>11 DEF Quiet
<1> QED
  BY <1>3, <1>4, <1>5, <1>6, <1>7, <1>8, <1>9, <1>10, <1>11, SectionsAssumption DEF Loud

\* Every step keeps BehindCancel.
LEMMA BehindCancelStep ==
    ASSUME TypeOK, Control, BehindCancel, HubNumbers, Quiet \/ Loud
    PROVE  BehindCancel'
<1> USE DEF TypeOK, TaskTypeOK
<1>0. Engine \in Writers /\ Engine \in Tasks /\ Cancels \cap Tasks = {} /\ Cancels \subseteq Writers
  BY WriterAssumption DEF Writers, Tasks
<1>1. ASSUME \A q \in {Engine} \cup Cancels : io'[q] = io[q] /\ ahead'[q] = ahead[q]
      PROVE  BehindCancel'
  BY <1>1 DEF BehindCancel
<1>2. ASSUME io'[Engine] # "waiting"
      PROVE  BehindCancel'
  BY <1>2 DEF BehindCancel
<1>3. ASSUME NEW ps, Leave(ps), ps \cap Cancels = {}
      PROVE  BehindCancel'
  <2>1. \A c \in Cancels : io'[c] = io[c]
    BY <1>0, <1>3 DEF Leave
  <2>2. io'[Engine] = "waiting" => /\ io[Engine] = "waiting"
                                  /\ ahead'[Engine] = ahead[Engine] \ ps
    BY <1>0, <1>3 DEF Leave
  <2> QED
    BY <1>3, <2>1, <2>2 DEF BehindCancel
<1>4. ASSUME NEW p \in Tasks, Waits(p)
      PROVE  BehindCancel'
  <2>1. CASE p = Engine
    <3>1. PICK q \in Writers : io[q] # "idle"
      BY <1>4 DEF Waits
    <3>2. pc \in EmitPcs /\ io[Engine] = "idle"
      BY <1>0, <1>4, <2>1, WriterAssumption DEF Waits, AtEmit
    <3>3. q \in Cancels
      BY <3>1, <3>2 DEF Control, Writers, Tasks, EmitPcs
    <3>4. q \in ahead'[Engine] /\ io'[q] # "idle"
      BY <1>0, <1>4, <2>1, <3>1, <3>3 DEF Waits, Join
    <3> QED
      BY <3>3, <3>4 DEF BehindCancel
  <2>2. CASE p # Engine
    <3>1. \A q \in Writers \ {p} : io'[q] = io[q] /\ ahead'[q] = ahead[q]
      BY <1>4 DEF Waits, Join
    <3> QED
      BY <1>0, <1>1, <2>2, <3>1
  <2> QED
    BY <2>1, <2>2
<1>5. ASSUME NEW p \in Tasks, Appends(p)
      PROVE  BehindCancel'
  <2>1. CASE p = Engine
    BY <1>0, <1>2, <1>5, <2>1 DEF Appends
  <2>2. CASE p # Engine
    <3>1. \A q \in Writers \ {p} : io'[q] = io[q] /\ ahead'[q] = ahead[q]
      BY <1>5 DEF Appends
    <3> QED
      BY <1>0, <1>1, <2>2, <3>1
  <2> QED
    BY <2>1, <2>2
<1>6. ASSUME NEW p \in Tasks, SinkDrops(p) \/ FansOut(p)
      PROVE  BehindCancel'
  <2>1. Leave({p})
    BY <1>6 DEF SinkDrops, FansOut
  <2> QED
    BY <1>0, <1>3, <2>1
<1>7. ASSUME NEW p \in Tasks, AppendFails(p)
      PROVE  BehindCancel'
  BY <1>7 DEF AppendFails, HubNumbers
<1>8. ASSUME NEW p \in Writers, Projects(p)
      PROVE  BehindCancel'
  <2>1. io[p] = "inserted" /\ ahead' = ahead /\ io' = [io EXCEPT ![p] = "projected"]
    BY <1>8 DEF Projects
  <2> QED
    BY <1>0, <2>1 DEF BehindCancel
<1>9. ASSUME NEW s \in Sections, EngineFails \/ SectionFails(s) \/ TimesOut
      PROVE  BehindCancel'
  <2>1. Leave(Tasks)
    BY <1>9 DEF EngineFails, SectionFails, TimesOut, Raise
  <2> QED
    BY <1>0, <1>3, <2>1
<1>10. ASSUME NEW c \in Cancels, CancelMarks(c), hubUp
       PROVE  BehindCancel'
  <2>1. io[c] = "idle"
    BY <1>10 DEF CancelMarks, Control
  <2>2. /\ io'[Engine] = io[Engine] /\ ahead'[Engine] = ahead[Engine]
        /\ \A d \in Cancels : io[d] # "idle" => io'[d] # "idle"
    BY <1>0, <1>10, <2>1 DEF CancelMarks, Join
  <2> QED
    BY <2>2 DEF BehindCancel
<1>11. ASSUME NEW c \in Cancels, CancelAppends(c), ~Taken(nextSeq)
       PROVE  BehindCancel'
  <2>1. ahead' = ahead /\ io' = [io EXCEPT ![c] = "inserted"]
    BY <1>11 DEF CancelAppends
  <2> QED
    BY <1>0, <2>1 DEF BehindCancel
<1>12. ASSUME NEW c \in Cancels, CancelFansOut(c)
       PROVE  BehindCancel'
  <2>1. CASE pc \notin {"off", "finished", "dropped"}
    <3>1. Leave(Tasks \cup {c})
      BY <1>12, <2>1, Zenon DEF CancelFansOut
    <3> QED
      BY <1>0, <1>2, <3>1 DEF Leave
  <2>2. CASE pc \in {"off", "finished", "dropped"}
    <3>1. io[Engine] = "idle"
      BY <2>2 DEF Control, EmitPcs
    <3>2. Leave({c})
      <4>1. ~(pc \notin {"off", "finished", "dropped"})
        BY <2>2
      <4> QED
        BY <1>12, <4>1, Zenon DEF CancelFansOut
    <3> QED
      BY <1>0, <1>2, <3>1, <3>2 DEF Leave
  <2> QED
    BY <2>1, <2>2
<1>13. ASSUME NEW u \in Subscribers, RegistersHub(u)
       PROVE  BehindCancel'
  BY <1>0, <1>1, <1>13 DEF RegistersHub, taskVars
<1>14. CASE Quiet
  BY <1>0, <1>1, <1>14 DEF Quiet
<1> QED
  BY <1>4, <1>5, <1>6, <1>7, <1>8, <1>9, <1>10, <1>11, <1>12, <1>13, <1>14, SectionsAssumption
     DEF Loud

\* An outcome that was logged stays.
LEMMA DecidedStays ==
    ASSUME Decided, [Next]_vars
    PROVE  Decided'
<1>1. PICK n \in DOMAIN log : log[n] \in Terminal
  BY DEF Decided
<1>2. n \in DOMAIN log' /\ log'[n] = log[n]
  BY <1>1, TakenStays DEF Taken
<1> QED
  BY <1>1, <1>2 DEF Decided

\* A task does not come to its end by dropping an event, except behind a
\* cancel that is over.
LEMMA DropsIdle ==
    ASSUME TypeOK, Control, BehindCancel, NEW p \in Tasks, SinkDrops(p),
           p = Engine \/ (pc' = "finished" /\ pc # "finished")
    PROVE  p = Engine /\ cancelled /\ CancelsIdle
<1>1. cancelled
  BY DEF SinkDrops, Admitted
<1>2. p = Engine
  BY DEF SinkDrops, Return
<1>3. CASE \A q \in Writers : io[q] = "idle"
  BY <1>1, <1>2, <1>3 DEF CancelsIdle, Writers
<1>4. CASE HasLock(p)
  BY <1>2, <1>4 DEF HasLock, BehindCancel
<1> QED
  BY <1>3, <1>4 DEF SinkDrops, Enters

\* A writer that is about to fan an outcome out has logged it.
LEMMA OutcomeLogged ==
    ASSUME Writing, NEW p \in Writers, io[p] = "projected", EventOf(p) \in Terminal
    PROVE  Decided
BY DEF Writing, Decided

\* Every step keeps FinishDecided.
LEMMA FinishDecidedStep ==
    ASSUME TypeOK, Control, GoneFuture, Writing, HubNumbers, BehindCancel, CancelTold, FinishDecided,
           [Next]_vars
    PROVE  FinishDecided'
<1> SUFFICES ASSUME pc' = "finished"
             PROVE  Decided
  BY DecidedStays DEF FinishDecided
<1>1. CASE pc = "finished"
  BY <1>1 DEF FinishDecided
<1>2. ASSUME NEW p \in Tasks, FansOut(p)
      PROVE  Decided
  BY <1>2, FinalEvent, OutcomeLogged DEF FansOut, Writers
<1>3. ASSUME NEW p \in Tasks, SinkDrops(p), pc # "finished"
      PROVE  Decided
  BY <1>3, DropsIdle DEF CancelTold
<1>4. ASSUME NEW p \in Tasks, AppendFails(p)
      PROVE  Decided
  BY <1>4 DEF AppendFails, HubNumbers
<1>5. ASSUME NEW c \in Cancels, CancelFansOut(c)
      PROVE  Decided
  BY <1>5, OutcomeLogged DEF CancelFansOut, Writers, EventOf, Terminal
<1> QED
  BY <1>1, <1>2, <1>3, <1>4, <1>5, TaskStays

\* The first event that is pushed takes the place behind the queue.
LEMMA PushReaches ==
    ASSUME TypeOK, NEW items \in Seq(Items), Len(items) \in 1 .. 2, Pushed(items),
           NEW u \in Subscribers, sub[u] \in Registered
    PROVE  /\ Len(queue[u]) + 1 \in DOMAIN queue'[u]
           /\ queue'[u][Len(queue[u]) + 1] = items[1]
<1> DEFINE q == queue[u]
<1>1. q \in Seq(Items) /\ queue'[u] = q \o items
  BY PushedAside DEF TypeOK, SubscriberTypeOK
<1> HIDE DEF q
<1>2. /\ Len(q) \in Nat /\ DOMAIN (q \o items) = 1 .. Len(q) + Len(items)
      /\ \A i \in 1 .. Len(q) + Len(items) :
             (q \o items)[i] = IF i <= Len(q) THEN q[i] ELSE items[i - Len(q)]
  BY <1>1
<1> DEFINE l == Len(q)
           k == Len(items)
<1>3. l \in Nat /\ k \in 1 .. 2
  BY <1>2
<1> HIDE DEF l, k
<1>4. l + 1 \in 1 .. l + k /\ ~(l + 1 <= l) /\ l + 1 - l = 1
  BY <1>3
<1>5. Len(q) + 1 \in DOMAIN (q \o items) /\ (q \o items)[Len(q) + 1] = items[1]
  BY <1>2, <1>4 DEF l, k
<1> QED
  BY <1>1, <1>5 DEF q

\* What somebody was told, he stays told while his queue is filled ...
LEMMA ToldKept ==
    ASSUME NEW u \in Subscribers, got'[u] = got[u],
           \A j \in DOMAIN queue[u] : j \in DOMAIN queue'[u] /\ queue'[u][j] = queue[u][j]
    PROVE  /\ Informed(u) => Informed(u)'
           /\ \A i : Told(u, i) => Told(u, i)'
BY DEF Informed, Told

\* ... and while it is emptied: an outcome that is skipped was sent before.
LEMMA ToldDelivered ==
    ASSUME TypeOK, TypeOK', SkippedWasSent, NEW u \in Subscribers, Delivers(u), sub'[u] = "live"
    PROVE  /\ Informed(u) => Informed(u)'
           /\ \A i \in DOMAIN queue'[u] : Told(u, i + 1) => Told(u, i)'
<1> DEFINE item == queue[u][1]
<1>1. /\ sub[u] = "live" /\ 1 \in DOMAIN queue[u] /\ item \in Items /\ item # Stop
      /\ got'[u] = IF Unseen(u, item) THEN Append(got[u], item) ELSE got[u]
      /\ \A i \in DOMAIN queue'[u] :
             i + 1 \in DOMAIN queue[u] /\ queue'[u][i] = queue[u][i + 1]
      /\ Len(queue'[u]) = Len(queue[u]) - 1
  <2>1. queue[u] \in Seq(Items)
    BY DEF TypeOK, SubscriberTypeOK
  <2> QED
    BY <2>1, Delivered
<1>2. /\ got[u] \in Seq(Items) /\ queue[u] \in Seq(Items) /\ queue'[u] \in Seq(Items)
  BY DEF TypeOK, SubscriberTypeOK
<1> HIDE DEF item
<1>3. /\ DOMAIN got[u] \subseteq DOMAIN got'[u]
      /\ \A j \in DOMAIN got[u] : got'[u][j] = got[u][j]
      /\ Unseen(u, item) => \E j \in DOMAIN got'[u] : got'[u][j] = item
  <2>1. CASE Unseen(u, item)
    <3>1. got'[u] = Append(got[u], item)
      BY <1>1, <2>1
    <3>2. /\ Len(got[u]) \in Nat /\ DOMAIN got[u] = 1 .. Len(got[u])
          /\ DOMAIN got'[u] = 1 .. Len(got[u]) + 1 /\ got'[u][Len(got[u]) + 1] = item
          /\ \A j \in 1 .. Len(got[u]) : got'[u][j] = got[u][j]
      BY <1>1, <1>2, <3>1
    <3> DEFINE g == Len(got[u])
    <3>3. g \in Nat
      BY <3>2
    <3> HIDE DEF g
    <3>4. 1 .. g \subseteq 1 .. g + 1 /\ g + 1 \in 1 .. g + 1
      BY <3>3
    <3> QED
      BY <3>2, <3>4 DEF g
  <2>2. CASE ~Unseen(u, item)
    BY <1>1, <2>2
  <2> QED
    BY <2>1, <2>2
<1> DEFINE Heard == \E j \in DOMAIN got[u] : got[u][j].type \in Terminal
<1>4. Heard => Heard'
  BY <1>3
<1>5. item.type \in Terminal => Heard'
  <2>1. CASE Unseen(u, item)
    BY <1>3, <2>1
  <2>2. CASE ~Unseen(u, item)
    <3>1. CASE \E j \in DOMAIN got[u] : got[u][j] = item
      BY <1>3, <3>1
    <3>2. CASE \A j \in DOMAIN got[u] : got[u][j].seq < item.seq
      <4>1. got[u] = << >> \/ Len(got[u]) \in DOMAIN got[u]
        BY <1>2
      <4> QED
        BY <2>2, <3>2, <4>1 DEF Unseen
    <3> QED
      BY <1>1, <3>1, <3>2 DEF SkippedWasSent, item
  <2> QED
    BY <2>1, <2>2
<1>6. \A j \in DOMAIN queue[u] : j # 1 => j - 1 \in DOMAIN queue'[u] /\ queue'[u][j - 1] = queue[u][j]
  <2> DEFINE l == Len(queue[u])
  <2>1. l \in Nat /\ DOMAIN queue[u] = 1 .. l /\ DOMAIN queue'[u] = 1 .. (l - 1)
    BY <1>1, <1>2
  <2> HIDE DEF l
  <2> SUFFICES ASSUME NEW j \in DOMAIN queue[u], j # 1
               PROVE  j - 1 \in DOMAIN queue'[u] /\ queue'[u][j - 1] = queue[u][j]
    OBVIOUS
  <2>2. j - 1 \in DOMAIN queue'[u] /\ (j - 1) + 1 = j
    BY <2>1
  <2> QED
    BY <1>1, <2>2
<1>7. \A j \in DOMAIN queue[u] : j \in Nat
  BY <1>2
<1> HIDE DEF Heard
<1>8. ASSUME NEW j \in DOMAIN queue[u], queue[u][j].type \in Terminal
      PROVE  Heard' \/ (j - 1 \in DOMAIN queue'[u] /\ queue'[u][j - 1].type \in Terminal)
  BY <1>5, <1>6, <1>8 DEF item
<1>9. Informed(u) => Informed(u)'
  BY <1>4, <1>8 DEF Informed, Heard
<1>10. ASSUME NEW i \in DOMAIN queue'[u], Told(u, i + 1)
       PROVE  Told(u, i)'
  <2>1. i \in Nat
    BY <1>2
  <2>2. CASE Heard
    BY <1>4, <2>2 DEF Told, Heard
  <2>3. CASE ~Heard
    <3>1. PICK j \in DOMAIN queue[u] : j < i + 1 /\ queue[u][j].type \in Terminal
      BY <1>10, <2>3 DEF Told, Heard
    <3>2. j - 1 < i
      BY <1>7, <2>1, <3>1
    <3> QED
      BY <1>8, <3>1, <3>2 DEF Told, Heard
  <2> QED
    BY <2>2, <2>3
<1> QED
  BY <1>9, <1>10

\* Whoever has the whole log replayed is told its outcome.
LEMMA ToldReplayed ==
    ASSUME TypeOK, Numbered, Decided, NEW u \in Subscribers, Replays(u), sub'[u] = "live"
    PROVE  \E j \in DOMAIN got'[u] : got'[u][j].type \in Terminal
<1>1. PICK n \in Nat : DOMAIN log = 0 .. (n - 1)
  BY DEF Numbered
<1>2. got'[u] = Replay /\ \A k \in DOMAIN log : log[k] \notin StreamEnds
  BY DEF Replays, TypeOK, SubscriberTypeOK
<1>3. /\ Len(Replay) = n /\ Replay \in Seq(Items)
      /\ \A i \in DOMAIN Replay : Replay[i].type = log[i - 1]
  BY <1>1, <1>2, ReplayShape, ReplayFaithful
<1>4. PICK k \in DOMAIN log : log[k] \in Terminal
  BY DEF Decided
<1>5. k + 1 \in DOMAIN Replay /\ (k + 1) - 1 = k
  BY <1>1, <1>3, <1>4
<1>6. Replay[k + 1].type = log[k]
  BY <1>3, <1>5
<1> QED
  BY <1>2, <1>4, <1>5, <1>6

\* No cancel is under way after a step if none was before, or if the last one
\* is over with it.
LEMMA CancelledIdleStep ==
    ASSUME TypeOK, Control, HubNumbers, Quiet \/ Loud, (cancelled /\ CancelsIdle)'
    PROVE  (cancelled /\ CancelsIdle) \/ \E c \in Cancels : CancelFansOut(c)
<1> USE DEF CancelsIdle, TypeOK, TaskTypeOK
<1>0. Cancels \cap Tasks = {} /\ Cancels \subseteq Writers
  BY WriterAssumption DEF Writers, Tasks
<1>1. CASE Quiet
  BY <1>1 DEF Quiet
<1>2. ASSUME NEW p \in Tasks, Waits(p) \/ Appends(p)
      PROVE  cancelled /\ CancelsIdle
  <2>1. cancelled' = cancelled /\ \A c \in Cancels : io'[c] = io[c]
    BY <1>0, <1>2 DEF Waits, Appends, Join, hubVars
  <2> QED
    BY <2>1
<1>3. ASSUME NEW p \in Tasks, SinkDrops(p) \/ FansOut(p)
      PROVE  cancelled /\ CancelsIdle
  <2>1. cancelled' = cancelled /\ \A c \in Cancels : io'[c] = io[c]
    BY <1>0, <1>3 DEF SinkDrops, FansOut, Leave, hubVars
  <2> QED
    BY <2>1
<1>4. ASSUME NEW p \in Tasks, AppendFails(p)
      PROVE  FALSE
  BY <1>4 DEF AppendFails, HubNumbers
<1>5. ASSUME NEW p \in Writers, Projects(p)
      PROVE  cancelled /\ CancelsIdle
  <2>1. cancelled' = cancelled /\ io' = [io EXCEPT ![p] = "projected"]
    BY <1>5 DEF Projects, hubVars
  <2> QED
    BY <1>0, <2>1
<1>6. ASSUME NEW s \in Sections, EngineFails \/ SectionFails(s) \/ TimesOut
      PROVE  cancelled /\ CancelsIdle
  <2>1. cancelled' = cancelled /\ Leave(Tasks)
    BY <1>6 DEF EngineFails, SectionFails, TimesOut, Raise, hubVars
  <2>2. \A c \in Cancels : io'[c] = io[c]
    BY <1>0, <2>1 DEF Leave
  <2> QED
    BY <2>1, <2>2
<1>7. ASSUME NEW c \in Cancels, CancelMarks(c), hubUp
      PROVE  FALSE
  BY <1>0, <1>7 DEF CancelMarks, Join
<1>8. ASSUME NEW c \in Cancels, CancelAppends(c), ~Taken(nextSeq)
      PROVE  FALSE
  BY <1>0, <1>8 DEF CancelAppends
<1>9. ASSUME NEW u \in Subscribers, RegistersHub(u)
      PROVE  FALSE
  BY <1>9 DEF RegistersHub
<1> QED
  BY <1>1, <1>2, <1>3, <1>4, <1>5, <1>6, <1>7, <1>8, <1>9, SectionsAssumption DEF Loud

\* Every step keeps CancelTold.
LEMMA CancelToldStep ==
    ASSUME TypeOK, TypeOK', Control, GoneFuture, Queued, Numbered, Writing, Attended, SkippedWasSent,
           HubNumbers, CancelTold, Quiet \/ Loud, ~Restarts, [Next]_vars
    PROVE  CancelTold'
<1> SUFFICES ASSUME (cancelled /\ CancelsIdle)'
             PROVE  Decided' /\ \A u \in Subscribers : sub'[u] = "live" => Informed(u)'
  BY DEF CancelTold
<1>1. CASE cancelled /\ CancelsIdle
  <2>1. Decided /\ \A u \in Subscribers : sub[u] = "live" => Informed(u)
    BY <1>1 DEF CancelTold
  <2> SUFFICES ASSUME NEW u \in Subscribers, sub'[u] = "live"
               PROVE  Informed(u)'
    BY <2>1, DecidedStays
  <2>2. ASSUME sub'[u] = sub[u], got'[u] = got[u],
               \A j \in DOMAIN queue[u] : j \in DOMAIN queue'[u] /\ queue'[u][j] = queue[u][j]
        PROVE  Informed(u)'
    BY <2>1, <2>2, ToldKept
  <2>3. CASE UNCHANGED <<sub, queue, got>>
    BY <2>2, <2>3
  <2>4. CASE Torn \/ Fans
    <3>1. PICK items \in Seq(Items) : Pushed(items)
      BY <2>4, FansPushes, StopPushed DEF Torn
    <3> QED
      BY <2>2, <3>1, PushExtends
  <2>5. ASSUME NEW v \in Subscribers, Aside(v),
               Attaches(v) \/ Goes(v) \/ Replays(v) \/ Delivers(v)
        PROVE  Informed(u)'
    <3>1. CASE u # v
      BY <2>2, <2>5, <3>1 DEF Aside
    <3>2. CASE u = v /\ (Attaches(v) \/ Goes(v))
      BY <3>2 DEF Attaches, Goes, Registered
    <3>3. CASE u = v /\ Replays(v)
      BY <2>1, <3>3, ToldReplayed DEF Informed
    <3>4. CASE u = v /\ Delivers(v)
      <4>1. sub[u] = "live"
        BY <3>4 DEF Delivers
      <4> QED
        BY <2>1, <3>4, <4>1, ToldDelivered
    <3> QED
      BY <2>5, <3>1, <3>2, <3>3, <3>4
  <2> QED
    BY <2>3, <2>4, <2>5, ReadersStep, ServedStep
<1>2. ASSUME NEW c \in Cancels, CancelFansOut(c)
      PROVE  Decided' /\ \A u \in Subscribers : sub'[u] = "live" => Informed(u)'
  <2>1. io[c] = "projected" /\ c \in Writers /\ EventOf(c) = "cancelled"
    BY <1>2 DEF CancelFansOut, Writers, EventOf
  <2>2. Decided'
    BY <2>1, OutcomeLogged, DecidedStays DEF Terminal
  <2>3. PICK p \in Writers, items \in Seq(Items) :
             /\ io[p] = "projected" /\ Pushed(items)
             /\ Len(items) \in 1 .. 2 /\ items[1] = Written(p)
    BY <1>2, FansPushes DEF Fans
  <2>4. p = c
    BY <2>1, <2>3, LockExcludes
  <2>5. ASSUME NEW u \in Subscribers, sub'[u] = "live"
        PROVE  Informed(u)'
    <3>1. sub[u] \in Registered
      BY <2>3, <2>5, PushExtends DEF Registered
    <3>2. /\ Len(queue[u]) + 1 \in DOMAIN queue'[u]
          /\ queue'[u][Len(queue[u]) + 1] = Written(c)
      BY <2>3, <2>4, <3>1, PushReaches
    <3>3. Written(c).type \in Terminal
      BY <2>1 DEF Written, Terminal
    <3> QED
      BY <3>2, <3>3 DEF Informed
  <2> QED
    BY <2>2, <2>5
<1> QED
  BY <1>1, <1>2, CancelledIdleStep

\* Every step keeps StopTold.
LEMMA StopToldStep ==
    ASSUME TypeOK, TypeOK', Control, GoneFuture, Queued, Numbered, Writing, Attended, SkippedWasSent,
           HubNumbers, BehindCancel, CancelTold, StopTold, FinishDecided', ~Restarts, [Next]_vars
    PROVE  StopTold'
<1> SUFFICES ASSUME NEW u \in Subscribers, NEW i \in DOMAIN queue'[u], queue'[u][i] = Stop
             PROVE  Decided' /\ (sub'[u] = "live" => Told(u, i)')
  BY DEF StopTold
<1>0. queue[u] \in Seq(Items) /\ queue'[u] \in Seq(Items) /\ i \in Nat
  BY DEF TypeOK, SubscriberTypeOK
<1>1. ASSUME sub'[u] = sub[u], got'[u] = got[u], i \in DOMAIN queue[u],
             \A j \in DOMAIN queue[u] : j \in DOMAIN queue'[u] /\ queue'[u][j] = queue[u][j]
      PROVE  Decided' /\ (sub'[u] = "live" => Told(u, i)')
  <2>1. Decided /\ (sub[u] = "live" => Told(u, i))
    BY <1>1 DEF StopTold
  <2> QED
    BY <1>1, <2>1, DecidedStays, ToldKept
<1>2. CASE UNCHANGED <<sub, queue, got>>
  BY <1>1, <1>2
<1>3. CASE Torn
  <2>1. ASSUME Pushed(<< >>)
        PROVE  Decided' /\ (sub'[u] = "live" => Told(u, i)')
    <3>1. << >> \in Seq(Items) /\ Len(<< >>) = 0
      OBVIOUS
    <3> DEFINE none == << >>
    <3>2. none \in Seq(Items) /\ Pushed(none) /\ 1 .. Len(none) = {}
      BY <2>1, <3>1
    <3> HIDE DEF none
    <3> QED
      BY <1>1, <3>2, PushExtends
  <2>2. ASSUME Pushed(<<Stop>>), SinkDrops(Engine)
        PROVE  Decided' /\ (sub'[u] = "live" => Told(u, i)')
    <3>1. Decided /\ (sub[u] = "live" => Informed(u))
      BY <2>2, DropsIdle DEF CancelTold, Tasks
    <3> DEFINE one == <<Stop>>
    <3>2. one \in Seq(Items) /\ Pushed(one)
      BY <2>2, StopPushed
    <3> HIDE DEF one
    <3>3. /\ sub'[u] = sub[u] /\ got'[u] = got[u]
          /\ \A j \in DOMAIN queue[u] : j \in DOMAIN queue'[u] /\ queue'[u][j] = queue[u][j]
      BY <3>2, PushExtends
    <3>4. CASE i \in DOMAIN queue[u]
      BY <1>1, <3>3, <3>4
    <3>5. CASE i \notin DOMAIN queue[u]
      <4>1. \A j \in DOMAIN queue[u] : j < i
        BY <1>0, <3>5
      <4>2. Informed(u) => Told(u, i)
        BY <4>1 DEF Informed, Told
      <4> QED
        BY <3>1, <3>3, <4>2, DecidedStays, ToldKept
    <3> QED
      BY <3>4, <3>5
  <2>3. ASSUME NEW p \in Tasks, AppendFails(p)
        PROVE  FALSE
    BY <2>3 DEF AppendFails, HubNumbers
  <2> QED
    BY <1>3, <2>1, <2>2, <2>3 DEF Torn
<1>4. CASE Fans
  <2>1. PICK p \in Writers, items \in Seq(Items) :
             /\ io[p] = "projected" /\ Pushed(items)
             /\ Len(items) \in 1 .. 2 /\ items[1] = Written(p)
             /\ Len(items) = 2 => items[2] = Stop /\ Written(p).type \in Terminal
    BY <1>4, FansPushes
  <2>2. /\ sub'[u] = sub[u] /\ got'[u] = got[u] /\ Len(queue[u]) \in Nat
        /\ \A j \in DOMAIN queue[u] : j \in DOMAIN queue'[u] /\ queue'[u][j] = queue[u][j]
        /\ i \notin DOMAIN queue[u] =>
               /\ sub[u] \in Registered /\ i - Len(queue[u]) \in 1 .. Len(items)
               /\ queue'[u][i] = items[i - Len(queue[u])]
    BY <2>1, PushExtends
  <2>3. CASE i \in DOMAIN queue[u]
    BY <1>1, <2>2, <2>3
  <2>4. CASE i \notin DOMAIN queue[u]
    <3>1. Written(p) # Stop
      BY <2>1, EventTyped DEF Written, Stop, EventTypes, StatusEvents, SectionEvents
    <3> DEFINE l == Len(queue[u])
               k == Len(items)
    <3>2. l \in Nat /\ k \in 1 .. 2 /\ i - l \in 1 .. k /\ i - l # 1
      BY <2>1, <2>2, <2>4, <3>1
    <3>3. Written(p).type \in Terminal /\ l + 1 \in DOMAIN queue'[u] /\ queue'[u][l + 1] = Written(p)
      <4>1. k = 2
        <5> HIDE DEF l, k
        <5> QED
          BY <1>0, <3>2
      <4> QED
        BY <2>1, <2>2, <2>4, <4>1, PushReaches
    <3> HIDE DEF l, k
    <3>4. l + 1 < i
      BY <1>0, <3>2
    <3>5. Told(u, i)'
      BY <3>3, <3>4 DEF Told
    <3>6. EventOf(p) \in Terminal
      BY <3>3 DEF Written
    <3> QED
      BY <2>1, <3>5, <3>6, OutcomeLogged, DecidedStays
  <2> QED
    BY <2>3, <2>4
<1>5. ASSUME NEW v \in Subscribers, Aside(v), Attaches(v) \/ Goes(v) \/ Replays(v) \/ Delivers(v)
      PROVE  Decided' /\ (sub'[u] = "live" => Told(u, i)')
  <2>1. CASE u # v
    BY <1>1, <1>5, <2>1 DEF Aside
  <2>2. CASE u = v /\ Attaches(v)
    BY <2>2 DEF Attaches, FinishDecided
  <2>3. CASE u = v /\ Goes(v)
    BY <2>3 DEF Goes
  <2>4. CASE u = v /\ Replays(v)
    <3>1. queue'[u] = queue[u]
      BY <2>4 DEF Replays, TypeOK, SubscriberTypeOK
    <3>2. Decided
      BY <3>1 DEF StopTold
    <3> QED
      BY <2>4, <3>2, DecidedStays, ToldReplayed DEF Told
  <2>5. CASE u = v /\ Delivers(v)
    <3>1. /\ sub[u] = "live" /\ sub'[u] = "live"
          /\ i + 1 \in DOMAIN queue[u] /\ queue'[u][i] = queue[u][i + 1]
      BY <2>5, Delivered
    <3>2. Decided /\ Told(u, i + 1)
      BY <3>1 DEF StopTold
    <3> QED
      BY <2>5, <3>1, <3>2, DecidedStays, ToldDelivered
  <2> QED
    BY <1>5, <2>1, <2>2, <2>3, <2>4, <2>5
<1> QED
  BY <1>2, <1>3, <1>4, <1>5, ReadersStep, ServedStep

\* A set of numbers that is not empty has a least one.
LEMMA Least ==
    ASSUME NEW T, T \subseteq Nat, T # {}
    PROVE  \E x \in T : \A y \in T : x <= y
<1>1. \E x \in T : \A y \in T : ~ (<<y, x>> \in OpToRel(<, Nat))
  BY NatLessThanWellFounded, WFMin, Zenon
<1>2. PICK x \in T : \A y \in T : ~ (<<y, x>> \in OpToRel(<, Nat))
  BY <1>1, Zenon
<1>3. ASSUME NEW y \in T
      PROVE  x <= y
  <2>1. <<y, x>> \in Nat \X Nat
    OBVIOUS
  <2>2. ~(y < x)
    BY <1>2, <2>1, Zenon DEF OpToRel
  <2> QED
    BY <2>2
<1> QED
  BY <1>3

\* A replay that ends the stream shows the outcome it ends with.
LEMMA ReplayEnds ==
    ASSUME TypeOK, Numbered, \E k \in DOMAIN log : log[k] \in StreamEnds
    PROVE  \E i \in DOMAIN Replay : Replay[i].type \in Terminal
<1> DEFINE ends  == {k \in DOMAIN log : log[k] \in StreamEnds}
           shown == {m \in DOMAIN log : \A k \in DOMAIN log : k < m => log[k] \notin StreamEnds}
<1>1. PICK n \in Nat : DOMAIN log = 0 .. (n - 1)
  BY DEF Numbered
<1>2. PICK m \in ends : \A k \in ends : m <= k
  <2>1. ends \subseteq Nat /\ ends # {}
    BY <1>1
  <2> HIDE DEF ends
  <2> QED
    BY <2>1, Least
<1>3. m \in Nat /\ m \in DOMAIN log /\ log[m] \in StreamEnds
  BY <1>1, <1>2
<1>4. shown = 0 .. m
  BY <1>1, <1>2, <1>3
<1>5. Cardinality(shown) = m + 1
  <2>1. Cardinality(0 .. m) = m + 1
    BY <1>3, FS_Interval
  <2> HIDE DEF shown
  <2> QED
    BY <1>4, <2>1
<1>6. Replay = [i \in 1 .. Cardinality(shown) |-> [seq |-> i - 1, type |-> log[i - 1]]]
  BY DEF Replay
<1> HIDE DEF shown
<1>7. m + 1 \in DOMAIN Replay /\ Replay[m + 1].type = log[(m + 1) - 1] /\ (m + 1) - 1 = m
  BY <1>3, <1>5, <1>6
<1> QED
  BY <1>3, <1>7 DEF StreamEnds, Terminal

\* Who was told that the stream is over was told how the run ended.
Verdicts ==
    \A u \in Subscribers : sub[u] = "closed" => \E i \in DOMAIN got[u] : got[u][i].type \in Terminal

LEMMA VerdictsToldStep ==
    ASSUME TypeOK, TypeOK', Control, GoneFuture, Queued, Numbered, Writing, Attended, StopTold,
           Verdicts, ~Restarts, [Next]_vars
    PROVE  Verdicts'
<1> SUFFICES ASSUME NEW u \in Subscribers, sub'[u] = "closed"
             PROVE  \E i \in DOMAIN got'[u] : got'[u][i].type \in Terminal
  BY DEF Verdicts
<1>1. ASSUME sub'[u] = sub[u], got'[u] = got[u]
      PROVE  \E i \in DOMAIN got'[u] : got'[u][i].type \in Terminal
  BY <1>1 DEF Verdicts
<1>2. CASE Torn \/ Fans
  BY <1>1, <1>2, FansPushes DEF Torn, Pushed
<1>3. ASSUME NEW v \in Subscribers, Aside(v), Attaches(v) \/ Goes(v) \/ Replays(v) \/ Delivers(v)
      PROVE  \E i \in DOMAIN got'[u] : got'[u][i].type \in Terminal
  <2>1. CASE u # v
    BY <1>1, <1>3, <2>1 DEF Aside
  <2>2. CASE u = v /\ (Attaches(v) \/ Goes(v))
    BY <2>2 DEF Attaches, Goes
  <2>3. CASE u = v /\ Replays(v)
    <3>1. got'[u] = Replay /\ \E k \in DOMAIN log : log[k] \in StreamEnds
      BY <2>3 DEF Replays, TypeOK, SubscriberTypeOK
    <3> QED
      BY <3>1, ReplayEnds
  <2>4. CASE u = v /\ Delivers(v)
    <3> DEFINE item == queue[u][1]
    <3>1. /\ sub[u] = "live" /\ 1 \in DOMAIN queue[u] /\ item \in Items
          /\ got'[u] = IF item # Stop /\ Unseen(u, item) THEN Append(got[u], item) ELSE got[u]
          /\ item = Stop \/ (Unseen(u, item) /\ item.type \in StreamEnds)
      <4>1. queue[u] \in Seq(Items)
        BY DEF TypeOK, SubscriberTypeOK
      <4> QED
        BY <2>4, <4>1, Delivered
    <3>2. CASE item = Stop
      <4>1. Told(u, 1) /\ got'[u] = got[u]
        BY <3>1, <3>2 DEF StopTold
      <4>2. \A j \in DOMAIN queue[u] : ~(j < 1)
        BY DEF TypeOK, SubscriberTypeOK
      <4> QED
        BY <4>1, <4>2 DEF Told
    <3>3. CASE item # Stop
      <4> HIDE DEF item
      <4>1. got[u] \in Seq(Items) /\ got'[u] = Append(got[u], item) /\ item.type \in Terminal
        BY <3>1, <3>3 DEF StreamEnds, Terminal, TypeOK, SubscriberTypeOK
      <4>2. Len(got[u]) + 1 \in DOMAIN got'[u] /\ got'[u][Len(got[u]) + 1] = item
        BY <3>1, <4>1
      <4> QED
        BY <4>1, <4>2
    <3> QED
      BY <3>2, <3>3
  <2> QED
    BY <1>3, <2>1, <2>2, <2>3, <2>4
<1>4. CASE UNCHANGED <<sub, queue, got>>
  BY <1>1, <1>4
<1> QED
  BY <1>2, <1>3, <1>4, ReadersStep, ServedStep

OrderInv == QueuedWasFanned /\ QueueAscends /\ SkippedWasSent

VerdictInv ==
    /\ OrderInv
    /\ Unbroken => /\ HubNumbers /\ BehindCancel /\ CancelTold /\ StopTold
                   /\ FinishDecided /\ Verdicts

LEMMA VerdictInit == Init => VerdictInv
<1> SUFFICES ASSUME Init PROVE VerdictInv
  OBVIOUS
<1>1. OrderInv /\ StopTold /\ Verdicts
  BY DEF Init, OrderInv, QueuedWasFanned, QueueAscends, SkippedWasSent, StopTold, Verdicts
<1>2. DOMAIN log = {} /\ HubNumbers
  BY DEF Init, HubNumbers, Taken
<1>3. io[Engine] = "idle" /\ BehindCancel
  BY DEF Init, Writers, Tasks, BehindCancel
<1>4. CancelTold /\ FinishDecided
  BY DEF Init, CancelTold, FinishDecided
<1> QED
  BY <1>1, <1>2, <1>3, <1>4 DEF VerdictInv

LEMMA VerdictStep ==
    IInv /\ IInv' /\ OutcomeInv /\ ReaderInv /\ VerdictInv /\ [Next]_vars => VerdictInv'
<1> SUFFICES ASSUME IInv, IInv', OutcomeInv, ReaderInv, VerdictInv, [Next]_vars
             PROVE  VerdictInv'
  OBVIOUS
<1>1. /\ TypeOK /\ TypeOK' /\ Control /\ Queued /\ Numbered /\ Writing /\ SentWasPersisted
      /\ CancelMarked /\ GoneFuture /\ WritesLast /\ Attended
      /\ QueuedWasFanned /\ QueueAscends /\ SkippedWasSent
  BY DEF IInv, OutcomeInv, ReaderInv, VerdictInv, OrderInv
<1>2. OrderInv'
  BY <1>1, OrderStep DEF OrderInv
<1>3. ASSUME Unbroken'
      PROVE  /\ HubNumbers' /\ BehindCancel' /\ CancelTold' /\ StopTold'
             /\ FinishDecided' /\ Verdicts'
  <2>1. Unbroken /\ ~Restarts /\ (Quiet \/ Loud)
    BY <1>1, <1>3, UnbrokenStep, QuietOrLoud
  <2>2. HubNumbers /\ BehindCancel /\ CancelTold /\ StopTold /\ FinishDecided /\ Verdicts
    BY <2>1 DEF VerdictInv
  <2>3. HubNumbers' /\ BehindCancel'
    BY <1>1, <2>1, <2>2, HubNumbersStep, BehindCancelStep
  <2>4. CancelTold'
    BY <1>1, <2>1, <2>2, CancelToldStep
  <2>5. FinishDecided'
    BY <1>1, <2>2, FinishDecidedStep
  <2>6. StopTold'
    BY <1>1, <2>1, <2>2, <2>5, StopToldStep
  <2>7. Verdicts'
    BY <1>1, <2>1, <2>2, VerdictsToldStep
  <2> QED
    BY <2>3, <2>4, <2>5, <2>6, <2>7
<1> QED
  BY <1>2, <1>3 DEF VerdictInv

\* VerdictInv holds in every state of a run.
THEOREM VerdictInvariance == Spec => []VerdictInv
BY VerdictInit, VerdictStep, Invariance, OutcomeInvariance, ReaderInvariance, PTL DEF Spec

\* A stream the server closes told its reader how the run ended, whatever
\* ended it: done, error, a timeout, or a cancel that overtook them.
THEOREM ClosedWithVerdict == Spec => []ClosedStreamHasVerdict
<1>1. VerdictInv => ClosedStreamHasVerdict
  BY DEF VerdictInv, Verdicts, ClosedStreamHasVerdict, Unbroken
<1> QED
  BY <1>1, VerdictInvariance, PTL

-----------------------------------------------------------------------------
(* runs.status is what the last status event says *)

\* The status is the one of the last status event among those of D.
RowIs(D) ==
    \/ row = "queued" /\ \A n \in D : log[n] \notin StatusEvents
    \/ \E n \in D : /\ log[n] \in StatusEvents /\ row = log[n]
                    /\ \A k \in D : log[k] \in StatusEvents => k <= n

\* An event that was projected left its status.
RowMarked ==
    (\E p \in Writers : io[p] = "projected") /\ log[nextSeq - 1] \in StatusEvents =>
        row = log[nextSeq - 1]

\* The status is the last one logged, the event that is not projected yet left
\* out; it need not be while a timed out run still has its error to write.
RowFollows ==
    pc # "timeout" => IF \E p \in Writers : io[p] = "inserted"
                      THEN RowIs(DOMAIN log \ {nextSeq - 1})
                      ELSE RowIs(DOMAIN log)

\* The writers stay as they were.
LEMMA RowSame ==
    ASSUME RowMarked, RowFollows, row' = row, log' = log, nextSeq' = nextSeq,
           \A p \in Writers : (io'[p] = "inserted") <=> (io[p] = "inserted"),
           \A p \in Writers : io'[p] = "projected" => io[p] = "projected",
           pc' # "timeout" => pc # "timeout"
    PROVE  (RowMarked /\ RowFollows)'
BY DEF RowMarked, RowFollows, RowIs

\* Nobody was writing and somebody inserted an event.
LEMMA RowAppended ==
    ASSUME TypeOK, RowFollows, \A p \in Writers : io[p] \notin Inserted, ~Taken(nextSeq),
           NEW q \in Writers, io'[q] = "inserted", \A p \in Writers : io'[p] # "projected",
           NEW type, log' = LogWith(nextSeq, type), nextSeq' = nextSeq + 1, row' = row, pc' = pc
    PROVE  (RowMarked /\ RowFollows)'
<1>1. nextSeq \in Nat /\ nextSeq' - 1 = nextSeq /\ nextSeq \notin DOMAIN log
  BY DEF TypeOK, HubTypeOK, Taken
<1>2. DOMAIN log' \ {nextSeq' - 1} = DOMAIN log /\ \A n \in DOMAIN log : log'[n] = log[n]
  BY <1>1 DEF LogWith
<1>3. ASSUME pc' # "timeout"
      PROVE  RowIs(DOMAIN log)
  BY <1>3 DEF RowFollows, Inserted
<1>4. ASSUME RowIs(DOMAIN log)
      PROVE  RowIs(DOMAIN log \ {nextSeq - 1})'
  <2> DEFINE D == DOMAIN log
  <2>1. DOMAIN log' \ {nextSeq' - 1} = D /\ \A n \in D : log'[n] = log[n]
    BY <1>2
  <2>2. RowIs(D)
    BY <1>4
  <2> HIDE DEF D
  <2>3. \/ row' = "queued" /\ \A n \in D : log'[n] \notin StatusEvents
        \/ \E n \in D : /\ log'[n] \in StatusEvents /\ row' = log'[n]
                        /\ \A k \in D : log'[k] \in StatusEvents => k <= n
    BY <2>1, <2>2 DEF RowIs
  <2> QED
    BY <2>1, <2>3 DEF RowIs
<1> QED
  BY <1>3, <1>4 DEF RowMarked, RowFollows

\* The event of a writer is the last one of the log.
LEMMA WrittenLast ==
    ASSUME TypeOK, Numbered, Writing, WritesLast, NEW p \in Writers, io[p] \in Inserted
    PROVE  /\ nextSeq - 1 \in DOMAIN log /\ log[nextSeq - 1] = EventOf(p)
           /\ \A n \in DOMAIN log : n <= nextSeq - 1
<1>1. nextSeq - 1 \in DOMAIN log /\ log[nextSeq - 1] = EventOf(p) /\ ~Taken(nextSeq)
  BY DEF Writing, WritesLast, Inserted
<1>2. PICK n \in Nat : DOMAIN log = 0 .. (n - 1) /\ nextSeq <= n
  BY DEF Numbered
<1>3. nextSeq = n /\ nextSeq \in Nat
  BY <1>1, <1>2 DEF Taken, TypeOK, HubTypeOK
<1> QED
  BY <1>1, <1>2, <1>3

\* A writer goes on with its status in the row.
LEMMA RowFanned ==
    ASSUME TypeOK, Control, Queued, Numbered, Writing, WritesLast, RowMarked, RowFollows,
           NEW p \in Writers, io[p] = "projected", row' = row, log' = log, nextSeq' = nextSeq,
           \A q \in Writers : io'[q] \notin Inserted,
           pc = "timeout" => EventOf(p) \in StatusEvents
    PROVE  (RowMarked /\ RowFollows)'
<1>1. \A q \in Writers : io[q] # "inserted"
  BY LockExcludes
<1>2. RowIs(DOMAIN log)
  <2>1. CASE pc # "timeout"
    BY <1>1, <2>1 DEF RowFollows
  <2>2. CASE pc = "timeout"
    BY <2>2, WrittenLast DEF RowMarked, RowIs, Inserted
  <2> QED
    BY <2>1, <2>2
<1> QED
  BY <1>2 DEF RowMarked, RowFollows, RowIs, Inserted

\* Every step keeps the status the last one logged.
LEMMA RowMatchStep ==
    ASSUME TypeOK, Control, Queued, Numbered, Writing, WritesLast, HubNumbers,
           RowMarked, RowFollows, Quiet \/ Loud
    PROVE  (RowMarked /\ RowFollows)'
<1> DEFINE Goal == (RowMarked /\ RowFollows)'
<1> USE DEF TypeOK, TaskTypeOK
<1>0. Tasks \subseteq Writers /\ Cancels \subseteq Writers /\ Cancels \cap Tasks = {}
  BY WriterAssumption DEF Writers, Tasks
<1>1. ASSUME Quiet
      PROVE  Goal
  BY <1>1, RowSame DEF Quiet
<1>2. ASSUME NEW p \in Tasks, Waits(p)
      PROVE  Goal
  <2>1. /\ row' = row /\ log' = log /\ nextSeq' = nextSeq /\ pc' = pc
        /\ io[p] = "idle" /\ io' = [io EXCEPT ![p] = "waiting"]
    BY <1>2 DEF Waits, AtEmit, Join, dbVars, hubVars
  <2>2. \A q \in Writers : io'[q] \in Inserted \/ io[q] \in Inserted => io'[q] = io[q]
    BY <1>0, <2>1 DEF Inserted
  <2> QED
    BY <2>1, <2>2, RowSame DEF Inserted
<1>3. ASSUME NEW p \in Tasks, SinkDrops(p)
      PROVE  Goal
  <2>1. /\ row' = row /\ log' = log /\ nextSeq' = nextSeq
        /\ \A q \in Writers : io[q] \notin Inserted /\ io'[q] \notin Inserted
    <3>1. \A q \in Writers : io[q] \notin Inserted
      BY <1>3, EntersAlone DEF SinkDrops, Inserted
    <3> QED
      BY <1>3, <3>1 DEF SinkDrops, Leave, dbVars, hubVars, Inserted
  <2>2. pc' # "timeout" => pc # "timeout"
    BY <1>3 DEF SinkDrops, Return, Admitted
  <2> QED
    BY <2>1, <2>2, RowSame DEF Inserted
<1>4. ASSUME NEW p \in Tasks, Appends(p)
      PROVE  Goal
  <2>1. \A q \in Writers : io[q] \notin Inserted
    BY <1>4, EntersAlone DEF Appends, Inserted
  <2>2. /\ ~Taken(nextSeq) /\ log' = LogWith(nextSeq, EventOf(p)) /\ nextSeq' = nextSeq + 1
        /\ row' = row /\ pc' = pc /\ io' = [io EXCEPT ![p] = "inserted"]
    BY <1>4 DEF Appends
  <2>3. io'[p] = "inserted" /\ \A q \in Writers : io'[q] # "projected"
    BY <1>0, <2>1, <2>2 DEF Inserted
  <2> QED
    BY <1>0, <2>1, <2>2, <2>3, RowAppended
<1>5. ASSUME NEW p \in Tasks, AppendFails(p)
      PROVE  FALSE
  BY <1>5 DEF AppendFails, HubNumbers
<1>6. ASSUME NEW p \in Tasks, FansOut(p)
      PROVE  Goal
  <2>1. /\ io[p] = "projected" /\ row' = row /\ log' = log /\ nextSeq' = nextSeq
        /\ Leave({p})
    BY <1>6 DEF FansOut, dbVars, hubVars
  <2>2. \A q \in Writers : io'[q] \notin Inserted
    <3>1. \A q \in Writers : q # p => io[q] \notin Inserted
      BY <1>0, <2>1, LockExcludes DEF Inserted
    <3> QED
      BY <2>1, <3>1 DEF Leave, Inserted
  <2>3. pc = "timeout" => EventOf(p) \in StatusEvents
    <3>1. pc = "timeout" => p = Engine
      BY <2>1 DEF Control, Tasks
    <3> QED
      BY <3>1, WriterAssumption DEF EventOf, StatusEvents
  <2> QED
    BY <1>0, <2>1, <2>2, <2>3, RowFanned
<1>7. ASSUME NEW p \in Writers, Projects(p)
      PROVE  Goal
  <2>1. /\ io[p] = "inserted" /\ row' = RowAfter(EventOf(p)) /\ log' = log
        /\ nextSeq' = nextSeq /\ pc' = pc /\ io' = [io EXCEPT ![p] = "projected"]
    BY <1>7 DEF Projects, hubVars
  <2>2. \A q \in Writers : q # p => io[q] \notin Inserted
    BY <2>1, LockExcludes DEF Inserted
  <2>3. \A q \in Writers : io'[q] # "inserted"
    BY <2>1, <2>2 DEF Inserted
  <2> DEFINE last == nextSeq - 1
  <2>4. /\ last \in DOMAIN log /\ log[last] = EventOf(p)
        /\ \A n \in DOMAIN log : n <= last
    BY <2>1, WrittenLast DEF Inserted
  <2>5. row' = IF log[last] \in StatusEvents THEN log[last] ELSE row
    BY <2>1, <2>4 DEF RowAfter
  <2>6. pc # "timeout" => RowIs(DOMAIN log \ {last})
    BY <2>1 DEF RowFollows
  <2> HIDE DEF last
  <2>7. RowMarked'
    BY <2>1, <2>5 DEF RowMarked, last
  <2>8. CASE log[last] \in StatusEvents
    <3>1. RowIs(DOMAIN log)'
      BY <2>1, <2>4, <2>5, <2>8 DEF RowIs
    <3> QED
      BY <2>3, <2>7, <3>1 DEF RowFollows
  <2>9. CASE log[last] \notin StatusEvents
    <3>1. pc # "timeout" => RowIs(DOMAIN log)'
      BY <2>1, <2>4, <2>5, <2>6, <2>9 DEF RowIs
    <3> QED
      BY <2>1, <2>3, <2>7, <3>1 DEF RowFollows
  <2> QED
    BY <2>8, <2>9
<1>8. ASSUME row' = row, log' = log, nextSeq' = nextSeq, Leave(Tasks), pc # "timeout",
             \A p \in Tasks : io[p] = "inserted" => EventOf(p) \notin StatusEvents
      PROVE  Goal
  <2>1. \A q \in Writers : io'[q] = IF q \in Tasks THEN "idle" ELSE io[q]
    BY <1>8 DEF Leave
  <2>2. CASE \E p \in Tasks : io[p] = "inserted"
    <3>1. PICK p \in Tasks : io[p] = "inserted"
      BY <2>2
    <3>2. \A q \in Writers : io'[q] \notin Inserted
      BY <1>0, <2>1, <3>1, LockExcludes DEF Inserted
    <3>3. nextSeq - 1 \in DOMAIN log /\ log[nextSeq - 1] \notin StatusEvents
      BY <1>0, <1>8, <3>1, WrittenLast DEF Inserted
    <3>4. RowIs(DOMAIN log \ {nextSeq - 1})
      BY <1>0, <1>8, <3>1 DEF RowFollows
    <3>5. RowIs(DOMAIN log)
      BY <3>3, <3>4 DEF RowIs
    <3> QED
      BY <1>8, <3>2, <3>5 DEF RowMarked, RowFollows, RowIs, Inserted
  <2>3. CASE \A p \in Tasks : io[p] # "inserted"
    <3>1. /\ \A q \in Writers : (io'[q] = "inserted") <=> (io[q] = "inserted")
          /\ \A q \in Writers : io'[q] = "projected" => io[q] = "projected"
      BY <2>1, <2>3
    <3> QED
      BY <1>8, <3>1, RowSame
  <2> QED
    BY <2>2, <2>3
<1>9. ASSUME EngineFails
      PROVE  Goal
  <2>1. row' = row /\ log' = log /\ nextSeq' = nextSeq /\ Leave(Tasks) /\ pc # "timeout"
        /\ io[Engine] = "idle" /\ pc # "research"
    BY <1>9 DEF EngineFails, Raise, dbVars, hubVars
  <2>2. \A p \in Tasks : io[p] # "inserted"
    BY <2>1 DEF Control, Tasks
  <2> QED
    BY <1>8, <2>1, <2>2
<1>10. ASSUME NEW s \in Sections, SectionFails(s)
       PROVE  Goal
  <2>1. row' = row /\ log' = log /\ nextSeq' = nextSeq /\ Leave(Tasks) /\ pc = "research"
    BY <1>10 DEF SectionFails, Raise, dbVars, hubVars, Control
  <2>2. ASSUME NEW p \in Tasks, io[p] = "inserted"
        PROVE  EventOf(p) \notin StatusEvents
    <3>1. p \in Sections /\ sec[p] \in SectionEvents
      BY <2>1, <2>2 DEF Control, Tasks, EmitPcs
    <3> QED
      BY <3>1, WriterAssumption DEF EventOf, SectionEvents, StatusEvents
  <2> QED
    BY <1>8, <2>1, <2>2
<1>11. ASSUME TimesOut
       PROVE  Goal
  <2>1. /\ row' = row /\ log' = log /\ nextSeq' = nextSeq /\ pc' = "timeout"
        /\ \A q \in Writers : io'[q] \in {io[q], "idle"}
    BY <1>11 DEF TimesOut, Leave, dbVars
  <2> QED
    BY <2>1 DEF RowMarked, RowFollows
<1>12. ASSUME NEW c \in Cancels, CancelMarks(c), hubUp
       PROVE  Goal
  <2>1. /\ row' = row /\ log' = log /\ nextSeq' = nextSeq /\ pc' = pc
        /\ io[c] = "idle" /\ io' = [io EXCEPT ![c] = "waiting"]
    BY <1>12 DEF CancelMarks, Join, dbVars, Control
  <2>2. \A q \in Writers : io'[q] \in Inserted \/ io[q] \in Inserted => io'[q] = io[q]
    BY <1>0, <2>1 DEF Inserted
  <2> QED
    BY <2>1, <2>2, RowSame DEF Inserted
<1>13. ASSUME NEW c \in Cancels, CancelAppends(c), ~Taken(nextSeq)
       PROVE  Goal
  <2>1. \A q \in Writers : io[q] \notin Inserted
    BY <1>0, <1>13, LockExcludes DEF CancelAppends, HasLock, Inserted
  <2>2. /\ log' = LogWith(nextSeq, "cancelled") /\ nextSeq' = nextSeq + 1
        /\ row' = row /\ pc' = pc /\ io' = [io EXCEPT ![c] = "inserted"]
    BY <1>13 DEF CancelAppends
  <2>3. io'[c] = "inserted" /\ \A q \in Writers : io'[q] # "projected"
    BY <1>0, <2>1, <2>2 DEF Inserted
  <2> QED
    BY <1>0, <1>13, <2>1, <2>2, <2>3, RowAppended
<1>14. ASSUME NEW c \in Cancels, CancelFansOut(c)
       PROVE  Goal
  <2>1. /\ io[c] = "projected" /\ row' = row /\ log' = log /\ nextSeq' = nextSeq
        /\ EventOf(c) \in StatusEvents
    BY <1>14 DEF CancelFansOut, dbVars, EventOf, StatusEvents
  <2>2. \A q \in Writers : io'[q] \notin Inserted
    <3>1. \A q \in Writers : q # c => io[q] \notin Inserted
      BY <1>0, <2>1, LockExcludes DEF Inserted
    <3>2. Leave({c}) \/ Leave(Tasks \cup {c})
      BY <1>14, Zenon DEF CancelFansOut
    <3> QED
      BY <3>1, <3>2 DEF Leave, Inserted
  <2> QED
    BY <1>0, <2>1, <2>2, RowFanned
<1>15. ASSUME NEW u \in Subscribers, RegistersHub(u)
       PROVE  Goal
  <2>1. ~hubUp /\ row' = row /\ log' = log /\ io' = io /\ pc' = pc
    BY <1>15 DEF RegistersHub, Control, dbVars, taskVars
  <2>2. \A q \in Writers : io[q] = "idle"
    BY <2>1, NoHubNoWriter
  <2> QED
    BY <2>1, <2>2 DEF RowMarked, RowFollows, RowIs
<1> HIDE DEF Goal
<1>16. Goal
  BY <1>1, <1>2, <1>3, <1>4, <1>5, <1>6, <1>7, <1>9, <1>10, <1>11, <1>12, <1>13, <1>14, <1>15
     DEF Loud
<1> QED
  BY <1>16 DEF Goal

RowInv == Unbroken => RowMarked /\ RowFollows

LEMMA RowInit == Init => RowInv
BY DEF Init, RowInv, RowMarked, RowFollows, RowIs, Writers

LEMMA RowInvStep == IInv /\ OutcomeInv /\ VerdictInv /\ RowInv /\ [Next]_vars => RowInv'
<1> SUFFICES ASSUME IInv, OutcomeInv, VerdictInv, RowInv, [Next]_vars, Unbroken'
             PROVE  (RowMarked /\ RowFollows)'
  BY DEF RowInv
<1>1. TypeOK /\ Control /\ Queued /\ Numbered /\ Writing /\ WritesLast
  BY DEF IInv, OutcomeInv
<1>2. Unbroken /\ (Quiet \/ Loud)
  BY <1>1, UnbrokenStep, QuietOrLoud
<1>3. HubNumbers /\ RowMarked /\ RowFollows
  BY <1>2 DEF VerdictInv, RowInv
<1> QED
  BY <1>1, <1>2, <1>3, RowMatchStep

\* RowInv holds in every state of a run.
THEOREM RowInvariance == Spec => []RowInv
BY RowInit, RowInvStep, Invariance, OutcomeInvariance, VerdictInvariance, PTL DEF Spec

\* With nobody writing, runs.status is what the last status event of the log
\* says, although the two are written by different statements of several tasks.
THEOREM RowIsLastLogged == Spec => []RowMatchesLog
<1>1. RowInv => RowMatchesLog
  <2> SUFFICES ASSUME RowInv, Unbroken, \A p \in Writers : io[p] = "idle", pc # "timeout"
               PROVE  LET marks == {n \in DOMAIN log : log[n] \in StatusEvents}
                      IN  IF marks = {} THEN row = "queued"
                          ELSE \E n \in marks : row = log[n] /\ \A k \in marks : k <= n
    BY DEF RowMatchesLog, Unbroken
  <2>1. RowIs(DOMAIN log)
    BY DEF RowInv, RowFollows
  <2> QED
    BY <2>1 DEF RowIs
<1> QED
  BY <1>1, RowInvariance, PTL

=============================================================================

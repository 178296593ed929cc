--------------------------- MODULE RunServiceProofs ---------------------------
(***************************************************************************)
(* Proofs about RunService, for any number of sections, subscribers,       *)
(* cancels, submits and restarts.                                          *)
(***************************************************************************)
EXTENDS RunService, FiniteSetTheorems, TLAPS

\* Who writes, and what for.
Control ==
    /\ \A c \in Cancels : io[c] # "idle" => can[c] = "locked" /\ hubUp
    /\ io[Engine] # "idle" => pc \in EmitPcs
    /\ \A s \in Sections : io[s] # "idle" => sec[s] \in SectionEvents
    /\ \A s \in Sections :
          sec[s] \in SectionEvents \cup {"ready"} => pc = "research" /\ s \in plan
    /\ pc # "off" => hubUp
    /\ \A u \in Subscribers : sub[u] = "register" => ~hubUp
    /\ \A u \in Subscribers : sub[u] \in {"resolve", "start"} => hubUp /\ pc = "off"
    /\ \A u, v \in Subscribers : sub[u] \in Starting /\ sub[v] \in Starting => u = v

\* write_lock is a queue: of two writers in it one is behind the other, and
\* the one that has the lock is behind nobody.
Queued ==
    /\ \A p \in Writers : io[p] # "waiting" => ahead[p] = {}
    /\ \A p, q \in Writers :
          p # q /\ io[p] # "idle" /\ io[q] # "idle" => p \in ahead[q] \/ q \in ahead[p]

\* The log has the seqs 0 .. n-1, and whoever allocated a seq got one of them
\* or the next.
Numbered ==
    \E n \in Nat :
        /\ DOMAIN log = 0 .. (n - 1)
        /\ nextSeq <= n
        /\ \A c \in Cancels : can[c] = "unlocked" => seqOf[c] <= n

\* The event a writer is going to fan out is the last one the hub numbered.
Writing ==
    \A p \in Writers : io[p] \in {"inserted", "projected"} =>
        /\ nextSeq - 1 \in DOMAIN log
        /\ log[nextSeq - 1] = EventOf(p)

IInv == TypeOK /\ Control /\ Queued /\ Numbered /\ Writing /\ SentWasPersisted /\ SentInOrder

-----------------------------------------------------------------------------
(* Facts about the operators *)

\* A task in the lock's queue, or about to enter it, has an event to write.
LEMMA EventTyped ==
    ASSUME TypeOK, Control, NEW p \in Writers,
           io[p] # "idle" \/ Enters(p)
    PROVE  EventOf(p) \in EventTypes
BY WriterAssumption DEF TypeOK, TaskTypeOK, Control, EventOf, EventTypes, StatusEvents, SectionEvents, EmitPcs,
   Writers, Tasks, Enters, AtEmit, HasLock

\* Extending the log with a new event keeps it a log of events.
LEMMA LogWithTyped ==
    ASSUME DOMAIN log \subseteq Nat, \A n \in DOMAIN log : log[n] \in EventTypes,
           NEW seq \in Nat, NEW type \in EventTypes
    PROVE  /\ DOMAIN LogWith(seq, type) \subseteq Nat
           /\ \A n \in DOMAIN LogWith(seq, type) : LogWith(seq, type)[n] \in EventTypes
BY DEF LogWith

\* ... and keeps what it had.
LEMMA LogWithKeeps ==
    ASSUME NEW seq, NEW type, ~Taken(seq)
    PROVE  /\ DOMAIN LogWith(seq, type) = DOMAIN log \cup {seq}
           /\ LogWith(seq, type)[seq] = type
           /\ \A n \in DOMAIN log : LogWith(seq, type)[n] = log[n]
BY DEF LogWith, Taken

\* Pushing items keeps the queues sequences of items.
LEMMA PushTyped ==
    ASSUME queue \in [Subscribers -> Seq(Items)], NEW items \in Seq(Items)
    PROVE  PushTo(items) \in [Subscribers -> Seq(Items)]
BY DEF PushTo

LEMMA StopTyped == Stop \in Items
BY DEF Stop, Items

\* The event a writer fans out is an item.
LEMMA WrittenTyped ==
    ASSUME TypeOK, Control, Writing, NEW p \in Writers, io[p] \in {"inserted", "projected"}
    PROVE  Written(p) \in Items
<1>1. nextSeq - 1 \in Nat
  BY DEF Writing, TypeOK, StoreTypeOK
<1>2. EventOf(p) \in EventTypes
  BY EventTyped
<1> QED
  BY <1>1, <1>2 DEF Written, Items

\* Joining and leaving the lock's queue keep its variables typed.
LEMMA LockTyped ==
    ASSUME io \in [Writers -> {"idle", "waiting", "inserted", "projected"}],
           ahead \in [Writers -> SUBSET Writers]
    PROVE  /\ \A p \in Writers : Join(p) =>
                 /\ io' \in [Writers -> {"idle", "waiting", "inserted", "projected"}]
                 /\ ahead' \in [Writers -> SUBSET Writers]
           /\ \A ps : Leave(ps) =>
                 /\ io' \in [Writers -> {"idle", "waiting", "inserted", "projected"}]
                 /\ ahead' \in [Writers -> SUBSET Writers]
BY DEF Join, Leave

\* A replay shows events of the log, each at its own seq.
LEMMA ReplayFaithful ==
    ASSUME TypeOK, Numbered
    PROVE  /\ Replay \in Seq(Items)
           /\ \A i \in DOMAIN Replay : Replay[i].seq \in DOMAIN log
                                       /\ log[Replay[i].seq] = Replay[i].type
           /\ \A i, j \in DOMAIN Replay : i < j => Replay[i].seq < Replay[j].seq
<1> DEFINE shown == {n \in DOMAIN log : \A k \in DOMAIN log : k < n => log[k] \notin StreamEnds}
<1>1. PICK n \in Nat : DOMAIN log = 0 .. (n - 1)
  BY DEF Numbered
<1>2. IsFiniteSet(0 .. (n - 1)) /\ Cardinality(0 .. (n - 1)) = n
  BY <1>1, FS_Interval
<1>3. Cardinality(shown) \in Nat /\ Cardinality(shown) <= n
  BY <1>1, <1>2, FS_Subset, FS_CardinalityType
<1> DEFINE k == Cardinality(shown)
<1>4. Replay = [i \in 1 .. k |-> [seq |-> i - 1, type |-> log[i - 1]]]
  BY DEF Replay
<1>5. k \in Nat /\ k <= n
  BY <1>3
<1> HIDE DEF k
<1>6. \A i \in 1 .. k : i - 1 \in 0 .. (n - 1) /\ i - 1 \in Nat
  BY <1>5
<1>7. \A i \in 1 .. k : [seq |-> i - 1, type |-> log[i - 1]] \in Items
  BY <1>1, <1>6 DEF Items, TypeOK, StoreTypeOK
<1>8. \A i \in 1 .. k : i - 1 \in DOMAIN log
  BY <1>1, <1>6
<1>9. Replay \in Seq(Items)
  BY <1>4, <1>5, <1>7
<1> QED
  BY <1>4, <1>5, <1>8, <1>9

\* What raising an exception does to the run's task keeps the types.
LEMMA RaiseTyped ==
    ASSUME TypeOK, Raise
    PROVE  /\ pc' \in EmitPcs \cup {"off", "wait", "research", "finished", "dropped"}
           /\ sec' \in [Sections -> SectionEvents \cup {"off", "ready", "done"}]
           /\ io' \in [Writers -> {"idle", "waiting", "inserted", "projected"}]
           /\ ahead' \in [Writers -> SUBSET Writers]
           /\ queue' \in [Subscribers -> Seq(Items)]
<1>1. << >> \in Seq(Items) /\ <<Stop>> \in Seq(Items)
  BY StopTyped
<1>2. queue' \in [Subscribers -> Seq(Items)]
  BY <1>1, PushTyped DEF Raise, TypeOK, TaskTypeOK, SubscriberTypeOK
<1>3. /\ io' \in [Writers -> {"idle", "waiting", "inserted", "projected"}]
      /\ ahead' \in [Writers -> SUBSET Writers]
  BY LockTyped DEF Raise, TypeOK, TaskTypeOK, SubscriberTypeOK
<1> QED
  BY <1>2, <1>3 DEF Raise, EmitPcs

\* So does returning from an emission.
LEMMA ReturnTyped ==
    ASSUME TypeOK, NEW p \in Tasks, NEW items \in Seq(Items), Return(p, items)
    PROVE  /\ pc' \in EmitPcs \cup {"off", "wait", "research", "finished", "dropped"}
           /\ sec' \in [Sections -> SectionEvents \cup {"off", "ready", "done"}]
           /\ queue' \in [Subscribers -> Seq(Items)]
<1>1. items \in Seq(Items) /\ Append(items, Stop) \in Seq(Items)
  BY StopTyped
<1>2. queue' \in [Subscribers -> Seq(Items)]
  BY <1>1, PushTyped DEF Return, TypeOK, SubscriberTypeOK
<1>3. pc' \in EmitPcs \cup {"off", "wait", "research", "finished", "dropped"}
  BY DEF Return, AfterEmit, EmitPcs, TypeOK, TaskTypeOK
<1>4. sec' \in [Sections -> SectionEvents \cup {"off", "ready", "done"}]
  BY DEF Return, AfterSection, SectionEvents, TypeOK, TaskTypeOK
<1> QED
  BY <1>2, <1>3, <1>4

\* Every step keeps the types.
LEMMA TypeStep ==
    ASSUME TypeOK, Control, Numbered, Writing, [Next]_vars
    PROVE  TypeOK'
<1> USE DEF TypeOK, StoreTypeOK, HubTypeOK, TaskTypeOK, SubscriberTypeOK, RequestTypeOK, dbVars, hubVars, taskVars, subVars, canVars, submVars, Writers, Tasks, Statuses, StatusEvents, EmitPcs, SectionEvents, Starting, Registered
<1>1. CASE Approved
  BY <1>1 DEF Approved
<1>2. CASE Researched
  BY <1>2 DEF Researched
<1>3. ASSUME NEW s \in Sections, SectionBegins(s)
      PROVE  TypeOK'
  BY <1>3 DEF SectionBegins
<1>4. ASSUME NEW s \in Sections, UpsertPlanned(s)
      PROVE  TypeOK'
  BY <1>4 DEF UpsertPlanned
<1>5. ASSUME NEW p \in Tasks, Waits(p)
      PROVE  TypeOK'
  BY LockTyped, <1>5 DEF Waits
<1>6. ASSUME NEW p \in Tasks, SinkDrops(p)
      PROVE  TypeOK'
  <2>1. << >> \in Seq(Items)
    OBVIOUS
  <2> QED
    BY <2>1, ReturnTyped, LockTyped, <1>6 DEF SinkDrops
<1>7. ASSUME NEW p \in Tasks, Appends(p)
      PROVE  TypeOK'
  <2>1. EventOf(p) \in EventTypes
    BY <1>7, EventTyped DEF Appends
  <2>2. DOMAIN log' \subseteq Nat /\ \A n \in DOMAIN log' : log'[n] \in EventTypes
    BY <1>7, <2>1, LogWithTyped DEF Appends
  <2> QED
    BY <1>7, <2>2 DEF Appends
<1>8. ASSUME NEW p \in Tasks, AppendFails(p)
      PROVE  TypeOK'
  BY RaiseTyped, <1>8 DEF AppendFails
<1>9. ASSUME NEW p \in Tasks, FansOut(p)
      PROVE  TypeOK'
  <2>1. Written(p) \in Items
    BY <1>9, WrittenTyped DEF FansOut
  <2>2. <<Written(p)>> \in Seq(Items)
    BY <2>1
  <2>3. Return(p, <<Written(p)>>) /\ Leave({p})
    BY <1>9 DEF FansOut
  <2> QED
    BY <2>2, <2>3, ReturnTyped, LockTyped, <1>9 DEF FansOut
<1>10. ASSUME NEW p \in Writers, Projects(p)
      PROVE  TypeOK'
  <2>1. row' \in Statuses
    BY <1>10 DEF Projects, RowAfter
  <2> QED
    BY <1>10, <2>1 DEF Projects
<1>11. CASE EngineFails
  BY RaiseTyped, <1>11 DEF EngineFails
<1>12. ASSUME NEW s \in Sections, SectionFails(s)
      PROVE  TypeOK'
  BY RaiseTyped, <1>12 DEF SectionFails
<1>13. CASE TimesOut
  BY LockTyped, <1>13 DEF TimesOut
<1>14. CASE Restarts
  <2>1. << >> \in Seq(Items)
    OBVIOUS
  <2>2. /\ io' \in [Writers -> {"idle", "waiting", "inserted", "projected"}]
        /\ ahead' \in [Writers -> SUBSET Writers]
    BY <1>14, LockTyped DEF Restarts
  <2>3. queue' \in [Subscribers -> Seq(Items)] /\ got' \in [Subscribers -> Seq(Items)]
    BY <1>14, <2>1 DEF Restarts
  <2>4. can' \in [Cancels -> {"idle", "read", "refused", "locked", "unlocked",
                             "unlocked_inserted", "unlocked_done", "done", "failed", "lost"}]
    BY <1>14 DEF Restarts
  <2>5. subm' \in [Submits -> {"idle", "writing", "accepted", "refused", "failed", "lost"}]
    BY <1>14 DEF Restarts
  <2>11. StoreTypeOK'
    BY <1>14 DEF Restarts
  <2>12. HubTypeOK'
    BY <1>14 DEF Restarts
  <2>13. TaskTypeOK'
    BY <1>14, <2>2 DEF Restarts
  <2>14. SubscriberTypeOK'
    BY <1>14, <2>3 DEF Restarts
  <2>15. RequestTypeOK'
    BY <1>14, <2>4, <2>5 DEF Restarts
  <2> QED
    BY <2>11, <2>12, <2>13, <2>14, <2>15 DEF TypeOK
<1>15. ASSUME NEW c \in Cancels, CancelReads(c)
      PROVE  TypeOK'
  BY <1>15 DEF CancelReads
<1>16. ASSUME NEW c \in Cancels, CancelMarks(c)
      PROVE  TypeOK'
  <2>1. CountByRun \in Nat
    <3>1. PICK n \in Nat : DOMAIN log = 0 .. (n - 1)
      BY DEF Numbered
    <3> QED
      BY <3>1, FS_Interval, FS_CardinalityType DEF CountByRun
  <2>11. StoreTypeOK'
    BY <1>16 DEF CancelMarks
  <2>12. HubTypeOK'
    BY <1>16 DEF CancelMarks
  <2>13. TaskTypeOK'
    BY <1>16, LockTyped DEF CancelMarks
  <2>14. SubscriberTypeOK'
    BY <1>16 DEF CancelMarks
  <2>15. RequestTypeOK'
    BY <1>16, <2>1 DEF CancelMarks
  <2> QED
    BY <2>11, <2>12, <2>13, <2>14, <2>15 DEF TypeOK
<1>17. ASSUME NEW c \in Cancels, CancelAppends(c)
      PROVE  TypeOK'
  <2>1. "cancelled" \in EventTypes
    BY DEF EventTypes
  <2>2. DOMAIN log' \subseteq Nat /\ \A n \in DOMAIN log' : log'[n] \in EventTypes
    BY <1>17, <2>1, LogWithTyped DEF CancelAppends
  <2>11. StoreTypeOK'
    BY <1>17, <2>2 DEF CancelAppends
  <2>12. HubTypeOK'
    BY <1>17 DEF CancelAppends
  <2>13. TaskTypeOK'
    BY <1>17, LockTyped DEF CancelAppends
  <2>14. SubscriberTypeOK'
    BY <1>17 DEF CancelAppends
  <2>15. RequestTypeOK'
    BY <1>17 DEF CancelAppends
  <2> QED
    BY <2>11, <2>12, <2>13, <2>14, <2>15 DEF TypeOK
<1>18. ASSUME NEW c \in Cancels, CancelFansOut(c)
      PROVE  TypeOK'
  <2>1. <<Written(c), Stop>> \in Seq(Items) /\ <<Written(c)>> \in Seq(Items)
    BY <1>18, WrittenTyped, StopTyped DEF CancelFansOut
  <2>2. queue' \in [Subscribers -> Seq(Items)]
    BY <1>18, <2>1, PushTyped DEF CancelFansOut, LastWords
  <2>3. /\ io' \in [Writers -> {"idle", "waiting", "inserted", "projected"}]
        /\ ahead' \in [Writers -> SUBSET Writers]
    BY <1>18, LockTyped DEF CancelFansOut
  <2> QED
    BY <1>18, <2>2, <2>3 DEF CancelFansOut
<1>19. ASSUME NEW c \in Cancels, CancelAppendsUnlocked(c)
      PROVE  TypeOK'
  <2>1. "cancelled" \in EventTypes
    BY DEF EventTypes
  <2>2. DOMAIN log' \subseteq Nat /\ \A n \in DOMAIN log' : log'[n] \in EventTypes
    BY <1>19, <2>1, LogWithTyped DEF CancelAppendsUnlocked
  <2>11. StoreTypeOK'
    BY <1>19, <2>2 DEF CancelAppendsUnlocked
  <2>12. HubTypeOK'
    BY <1>19 DEF CancelAppendsUnlocked
  <2>13. TaskTypeOK'
    BY <1>19 DEF CancelAppendsUnlocked
  <2>14. SubscriberTypeOK'
    BY <1>19 DEF CancelAppendsUnlocked
  <2>15. RequestTypeOK'
    BY <1>19 DEF CancelAppendsUnlocked
  <2> QED
    BY <2>11, <2>12, <2>13, <2>14, <2>15 DEF TypeOK
<1>20. ASSUME NEW c \in Cancels, CancelProjectsUnlocked(c)
      PROVE  TypeOK'
  BY <1>20 DEF CancelProjectsUnlocked, RowAfter
<1>21. ASSUME NEW m \in Submits, NEW edited \in SUBSET Sections, SubmitEdits(m, edited)
      PROVE  TypeOK'
  BY <1>21 DEF SubmitEdits
<1>22. ASSUME NEW m \in Submits, NEW s \in Sections, SubmitUpserts(m, s)
      PROVE  TypeOK'
  BY <1>22 DEF SubmitUpserts
<1>23. ASSUME NEW m \in Submits, SubmitKeeps(m)
      PROVE  TypeOK'
  BY <1>23 DEF SubmitKeeps
<1>24. ASSUME NEW m \in Submits, SubmitRefused(m)
      PROVE  TypeOK'
  BY <1>24 DEF SubmitRefused
<1>25. ASSUME NEW m \in Submits, SubmitResolves(m)
      PROVE  TypeOK'
  <2>11. StoreTypeOK'
    BY <1>25 DEF SubmitResolves
  <2>12. HubTypeOK'
    BY <1>25 DEF SubmitResolves
  <2>13. TaskTypeOK'
    BY <1>25 DEF SubmitResolves
  <2>14. SubscriberTypeOK'
    BY <1>25 DEF SubmitResolves
  <2>15. RequestTypeOK'
    BY <1>25 DEF SubmitResolves
  <2> QED
    BY <2>11, <2>12, <2>13, <2>14, <2>15 DEF TypeOK
<1>26. ASSUME NEW u \in Subscribers, Connects(u)
      PROVE  TypeOK'
  <2>1. <<Stop>> \in Seq(Items) /\ << >> \in Seq(Items)
    BY StopTyped
  <2>2. queue' \in [Subscribers -> Seq(Items)]
    BY <1>26, <2>1 DEF Connects, Attach, FirstItems
  <2>3. got' \in [Subscribers -> Seq(Items)]
    BY <1>26, <2>1 DEF Connects, TypeOK, SubscriberTypeOK
  <2>11. StoreTypeOK'
    BY <1>26 DEF Connects, Attach
  <2>12. HubTypeOK'
    BY <1>26 DEF Connects, Attach
  <2>13. TaskTypeOK'
    BY <1>26 DEF Connects, Attach
  <2>14. SubscriberTypeOK'
    BY <1>26, <2>2, <2>3 DEF Connects, Attach
  <2>15. RequestTypeOK'
    BY <1>26 DEF Connects, Attach
  <2> QED
    BY <2>11, <2>12, <2>13, <2>14, <2>15 DEF TypeOK
<1>27. ASSUME NEW u \in Subscribers, RegistersHub(u)
      PROVE  TypeOK'
  BY <1>27 DEF RegistersHub
<1>28. ASSUME NEW u \in Subscribers, ResolvesRun(u)
      PROVE  TypeOK'
  BY <1>28 DEF ResolvesRun
<1>29. ASSUME NEW u \in Subscribers, StartsTask(u)
      PROVE  TypeOK'
  BY StopTyped, <1>29 DEF StartsTask, Attach, FirstItems
<1>30. ASSUME NEW u \in Subscribers, StartFails(u)
      PROVE  TypeOK'
  BY <1>30 DEF StartFails
<1>31. ASSUME NEW u \in Subscribers, Replays(u)
      PROVE  TypeOK'
  <2>1. Replay \in Seq(Items) /\ << >> \in Seq(Items)
    BY ReplayFaithful
  <2> DEFINE ended == \E n \in DOMAIN log : log[n] \in StreamEnds
  <2>2. \/ ended /\ sub' = [sub EXCEPT ![u] = "closed"] /\ queue' = [queue EXCEPT ![u] = << >>]
        \/ ~ended /\ sub' = [sub EXCEPT ![u] = "live"] /\ queue' = queue
    BY <1>31, Zenon DEF Replays
  <2> HIDE DEF ended
  <2>11. StoreTypeOK'
    BY <1>31 DEF Replays
  <2>12. HubTypeOK'
    BY <1>31 DEF Replays
  <2>13. TaskTypeOK'
    BY <1>31 DEF Replays
  <2>14. SubscriberTypeOK'
    BY <1>31, <2>1, <2>2 DEF Replays
  <2>15. RequestTypeOK'
    BY <1>31 DEF Replays
  <2> QED
    BY <2>11, <2>12, <2>13, <2>14, <2>15 DEF TypeOK
<1>32. ASSUME NEW u \in Subscribers, Delivers(u)
      PROVE  TypeOK'
  BY <1>32 DEF Delivers
<1>33. ASSUME NEW u \in Subscribers, Disconnects(u)
      PROVE  TypeOK'
  BY <1>33 DEF Disconnects
<1>34. CASE UNCHANGED vars
  BY <1>34 DEF vars, dbVars, hubVars, taskVars, subVars, canVars, submVars
<1> QED
  BY <1>1, <1>2, <1>3, <1>4, <1>5, <1>6, <1>7, <1>8, <1>9, <1>10, <1>11, <1>12, <1>13, <1>14, <1>15, <1>16, <1>17, <1>18, <1>19, <1>20, <1>21, <1>22, <1>23, <1>24, <1>25, <1>26, <1>27, <1>28, <1>29, <1>30, <1>31, <1>32, <1>33, <1>34
     DEF Next, EngineStep, Failure, CancelStep, SubmitStep, SubscriberStep

\* Every step keeps Control.
LEMMA ControlStep ==
    ASSUME TypeOK, Control, [Next]_vars
    PROVE  Control'
<1> USE DEF Control, TypeOK, TaskTypeOK, SubscriberTypeOK, RequestTypeOK, HubTypeOK, dbVars, hubVars, taskVars, subVars, canVars, submVars, Writers, Tasks, EmitPcs, SectionEvents, Starting, Registered
<1> USE WriterAssumption
<1>1. CASE Approved
  BY <1>1 DEF Approved
<1>2. CASE Researched
  BY <1>2 DEF Researched, AllDone
<1>3. ASSUME NEW s \in Sections, SectionBegins(s)
      PROVE  Control'
  BY <1>3 DEF SectionBegins
<1>4. ASSUME NEW s \in Sections, UpsertPlanned(s)
      PROVE  Control'
  BY <1>4 DEF UpsertPlanned
<1>5. ASSUME NEW p \in Tasks, Waits(p)
      PROVE  Control'
  BY <1>5 DEF Waits, AtEmit, Join
<1>6. ASSUME NEW p \in Tasks, SinkDrops(p)
      PROVE  Control'
  BY <1>6 DEF SinkDrops, Enters, AtEmit, HasLock, Return, AfterEmit, AfterSection, Leave
<1>7. ASSUME NEW p \in Tasks, Appends(p)
      PROVE  Control'
  BY <1>7 DEF Appends, Enters, AtEmit, HasLock
<1>8. ASSUME NEW p \in Tasks, AppendFails(p)
      PROVE  Control'
  BY <1>8 DEF AppendFails, Raise, Leave, Enters, AtEmit, HasLock
<1>9. ASSUME NEW p \in Tasks, FansOut(p)
      PROVE  Control'
  BY <1>9 DEF FansOut, Enters, AtEmit, HasLock, Return, AfterEmit, AfterSection, Leave
<1>10. ASSUME NEW p \in Writers, Projects(p)
      PROVE  Control'
  BY <1>10 DEF Projects
<1>11. CASE EngineFails
  BY <1>11 DEF EngineFails, Raise, Leave, Enters, AtEmit, HasLock
<1>12. ASSUME NEW s \in Sections, SectionFails(s)
      PROVE  Control'
  BY <1>12 DEF SectionFails, Raise, Leave, Enters, AtEmit, HasLock
<1>13. CASE TimesOut
  BY <1>13 DEF TimesOut, InEngineRun, Leave
<1>14. CASE Restarts
  BY <1>14 DEF Restarts, Leave
<1>15. ASSUME NEW c \in Cancels, CancelReads(c)
      PROVE  Control'
  BY <1>15 DEF CancelReads
<1>16. ASSUME NEW c \in Cancels, CancelMarks(c)
      PROVE  Control'
  <2>1. CASE hubUp
    <3>1. UNCHANGED <<hubUp, pc, plan, sec, sub>>
      BY <1>16, <2>1 DEF CancelMarks
    <3>2. can' = [can EXCEPT ![c] = "locked"] /\ can[c] = "read"
      BY <1>16, <2>1 DEF CancelMarks
    <3>3. io' = [io EXCEPT ![c] = "waiting"]
      BY <1>16, <2>1 DEF CancelMarks, Join
    <3>4. \A p \in Writers : p # c => io'[p] = io[p]
      BY <3>3
    <3>5. c # Engine /\ c \notin Sections
      OBVIOUS
    <3>6. \A d \in Cancels : io'[d] # "idle" => can'[d] = "locked" /\ hubUp'
      BY <2>1, <3>1, <3>2, <3>4
    <3>7. Engine \in Writers /\ \A s \in Sections : s \in Writers /\ s # c
      BY <3>5
    <3>8. io'[Engine] = io[Engine]
      BY <3>4, <3>5, <3>7
    <3>9. \A s \in Sections : io'[s] = io[s]
      BY <3>4, <3>7
    <3> QED
      BY <3>1, <3>6, <3>8, <3>9
  <2>2. CASE ~hubUp
    <3>1. UNCHANGED <<io, hubUp, pc, plan, sec, sub>>
      BY <1>16, <2>2 DEF CancelMarks
    <3>2. can' = [can EXCEPT ![c] = "unlocked"] /\ can[c] = "read"
      BY <1>16, <2>2 DEF CancelMarks
    <3> QED
      BY <3>1, <3>2
  <2> QED
    BY <2>1, <2>2
<1>17. ASSUME NEW c \in Cancels, CancelAppends(c)
      PROVE  Control'
  BY <1>17 DEF CancelAppends, HasLock, Leave
<1>18. ASSUME NEW c \in Cancels, CancelFansOut(c)
      PROVE  Control'
  BY <1>18 DEF CancelFansOut, Leave
<1>19. ASSUME NEW c \in Cancels, CancelAppendsUnlocked(c)
      PROVE  Control'
  BY <1>19 DEF CancelAppendsUnlocked
<1>20. ASSUME NEW c \in Cancels, CancelProjectsUnlocked(c)
      PROVE  Control'
  BY <1>20 DEF CancelProjectsUnlocked
<1>21. ASSUME NEW m \in Submits, NEW edited \in SUBSET Sections, SubmitEdits(m, edited)
      PROVE  Control'
  BY <1>21 DEF SubmitEdits
<1>22. ASSUME NEW m \in Submits, NEW s \in Sections, SubmitUpserts(m, s)
      PROVE  Control'
  BY <1>22 DEF SubmitUpserts
<1>23. ASSUME NEW m \in Submits, SubmitKeeps(m)
      PROVE  Control'
  BY <1>23 DEF SubmitKeeps
<1>24. ASSUME NEW m \in Submits, SubmitRefused(m)
      PROVE  Control'
  BY <1>24 DEF SubmitRefused
<1>25. ASSUME NEW m \in Submits, SubmitResolves(m)
      PROVE  Control'
  BY <1>25 DEF SubmitResolves
<1>26. ASSUME NEW u \in Subscribers, Connects(u)
      PROVE  Control'
  BY <1>26 DEF Connects, Attach, StartLockFree
<1>27. ASSUME NEW u \in Subscribers, RegistersHub(u)
      PROVE  Control'
  BY <1>27 DEF RegistersHub
<1>28. ASSUME NEW u \in Subscribers, ResolvesRun(u)
      PROVE  Control'
  BY <1>28 DEF ResolvesRun
<1>29. ASSUME NEW u \in Subscribers, StartsTask(u)
      PROVE  Control'
  <2>1. UNCHANGED <<io, hubUp, plan, sec, can>> /\ sub[u] = "start"
    BY <1>29 DEF StartsTask
  <2>2. pc' \in {"planning", "dropped"}
    BY <1>29 DEF StartsTask
  <2>3. sub' = [sub EXCEPT ![u] = "attached"]
    BY <1>29 DEF StartsTask, Attach
  <2>4. hubUp /\ pc = "off"
    BY <2>1
  <2>5. \A v \in Subscribers : sub'[v] \notin Starting
    BY <2>1, <2>3
  <2> QED
    BY <2>1, <2>2, <2>4, <2>5
<1>30. ASSUME NEW u \in Subscribers, StartFails(u)
      PROVE  Control'
  BY <1>30 DEF StartFails
<1>31. ASSUME NEW u \in Subscribers, Replays(u)
      PROVE  Control'
  <2>1. sub[u] = "attached" /\ (sub' = [sub EXCEPT ![u] = "closed"] \/ sub' = [sub EXCEPT ![u] = "live"])
    BY <1>31, Zenon DEF Replays
  <2>2. UNCHANGED <<io, hubUp, pc, plan, sec, can>>
    BY <1>31 DEF Replays
  <2>3. \A v \in Subscribers : sub'[v] = sub[v] \/ sub'[v] \notin Starting
    BY <2>1
  <2>4. \A v \in Subscribers : sub'[v] \in Starting => sub[v] = sub'[v]
    BY <2>3
  <2> QED
    BY <2>2, <2>4
<1>32. ASSUME NEW u \in Subscribers, Delivers(u)
      PROVE  Control'
  BY <1>32 DEF Delivers
<1>33. ASSUME NEW u \in Subscribers, Disconnects(u)
      PROVE  Control'
  BY <1>33 DEF Disconnects
<1>34. CASE UNCHANGED vars
  BY <1>34 DEF vars, dbVars, hubVars, taskVars, subVars, canVars, submVars
<1> QED
  BY <1>1, <1>2, <1>3, <1>4, <1>5, <1>6, <1>7, <1>8, <1>9, <1>10, <1>11, <1>12, <1>13, <1>14, <1>15, <1>16, <1>17, <1>18, <1>19, <1>20, <1>21, <1>22, <1>23, <1>24, <1>25, <1>26, <1>27, <1>28, <1>29, <1>30, <1>31, <1>32, <1>33, <1>34
     DEF Next, EngineStep, Failure, CancelStep, SubmitStep, SubscriberStep

\* Joining at the end, and leaving, keep the lock's queue in order.
LEMMA JoinQueued ==
    ASSUME TypeOK, Queued, NEW p \in Writers, io[p] = "idle", Join(p)
    PROVE  Queued'
BY DEF Queued, Join, TypeOK, TaskTypeOK

LEMMA LeaveQueued ==
    ASSUME TypeOK, Queued, NEW ps, Leave(ps)
    PROVE  Queued'
BY DEF Queued, Leave, TypeOK, TaskTypeOK

\* Every step keeps write_lock a queue.
LEMMA QueuedStep ==
    ASSUME TypeOK, Control, Queued, [Next]_vars
    PROVE  Queued'
<1> USE DEF dbVars, hubVars, taskVars, subVars, canVars, submVars, Writers, Tasks
<1>1. CASE Approved
  BY <1>1 DEF Approved, Queued
<1>2. CASE Researched
  BY <1>2 DEF Researched, Queued
<1>3. ASSUME NEW s \in Sections, SectionBegins(s)
      PROVE  Queued'
  BY <1>3 DEF SectionBegins, Queued
<1>4. ASSUME NEW s \in Sections, UpsertPlanned(s)
      PROVE  Queued'
  BY <1>4 DEF UpsertPlanned, Queued
<1>5. ASSUME NEW p \in Tasks, Waits(p)
      PROVE  Queued'
  BY <1>5, JoinQueued DEF Waits, AtEmit, Writers
<1>6. ASSUME NEW p \in Tasks, SinkDrops(p)
      PROVE  Queued'
  BY <1>6, LeaveQueued DEF SinkDrops
<1>7. ASSUME NEW p \in Tasks, Appends(p)
      PROVE  Queued'
  BY <1>7 DEF Appends, Enters, AtEmit, HasLock, Queued, TypeOK, TaskTypeOK
<1>8. ASSUME NEW p \in Tasks, AppendFails(p)
      PROVE  Queued'
  BY <1>8, LeaveQueued DEF AppendFails, Raise
<1>9. ASSUME NEW p \in Tasks, FansOut(p)
      PROVE  Queued'
  BY <1>9, LeaveQueued DEF FansOut
<1>10. ASSUME NEW p \in Writers, Projects(p)
      PROVE  Queued'
  BY <1>10 DEF Projects, Queued, TypeOK, TaskTypeOK
<1>11. CASE EngineFails
  BY <1>11, LeaveQueued DEF EngineFails, Raise
<1>12. ASSUME NEW s \in Sections, SectionFails(s)
      PROVE  Queued'
  BY <1>12, LeaveQueued DEF SectionFails, Raise
<1>13. CASE TimesOut
  BY <1>13, LeaveQueued DEF TimesOut
<1>14. CASE Restarts
  BY <1>14, LeaveQueued DEF Restarts
<1>15. ASSUME NEW c \in Cancels, CancelReads(c)
      PROVE  Queued'
  BY <1>15 DEF CancelReads, Queued
<1>16. ASSUME NEW c \in Cancels, CancelMarks(c)
      PROVE  Queued'
  <2>1. CASE hubUp
    BY <1>16, <2>1, JoinQueued DEF CancelMarks, Control, Writers
  <2>2. CASE ~hubUp
    <3>1. UNCHANGED <<io, ahead>>
      BY <1>16, <2>2 DEF CancelMarks
    <3> QED
      BY <3>1 DEF Queued
  <2> QED
    BY <2>1, <2>2
<1>17. ASSUME NEW c \in Cancels, CancelAppends(c)
      PROVE  Queued'
  <2>1. CASE Taken(nextSeq)
    BY <1>17, <2>1, LeaveQueued DEF CancelAppends
  <2>2. CASE ~Taken(nextSeq)
    <3>1. io' = [io EXCEPT ![c] = "inserted"] /\ ahead' = ahead /\ ahead[c] = {} /\ io[c] = "waiting"
      BY <1>17, <2>2 DEF CancelAppends, HasLock
    <3> QED
      BY <3>1 DEF Queued, TypeOK, TaskTypeOK
  <2> QED
    BY <2>1, <2>2
<1>18. ASSUME NEW c \in Cancels, CancelFansOut(c)
      PROVE  Queued'
  BY <1>18, LeaveQueued DEF CancelFansOut
<1>19. ASSUME NEW c \in Cancels, CancelAppendsUnlocked(c)
      PROVE  Queued'
  BY <1>19 DEF CancelAppendsUnlocked, Queued
<1>20. ASSUME NEW c \in Cancels, CancelProjectsUnlocked(c)
      PROVE  Queued'
  BY <1>20 DEF CancelProjectsUnlocked, Queued
<1>21. ASSUME NEW m \in Submits, NEW edited \in SUBSET Sections, SubmitEdits(m, edited)
      PROVE  Queued'
  BY <1>21 DEF SubmitEdits, Queued
<1>22. ASSUME NEW m \in Submits, NEW s \in Sections, SubmitUpserts(m, s)
      PROVE  Queued'
  BY <1>22 DEF SubmitUpserts, Queued
<1>23. ASSUME NEW m \in Submits, SubmitKeeps(m)
      PROVE  Queued'
  BY <1>23 DEF SubmitKeeps, Queued
<1>24. ASSUME NEW m \in Submits, SubmitRefused(m)
      PROVE  Queued'
  BY <1>24 DEF SubmitRefused, Queued
<1>25. ASSUME NEW m \in Submits, SubmitResolves(m)
      PROVE  Queued'
  BY <1>25 DEF SubmitResolves, Queued
<1>26. ASSUME NEW u \in Subscribers, Connects(u)
      PROVE  Queued'
  BY <1>26 DEF Connects, Queued
<1>27. ASSUME NEW u \in Subscribers, RegistersHub(u)
      PROVE  Queued'
  BY <1>27 DEF RegistersHub, Queued
<1>28. ASSUME NEW u \in Subscribers, ResolvesRun(u)
      PROVE  Queued'
  BY <1>28 DEF ResolvesRun, Queued
<1>29. ASSUME NEW u \in Subscribers, StartsTask(u)
      PROVE  Queued'
  BY <1>29 DEF StartsTask, Queued
<1>30. ASSUME NEW u \in Subscribers, StartFails(u)
      PROVE  Queued'
  BY <1>30 DEF StartFails, Queued
<1>31. ASSUME NEW u \in Subscribers, Replays(u)
      PROVE  Queued'
  BY <1>31 DEF Replays, Queued
<1>32. ASSUME NEW u \in Subscribers, Delivers(u)
      PROVE  Queued'
  BY <1>32 DEF Delivers, Queued
<1>33. ASSUME NEW u \in Subscribers, Disconnects(u)
      PROVE  Queued'
  BY <1>33 DEF Disconnects, Queued
<1>34. CASE UNCHANGED vars
  BY <1>34 DEF vars, dbVars, hubVars, taskVars, subVars, canVars, submVars, Queued
<1> QED
  BY <1>1, <1>2, <1>3, <1>4, <1>5, <1>6, <1>7, <1>8, <1>9, <1>10, <1>11, <1>12, <1>13, <1>14, <1>15, <1>16, <1>17, <1>18, <1>19, <1>20, <1>21, <1>22, <1>23, <1>24, <1>25, <1>26, <1>27, <1>28, <1>29, <1>30, <1>31, <1>32, <1>33, <1>34
     DEF Next, EngineStep, Failure, CancelStep, SubmitStep, SubscriberStep

\* Whoever has the lock writes alone.
LEMMA LockExcludes ==
    ASSUME TypeOK, Queued, NEW p \in Writers, NEW q \in Writers,
           \/ HasLock(p)
           \/ io[p] \in {"inserted", "projected"}
           \/ AtEmit(p) /\ \A w \in Writers : io[w] = "idle",
           io[q] \in {"inserted", "projected"}
    PROVE  p = q
BY DEF Queued, HasLock, AtEmit, TypeOK, TaskTypeOK

\* The seq that is not taken is the next one.
LEMMA NextSeqFree ==
    ASSUME TypeOK, NEW n \in Nat, DOMAIN log = 0 .. (n - 1),
           NEW seq \in Nat, seq <= n
    PROVE  /\ ~Taken(seq) => seq = n /\ DOMAIN log \cup {seq} = 0 .. ((n + 1) - 1)
           /\ Taken(seq) => seq + 1 <= n
BY DEF Taken

\* Every step keeps the log numbered.
LEMMA NumberedStep ==
    ASSUME TypeOK, Numbered, [Next]_vars
    PROVE  Numbered'
<1> USE DEF dbVars, hubVars, taskVars, subVars, canVars, submVars
<1>1. CASE Approved
  BY <1>1 DEF Approved, Numbered
<1>2. CASE Researched
  BY <1>2 DEF Researched, Numbered
<1>3. ASSUME NEW s \in Sections, SectionBegins(s)
      PROVE  Numbered'
  BY <1>3 DEF SectionBegins, Numbered
<1>4. ASSUME NEW s \in Sections, UpsertPlanned(s)
      PROVE  Numbered'
  BY <1>4 DEF UpsertPlanned, Numbered
<1>5. ASSUME NEW p \in Tasks, Waits(p)
      PROVE  Numbered'
  BY <1>5 DEF Waits, Numbered
<1>6. ASSUME NEW p \in Tasks, SinkDrops(p)
      PROVE  Numbered'
  BY <1>6 DEF SinkDrops, Numbered
<1>7. ASSUME NEW p \in Tasks, Appends(p)
      PROVE  Numbered'
  <2>1. PICK n \in Nat :
           DOMAIN log = 0 .. (n - 1) /\ nextSeq <= n
           /\ \A c_1 \in Cancels : can[c_1] = "unlocked" => seqOf[c_1] <= n
    BY DEF Numbered
  <2>2. nextSeq \in Nat /\ ~Taken(nextSeq) /\ nextSeq' = nextSeq + 1
        /\ log' = LogWith(nextSeq, EventOf(p)) /\ UNCHANGED <<can, seqOf>>
    BY <1>7 DEF Appends, TypeOK, HubTypeOK
  <2>3. nextSeq = n /\ DOMAIN log' = 0 .. ((n + 1) - 1)
    BY <2>1, <2>2, NextSeqFree, LogWithKeeps
  <2> QED
    BY <2>1, <2>2, <2>3 DEF Numbered, TypeOK, RequestTypeOK
<1>8. ASSUME NEW p \in Tasks, AppendFails(p)
      PROVE  Numbered'
  <2>1. PICK n \in Nat :
           DOMAIN log = 0 .. (n - 1) /\ nextSeq <= n
           /\ \A c_1 \in Cancels : can[c_1] = "unlocked" => seqOf[c_1] <= n
    BY DEF Numbered
  <2>2. nextSeq \in Nat /\ Taken(nextSeq) /\ nextSeq' = nextSeq + 1 /\ UNCHANGED <<log, can, seqOf>>
    BY <1>8 DEF AppendFails, TypeOK, HubTypeOK
  <2>3. nextSeq' <= n
    BY <2>1, <2>2, NextSeqFree
  <2> QED
    BY <2>1, <2>2, <2>3 DEF Numbered
<1>9. ASSUME NEW p \in Tasks, FansOut(p)
      PROVE  Numbered'
  BY <1>9 DEF FansOut, Numbered
<1>10. ASSUME NEW p \in Writers, Projects(p)
      PROVE  Numbered'
  BY <1>10 DEF Projects, Numbered
<1>11. CASE EngineFails
  BY <1>11 DEF EngineFails, Numbered
<1>12. ASSUME NEW s \in Sections, SectionFails(s)
      PROVE  Numbered'
  BY <1>12 DEF SectionFails, Numbered
<1>13. CASE TimesOut
  BY <1>13 DEF TimesOut, Numbered
<1>14. CASE Restarts
  <2>1. PICK n \in Nat :
           DOMAIN log = 0 .. (n - 1) /\ nextSeq <= n
           /\ \A c_1 \in Cancels : can[c_1] = "unlocked" => seqOf[c_1] <= n
    BY DEF Numbered
  <2>2. UNCHANGED log /\ nextSeq' = 0 /\ \A d \in Cancels : can'[d] # "unlocked"
    BY <1>14 DEF Restarts
  <2> QED
    BY <2>1, <2>2 DEF Numbered
<1>15. ASSUME NEW c \in Cancels, CancelReads(c)
      PROVE  Numbered'
  <2>1. PICK n \in Nat :
           DOMAIN log = 0 .. (n - 1) /\ nextSeq <= n
           /\ \A c_1 \in Cancels : can[c_1] = "unlocked" => seqOf[c_1] <= n
    BY DEF Numbered
  <2> QED
    BY <1>15, <2>1 DEF CancelReads, Numbered, TypeOK, RequestTypeOK
<1>16. ASSUME NEW c \in Cancels, CancelMarks(c)
      PROVE  Numbered'
  <2>1. PICK n \in Nat :
           DOMAIN log = 0 .. (n - 1) /\ nextSeq <= n
           /\ \A c_1 \in Cancels : can[c_1] = "unlocked" => seqOf[c_1] <= n
    BY DEF Numbered
  <2>2. UNCHANGED <<log, nextSeq>>
    BY <1>16 DEF CancelMarks
  <2>3. CASE hubUp
    <3>1. can' = [can EXCEPT ![c] = "locked"] /\ seqOf' = seqOf
      BY <1>16, <2>3 DEF CancelMarks
    <3> QED
      BY <2>1, <2>2, <3>1 DEF Numbered, TypeOK, RequestTypeOK
  <2>4. CASE ~hubUp
    <3>1. can' = [can EXCEPT ![c] = "unlocked"] /\ seqOf' = [seqOf EXCEPT ![c] = CountByRun]
      BY <1>16, <2>4 DEF CancelMarks
    <3>2. CountByRun = n
      BY <2>1, FS_Interval DEF CountByRun
    <3> QED
      BY <2>1, <2>2, <3>1, <3>2 DEF Numbered, TypeOK, RequestTypeOK
  <2> QED
    BY <2>3, <2>4
<1>17. ASSUME NEW c \in Cancels, CancelAppends(c)
      PROVE  Numbered'
  <2>1. PICK n \in Nat :
           DOMAIN log = 0 .. (n - 1) /\ nextSeq <= n
           /\ \A c_1 \in Cancels : can[c_1] = "unlocked" => seqOf[c_1] <= n
    BY DEF Numbered
  <2>2. nextSeq \in Nat /\ nextSeq' = nextSeq + 1 /\ UNCHANGED seqOf
    BY <1>17 DEF CancelAppends, TypeOK, HubTypeOK
  <2>3. CASE Taken(nextSeq)
    <3>1. log' = log /\ can' = [can EXCEPT ![c] = "failed"] /\ nextSeq' <= n
      BY <1>17, <2>1, <2>2, <2>3, NextSeqFree DEF CancelAppends
    <3> QED
      BY <2>1, <2>2, <3>1 DEF Numbered, TypeOK, RequestTypeOK
  <2>4. CASE ~Taken(nextSeq)
    <3>1. log' = LogWith(nextSeq, "cancelled") /\ can' = can
      BY <1>17, <2>4 DEF CancelAppends
    <3>2. nextSeq = n /\ DOMAIN log' = 0 .. ((n + 1) - 1)
      BY <2>1, <2>2, <2>4, <3>1, NextSeqFree, LogWithKeeps
    <3>3. \A d \in Cancels : can'[d] = "unlocked" => seqOf'[d] <= n + 1
      BY <2>1, <2>2, <3>1 DEF TypeOK, RequestTypeOK
    <3>4. n + 1 \in Nat /\ nextSeq' <= n + 1
      BY <2>2, <3>2
    <3> QED
      BY <3>2, <3>3, <3>4 DEF Numbered
  <2> QED
    BY <2>3, <2>4
<1>18. ASSUME NEW c \in Cancels, CancelFansOut(c)
      PROVE  Numbered'
  <2>1. PICK n \in Nat :
           DOMAIN log = 0 .. (n - 1) /\ nextSeq <= n
           /\ \A c_1 \in Cancels : can[c_1] = "unlocked" => seqOf[c_1] <= n
    BY DEF Numbered
  <2> QED
    BY <1>18, <2>1 DEF CancelFansOut, Numbered, TypeOK, RequestTypeOK
<1>19. ASSUME NEW c \in Cancels, CancelAppendsUnlocked(c)
      PROVE  Numbered'
  <2>1. PICK n \in Nat :
           DOMAIN log = 0 .. (n - 1) /\ nextSeq <= n
           /\ \A c_1 \in Cancels : can[c_1] = "unlocked" => seqOf[c_1] <= n
    BY DEF Numbered
  <2>2. seqOf[c] \in Nat /\ seqOf[c] <= n /\ UNCHANGED <<nextSeq, seqOf>>
    BY <1>19, <2>1 DEF CancelAppendsUnlocked, TypeOK, RequestTypeOK
  <2>3. CASE Taken(seqOf[c])
    <3>1. log' = log /\ can' = [can EXCEPT ![c] = "failed"]
      BY <1>19, <2>3 DEF CancelAppendsUnlocked
    <3> QED
      BY <2>1, <2>2, <3>1 DEF Numbered, TypeOK, RequestTypeOK
  <2>4. CASE ~Taken(seqOf[c])
    <3>1. log' = LogWith(seqOf[c], "cancelled") /\ can' = [can EXCEPT ![c] = "unlocked_inserted"]
      BY <1>19, <2>4 DEF CancelAppendsUnlocked
    <3>2. DOMAIN log' = 0 .. ((n + 1) - 1)
      BY <2>1, <2>2, <2>4, <3>1, NextSeqFree, LogWithKeeps
    <3>3. \A d \in Cancels : can'[d] = "unlocked" => seqOf'[d] <= n + 1
      BY <2>1, <2>2, <3>1 DEF TypeOK, RequestTypeOK
    <3>4. n + 1 \in Nat /\ nextSeq' <= n + 1
      BY <2>1, <2>2 DEF TypeOK, HubTypeOK
    <3> QED
      BY <3>2, <3>3, <3>4 DEF Numbered
  <2> QED
    BY <2>3, <2>4
<1>20. ASSUME NEW c \in Cancels, CancelProjectsUnlocked(c)
      PROVE  Numbered'
  <2>1. PICK n \in Nat :
           DOMAIN log = 0 .. (n - 1) /\ nextSeq <= n
           /\ \A c_1 \in Cancels : can[c_1] = "unlocked" => seqOf[c_1] <= n
    BY DEF Numbered
  <2> QED
    BY <1>20, <2>1 DEF CancelProjectsUnlocked, Numbered, TypeOK, RequestTypeOK
<1>21. ASSUME NEW m \in Submits, NEW edited \in SUBSET Sections, SubmitEdits(m, edited)
      PROVE  Numbered'
  BY <1>21 DEF SubmitEdits, Numbered
<1>22. ASSUME NEW m \in Submits, NEW s \in Sections, SubmitUpserts(m, s)
      PROVE  Numbered'
  BY <1>22 DEF SubmitUpserts, Numbered
<1>23. ASSUME NEW m \in Submits, SubmitKeeps(m)
      PROVE  Numbered'
  BY <1>23 DEF SubmitKeeps, Numbered
<1>24. ASSUME NEW m \in Submits, SubmitRefused(m)
      PROVE  Numbered'
  BY <1>24 DEF SubmitRefused, Numbered
<1>25. ASSUME NEW m \in Submits, SubmitResolves(m)
      PROVE  Numbered'
  BY <1>25 DEF SubmitResolves, Numbered
<1>26. ASSUME NEW u \in Subscribers, Connects(u)
      PROVE  Numbered'
  BY <1>26 DEF Connects, Numbered
<1>27. ASSUME NEW u \in Subscribers, RegistersHub(u)
      PROVE  Numbered'
  <2>1. PICK n \in Nat :
           DOMAIN log = 0 .. (n - 1) /\ nextSeq <= n
           /\ \A c_1 \in Cancels : can[c_1] = "unlocked" => seqOf[c_1] <= n
    BY DEF Numbered
  <2> QED
    BY <1>27, <2>1 DEF RegistersHub, Numbered
<1>28. ASSUME NEW u \in Subscribers, ResolvesRun(u)
      PROVE  Numbered'
  BY <1>28 DEF ResolvesRun, Numbered
<1>29. ASSUME NEW u \in Subscribers, StartsTask(u)
      PROVE  Numbered'
  BY <1>29 DEF StartsTask, Numbered
<1>30. ASSUME NEW u \in Subscribers, StartFails(u)
      PROVE  Numbered'
  BY <1>30 DEF StartFails, Numbered
<1>31. ASSUME NEW u \in Subscribers, Replays(u)
      PROVE  Numbered'
  BY <1>31 DEF Replays, Numbered
<1>32. ASSUME NEW u \in Subscribers, Delivers(u)
      PROVE  Numbered'
  BY <1>32 DEF Delivers, Numbered
<1>33. ASSUME NEW u \in Subscribers, Disconnects(u)
      PROVE  Numbered'
  BY <1>33 DEF Disconnects, Numbered
<1>34. CASE UNCHANGED vars
  BY <1>34 DEF vars, dbVars, hubVars, taskVars, subVars, canVars, submVars, Numbered
<1> QED
  BY <1>1, <1>2, <1>3, <1>4, <1>5, <1>6, <1>7, <1>8, <1>9, <1>10, <1>11, <1>12, <1>13, <1>14, <1>15, <1>16, <1>17, <1>18, <1>19, <1>20, <1>21, <1>22, <1>23, <1>24, <1>25, <1>26, <1>27, <1>28, <1>29, <1>30, <1>31, <1>32, <1>33, <1>34
     DEF Next, EngineStep, Failure, CancelStep, SubmitStep, SubscriberStep

\* Writing survives a step that numbers nothing, keeps the log's events and
\* changes no event that is being written.
LEMMA WritingKept ==
    ASSUME Writing, nextSeq' = nextSeq,
           \A n \in DOMAIN log : n \in DOMAIN log' /\ log'[n] = log[n],
           \A p \in Writers : io'[p] \in {"inserted", "projected"} =>
               io[p] \in {"inserted", "projected"} /\ EventOf(p)' = EventOf(p)
    PROVE  Writing'
BY DEF Writing

\* Nobody is writing when a task gets the lock.
LEMMA EntersAlone ==
    ASSUME TypeOK, Queued, NEW p \in Tasks, Enters(p), NEW q \in Writers
    PROVE  io[q] \notin {"inserted", "projected"}
BY LockExcludes DEF Enters, AtEmit, HasLock, Writers

\* Every step keeps the events being written in the log.
LEMMA WritingStep ==
    ASSUME TypeOK, Control, Queued, Writing, [Next]_vars
    PROVE  Writing'
<1> USE WriterAssumption
<1>1. CASE Approved
  <2>1. nextSeq' = nextSeq /\ log' = log
    BY <1>1 DEF Approved, dbVars, hubVars
  <2>2. \A q \in Writers : io'[q] \in {"inserted", "projected"} =>
           io[q] \in {"inserted", "projected"} /\ EventOf(q)' = EventOf(q)
    BY <1>1 DEF Approved, EventOf, Control, EmitPcs, SectionEvents, dbVars, hubVars, taskVars, Writers, Tasks, TypeOK, TaskTypeOK
  <2> QED
    BY <2>1, <2>2, WritingKept
<1>2. CASE Researched
  <2>1. nextSeq' = nextSeq /\ log' = log
    BY <1>2 DEF Researched, dbVars, hubVars
  <2>2. \A q \in Writers : io'[q] \in {"inserted", "projected"} =>
           io[q] \in {"inserted", "projected"} /\ EventOf(q)' = EventOf(q)
    BY <1>2 DEF Researched, EventOf, Control, EmitPcs, SectionEvents, dbVars, hubVars, taskVars, Writers, Tasks, TypeOK, TaskTypeOK
  <2> QED
    BY <2>1, <2>2, WritingKept
<1>3. ASSUME NEW s \in Sections, SectionBegins(s)
      PROVE  Writing'
  <2>1. nextSeq' = nextSeq /\ log' = log
    BY <1>3 DEF SectionBegins, dbVars, hubVars
  <2>2. \A q \in Writers : io'[q] \in {"inserted", "projected"} =>
           io[q] \in {"inserted", "projected"} /\ EventOf(q)' = EventOf(q)
    BY <1>3 DEF SectionBegins, EventOf, Control, EmitPcs, SectionEvents, dbVars, hubVars, taskVars, Writers, Tasks, TypeOK, TaskTypeOK
  <2> QED
    BY <2>1, <2>2, WritingKept
<1>4. ASSUME NEW s \in Sections, UpsertPlanned(s)
      PROVE  Writing'
  <2>1. nextSeq' = nextSeq /\ log' = log
    BY <1>4 DEF UpsertPlanned, dbVars, hubVars
  <2>2. \A q \in Writers : io'[q] \in {"inserted", "projected"} =>
           io[q] \in {"inserted", "projected"} /\ EventOf(q)' = EventOf(q)
    BY <1>4 DEF UpsertPlanned, EventOf, Control, EmitPcs, SectionEvents, dbVars, hubVars, taskVars, Writers, Tasks, TypeOK, TaskTypeOK
  <2> QED
    BY <2>1, <2>2, WritingKept
<1>5. ASSUME NEW p \in Tasks, Waits(p)
      PROVE  Writing'
  <2>1. nextSeq' = nextSeq /\ log' = log
    BY <1>5 DEF Waits, dbVars, hubVars
  <2>2. \A q \in Writers : io'[q] \in {"inserted", "projected"} =>
           io[q] \in {"inserted", "projected"} /\ EventOf(q)' = EventOf(q)
    BY <1>5 DEF Waits, EventOf, Control, AtEmit, Join, dbVars, hubVars, taskVars, Writers, Tasks, TypeOK, TaskTypeOK
  <2> QED
    BY <2>1, <2>2, WritingKept
<1>6. ASSUME NEW p \in Tasks, SinkDrops(p)
      PROVE  Writing'
  <2>1. \A q \in Writers : io'[q] \notin {"inserted", "projected"}
    BY <1>6, EntersAlone DEF SinkDrops, Leave
  <2> QED
    BY <2>1 DEF Writing
<1>7. ASSUME NEW p \in Tasks, Appends(p)
      PROVE  Writing'
  <2>1. \A q \in Writers : io'[q] \in {"inserted", "projected"} => q = p
    BY <1>7, EntersAlone DEF Appends, TypeOK, TaskTypeOK, Writers
  <2>2. ~Taken(nextSeq) /\ log' = LogWith(nextSeq, EventOf(p)) /\ nextSeq' = nextSeq + 1 /\ nextSeq \in Nat
    BY <1>7 DEF Appends, TypeOK, HubTypeOK
  <2>3. EventOf(p)' = EventOf(p)
    BY <1>7 DEF Appends, EventOf
  <2>4. nextSeq' - 1 = nextSeq
    BY <2>2
  <2>5. nextSeq \in DOMAIN log' /\ log'[nextSeq] = EventOf(p)
    BY <2>2 DEF LogWith
  <2> QED
    BY <2>1, <2>3, <2>4, <2>5 DEF Writing
<1>8. ASSUME NEW p \in Tasks, AppendFails(p)
      PROVE  Writing'
  <2>1. \A q \in Writers : io'[q] \notin {"inserted", "projected"}
    BY <1>8, EntersAlone DEF AppendFails, Raise, Leave
  <2> QED
    BY <2>1 DEF Writing
<1>9. ASSUME NEW p \in Tasks, FansOut(p)
      PROVE  Writing'
  <2>1. \A q \in Writers : io'[q] \notin {"inserted", "projected"}
    BY <1>9, LockExcludes DEF FansOut, Leave, Writers
  <2> QED
    BY <2>1 DEF Writing
<1>10. ASSUME NEW p \in Writers, Projects(p)
      PROVE  Writing'
  <2>1. nextSeq' = nextSeq /\ log' = log /\ pc' = pc /\ sec' = sec
        /\ io[p] = "inserted" /\ io' = [io EXCEPT ![p] = "projected"]
    BY <1>10 DEF Projects, hubVars
  <2>2. \A q \in Writers : io'[q] \in {"inserted", "projected"} =>
           io[q] \in {"inserted", "projected"} /\ EventOf(q)' = EventOf(q)
    BY <2>1 DEF EventOf, TypeOK, TaskTypeOK
  <2> QED
    BY <2>1, <2>2, WritingKept
<1>11. CASE EngineFails
  <2>1. nextSeq' = nextSeq /\ log' = log
    BY <1>11 DEF EngineFails, dbVars, hubVars
  <2>2. \A q \in Writers : io'[q] \in {"inserted", "projected"} =>
           io[q] \in {"inserted", "projected"} /\ EventOf(q)' = EventOf(q)
    BY <1>11 DEF EngineFails, EventOf, Control, Raise, Leave, InEngineRun, dbVars, hubVars, taskVars, Writers, Tasks, TypeOK, TaskTypeOK
  <2> QED
    BY <2>1, <2>2, WritingKept
<1>12. ASSUME NEW s \in Sections, SectionFails(s)
      PROVE  Writing'
  <2>1. nextSeq' = nextSeq /\ log' = log
    BY <1>12 DEF SectionFails, dbVars, hubVars
  <2>2. \A q \in Writers : io'[q] \in {"inserted", "projected"} =>
           io[q] \in {"inserted", "projected"} /\ EventOf(q)' = EventOf(q)
    BY <1>12 DEF SectionFails, EventOf, Control, Raise, Leave, InEngineRun, dbVars, hubVars, taskVars, Writers, Tasks, TypeOK, TaskTypeOK
  <2> QED
    BY <2>1, <2>2, WritingKept
<1>13. CASE TimesOut
  <2>1. nextSeq' = nextSeq /\ log' = log
    BY <1>13 DEF TimesOut, dbVars, hubVars
  <2>2. \A q \in Writers : io'[q] \in {"inserted", "projected"} =>
           io[q] \in {"inserted", "projected"} /\ EventOf(q)' = EventOf(q)
    BY <1>13 DEF TimesOut, EventOf, Control, Raise, Leave, InEngineRun, dbVars, hubVars, taskVars, Writers, Tasks, TypeOK, TaskTypeOK
  <2> QED
    BY <2>1, <2>2, WritingKept
<1>14. CASE Restarts
  <2>1. \A q \in Writers : io'[q] \notin {"inserted", "projected"}
    BY <1>14 DEF Restarts, Leave
  <2> QED
    BY <2>1 DEF Writing
<1>15. ASSUME NEW c \in Cancels, CancelReads(c)
      PROVE  Writing'
  <2>1. nextSeq' = nextSeq /\ log' = log
    BY <1>15 DEF CancelReads, dbVars, hubVars
  <2>2. \A q \in Writers : io'[q] \in {"inserted", "projected"} =>
           io[q] \in {"inserted", "projected"} /\ EventOf(q)' = EventOf(q)
    BY <1>15 DEF CancelReads, EventOf, Control, EmitPcs, SectionEvents, dbVars, hubVars, taskVars, Writers, Tasks, TypeOK, TaskTypeOK
  <2> QED
    BY <2>1, <2>2, WritingKept
<1>16. ASSUME NEW c \in Cancels, CancelMarks(c)
      PROVE  Writing'
  <2>1. nextSeq' = nextSeq /\ log' = log /\ pc' = pc /\ sec' = sec
    BY <1>16 DEF CancelMarks, dbVars
  <2>2. \A q \in Writers : io'[q] \in {"inserted", "projected"} => io[q] \in {"inserted", "projected"}
    <3>1. CASE hubUp
      BY <1>16, <3>1 DEF CancelMarks, Join, Writers, TypeOK, TaskTypeOK
    <3>2. CASE ~hubUp
      BY <1>16, <3>2 DEF CancelMarks
    <3> QED
      BY <3>1, <3>2
  <2>3. \A q \in Writers : EventOf(q)' = EventOf(q)
    BY <2>1 DEF EventOf
  <2> QED
    BY <2>1, <2>2, <2>3, WritingKept
<1>17. ASSUME NEW c \in Cancels, CancelAppends(c)
      PROVE  Writing'
  <2>1. \A q \in Writers : io[q] \notin {"inserted", "projected"}
    BY <1>17, LockExcludes DEF CancelAppends, HasLock, Writers
  <2>2. CASE Taken(nextSeq)
    <3>1. \A q \in Writers : io'[q] \notin {"inserted", "projected"}
      BY <1>17, <2>1, <2>2 DEF CancelAppends, Leave
    <3> QED
      BY <3>1 DEF Writing
  <2>3. CASE ~Taken(nextSeq)
    <3>1. log' = LogWith(nextSeq, "cancelled") /\ nextSeq' = nextSeq + 1 /\ nextSeq \in Nat
          /\ io' = [io EXCEPT ![c] = "inserted"]
      BY <1>17, <2>3 DEF CancelAppends, TypeOK, HubTypeOK
    <3>2. nextSeq' - 1 = nextSeq
      BY <3>1
    <3>4. nextSeq \in DOMAIN log' /\ log'[nextSeq] = "cancelled"
      BY <2>3, <3>1 DEF LogWith
    <3>3. EventOf(c)' = "cancelled"
      BY DEF EventOf
    <3> QED
      BY <2>1, <3>1, <3>2, <3>3, <3>4 DEF Writing, TypeOK, TaskTypeOK
  <2> QED
    BY <2>2, <2>3
<1>18. ASSUME NEW c \in Cancels, CancelFansOut(c)
      PROVE  Writing'
  <2>1. nextSeq' = nextSeq /\ log' = log
    BY <1>18 DEF CancelFansOut, dbVars, hubVars
  <2>2. \A q \in Writers : io'[q] \in {"inserted", "projected"} =>
           io[q] \in {"inserted", "projected"} /\ EventOf(q)' = EventOf(q)
    BY <1>18 DEF CancelFansOut, EventOf, Control, Leave, dbVars, hubVars, taskVars, Writers, Tasks, TypeOK, TaskTypeOK
  <2> QED
    BY <2>1, <2>2, WritingKept
<1>19. ASSUME NEW c \in Cancels, CancelAppendsUnlocked(c)
      PROVE  Writing'
  <2>1. nextSeq' = nextSeq /\ io' = io /\ pc' = pc /\ sec' = sec
    BY <1>19 DEF CancelAppendsUnlocked, hubVars, taskVars
  <2>2. \A n \in DOMAIN log : n \in DOMAIN log' /\ log'[n] = log[n]
    <3>1. CASE Taken(seqOf[c])
      BY <1>19, <3>1 DEF CancelAppendsUnlocked
    <3>2. CASE ~Taken(seqOf[c])
      <4>1. log' = LogWith(seqOf[c], "cancelled")
        BY <1>19, <3>2, Zenon DEF CancelAppendsUnlocked
      <4> QED
        BY <3>2, <4>1 DEF LogWith, Taken
    <3> QED
      BY <3>1, <3>2
  <2>3. \A q \in Writers : EventOf(q)' = EventOf(q)
    BY <2>1 DEF EventOf
  <2> QED
    BY <2>1, <2>2, <2>3, WritingKept
<1>20. ASSUME NEW c \in Cancels, CancelProjectsUnlocked(c)
      PROVE  Writing'
  <2>1. nextSeq' = nextSeq /\ log' = log
    BY <1>20 DEF CancelProjectsUnlocked, dbVars, hubVars
  <2>2. \A q \in Writers : io'[q] \in {"inserted", "projected"} =>
           io[q] \in {"inserted", "projected"} /\ EventOf(q)' = EventOf(q)
    BY <1>20 DEF CancelProjectsUnlocked, EventOf, Control, EmitPcs, SectionEvents, dbVars, hubVars, taskVars, Writers, Tasks, TypeOK, TaskTypeOK
  <2> QED
    BY <2>1, <2>2, WritingKept
<1>21. ASSUME NEW m \in Submits, NEW edited \in SUBSET Sections, SubmitEdits(m, edited)
      PROVE  Writing'
  <2>1. nextSeq' = nextSeq /\ log' = log
    BY <1>21 DEF SubmitEdits, dbVars, hubVars
  <2>2. \A q \in Writers : io'[q] \in {"inserted", "projected"} =>
           io[q] \in {"inserted", "projected"} /\ EventOf(q)' = EventOf(q)
    BY <1>21 DEF SubmitEdits, EventOf, Control, EmitPcs, SectionEvents, dbVars, hubVars, taskVars, Writers, Tasks, TypeOK, TaskTypeOK
  <2> QED
    BY <2>1, <2>2, WritingKept
<1>22. ASSUME NEW m \in Submits, NEW s \in Sections, SubmitUpserts(m, s)
      PROVE  Writing'
  <2>1. nextSeq' = nextSeq /\ log' = log
    BY <1>22 DEF SubmitUpserts, dbVars, hubVars
  <2>2. \A q \in Writers : io'[q] \in {"inserted", "projected"} =>
           io[q] \in {"inserted", "projected"} /\ EventOf(q)' = EventOf(q)
    BY <1>22 DEF SubmitUpserts, EventOf, Control, EmitPcs, SectionEvents, dbVars, hubVars, taskVars, Writers, Tasks, TypeOK, TaskTypeOK
  <2> QED
    BY <2>1, <2>2, WritingKept
<1>23. ASSUME NEW m \in Submits, SubmitKeeps(m)
      PROVE  Writing'
  <2>1. nextSeq' = nextSeq /\ log' = log
    BY <1>23 DEF SubmitKeeps, dbVars, hubVars
  <2>2. \A q \in Writers : io'[q] \in {"inserted", "projected"} =>
           io[q] \in {"inserted", "projected"} /\ EventOf(q)' = EventOf(q)
    BY <1>23 DEF SubmitKeeps, EventOf, Control, EmitPcs, SectionEvents, dbVars, hubVars, taskVars, Writers, Tasks, TypeOK, TaskTypeOK
  <2> QED
    BY <2>1, <2>2, WritingKept
<1>24. ASSUME NEW m \in Submits, SubmitRefused(m)
      PROVE  Writing'
  <2>1. nextSeq' = nextSeq /\ log' = log
    BY <1>24 DEF SubmitRefused, dbVars, hubVars
  <2>2. \A q \in Writers : io'[q] \in {"inserted", "projected"} =>
           io[q] \in {"inserted", "projected"} /\ EventOf(q)' = EventOf(q)
    BY <1>24 DEF SubmitRefused, EventOf, Control, EmitPcs, SectionEvents, dbVars, hubVars, taskVars, Writers, Tasks, TypeOK, TaskTypeOK
  <2> QED
    BY <2>1, <2>2, WritingKept
<1>25. ASSUME NEW m \in Submits, SubmitResolves(m)
      PROVE  Writing'
  <2>1. nextSeq' = nextSeq /\ log' = log
    BY <1>25 DEF SubmitResolves, dbVars, hubVars
  <2>2. \A q \in Writers : io'[q] \in {"inserted", "projected"} =>
           io[q] \in {"inserted", "projected"} /\ EventOf(q)' = EventOf(q)
    BY <1>25 DEF SubmitResolves, EventOf, Control, EmitPcs, SectionEvents, dbVars, hubVars, taskVars, Writers, Tasks, TypeOK, TaskTypeOK
  <2> QED
    BY <2>1, <2>2, WritingKept
<1>26. ASSUME NEW u \in Subscribers, Connects(u)
      PROVE  Writing'
  <2>1. nextSeq' = nextSeq /\ log' = log
    BY <1>26 DEF Connects, dbVars, hubVars
  <2>2. \A q \in Writers : io'[q] \in {"inserted", "projected"} =>
           io[q] \in {"inserted", "projected"} /\ EventOf(q)' = EventOf(q)
    BY <1>26 DEF Connects, EventOf, Control, EmitPcs, SectionEvents, dbVars, hubVars, taskVars, Writers, Tasks, TypeOK, TaskTypeOK
  <2> QED
    BY <2>1, <2>2, WritingKept
<1>27. ASSUME NEW u \in Subscribers, RegistersHub(u)
      PROVE  Writing'
  <2>1. \A q \in Writers : io'[q] \notin {"inserted", "projected"}
    BY <1>27 DEF RegistersHub, taskVars, Control, Writers, Tasks, EmitPcs, SectionEvents
  <2> QED
    BY <2>1 DEF Writing
<1>28. ASSUME NEW u \in Subscribers, ResolvesRun(u)
      PROVE  Writing'
  <2>1. nextSeq' = nextSeq /\ log' = log
    BY <1>28 DEF ResolvesRun, dbVars, hubVars
  <2>2. \A q \in Writers : io'[q] \in {"inserted", "projected"} =>
           io[q] \in {"inserted", "projected"} /\ EventOf(q)' = EventOf(q)
    BY <1>28 DEF ResolvesRun, EventOf, Control, EmitPcs, SectionEvents, dbVars, hubVars, taskVars, Writers, Tasks, TypeOK, TaskTypeOK
  <2> QED
    BY <2>1, <2>2, WritingKept
<1>29. ASSUME NEW u \in Subscribers, StartsTask(u)
      PROVE  Writing'
  <2>1. nextSeq' = nextSeq /\ log' = log
    BY <1>29 DEF StartsTask, dbVars, hubVars
  <2>2. \A q \in Writers : io'[q] \in {"inserted", "projected"} =>
           io[q] \in {"inserted", "projected"} /\ EventOf(q)' = EventOf(q)
    BY <1>29 DEF StartsTask, EventOf, Control, EmitPcs, SectionEvents, dbVars, hubVars, taskVars, Writers, Tasks, TypeOK, TaskTypeOK
  <2> QED
    BY <2>1, <2>2, WritingKept
<1>30. ASSUME NEW u \in Subscribers, StartFails(u)
      PROVE  Writing'
  <2>1. nextSeq' = nextSeq /\ log' = log
    BY <1>30 DEF StartFails, dbVars, hubVars
  <2>2. \A q \in Writers : io'[q] \in {"inserted", "projected"} =>
           io[q] \in {"inserted", "projected"} /\ EventOf(q)' = EventOf(q)
    BY <1>30 DEF StartFails, EventOf, Control, EmitPcs, SectionEvents, dbVars, hubVars, taskVars, Writers, Tasks, TypeOK, TaskTypeOK
  <2> QED
    BY <2>1, <2>2, WritingKept
<1>31. ASSUME NEW u \in Subscribers, Replays(u)
      PROVE  Writing'
  <2>1. nextSeq' = nextSeq /\ log' = log
    BY <1>31 DEF Replays, dbVars, hubVars
  <2>2. \A q \in Writers : io'[q] \in {"inserted", "projected"} =>
           io[q] \in {"inserted", "projected"} /\ EventOf(q)' = EventOf(q)
    BY <1>31 DEF Replays, EventOf, Control, EmitPcs, SectionEvents, dbVars, hubVars, taskVars, Writers, Tasks, TypeOK, TaskTypeOK
  <2> QED
    BY <2>1, <2>2, WritingKept
<1>32. ASSUME NEW u \in Subscribers, Delivers(u)
      PROVE  Writing'
  <2>1. nextSeq' = nextSeq /\ log' = log
    BY <1>32 DEF Delivers, dbVars, hubVars
  <2>2. \A q \in Writers : io'[q] \in {"inserted", "projected"} =>
           io[q] \in {"inserted", "projected"} /\ EventOf(q)' = EventOf(q)
    BY <1>32 DEF Delivers, EventOf, Control, EmitPcs, SectionEvents, dbVars, hubVars, taskVars, Writers, Tasks, TypeOK, TaskTypeOK
  <2> QED
    BY <2>1, <2>2, WritingKept
<1>33. ASSUME NEW u \in Subscribers, Disconnects(u)
      PROVE  Writing'
  <2>1. nextSeq' = nextSeq /\ log' = log
    BY <1>33 DEF Disconnects, dbVars, hubVars
  <2>2. \A q \in Writers : io'[q] \in {"inserted", "projected"} =>
           io[q] \in {"inserted", "projected"} /\ EventOf(q)' = EventOf(q)
    BY <1>33 DEF Disconnects, EventOf, Control, EmitPcs, SectionEvents, dbVars, hubVars, taskVars, Writers, Tasks, TypeOK, TaskTypeOK
  <2> QED
    BY <2>1, <2>2, WritingKept
<1>34. CASE UNCHANGED vars
  BY <1>34 DEF vars, dbVars, hubVars, taskVars, Writing, EventOf
<1> QED
  BY <1>1, <1>2, <1>3, <1>4, <1>5, <1>6, <1>7, <1>8, <1>9, <1>10, <1>11, <1>12, <1>13, <1>14, <1>15, <1>16, <1>17, <1>18, <1>19, <1>20, <1>21, <1>22, <1>23, <1>24, <1>25, <1>26, <1>27, <1>28, <1>29, <1>30, <1>31, <1>32, <1>33, <1>34
     DEF Next, EngineStep, Failure, CancelStep, SubmitStep, SubscriberStep

\* The events of the log stay where they are.
LogGrows == \A n \in DOMAIN log : n \in DOMAIN log' /\ log'[n] = log[n]

\* The log only grows: no step drops or changes an event.
LEMMA LogStep ==
    ASSUME [Next]_vars
    PROVE  LogGrows
<1> USE DEF LogGrows
<1>1. CASE Approved
  BY <1>1 DEF Approved, dbVars
<1>2. CASE Researched
  BY <1>2 DEF Researched, dbVars
<1>3. ASSUME NEW s \in Sections, SectionBegins(s)
      PROVE  LogGrows
  BY <1>3 DEF SectionBegins, dbVars
<1>4. ASSUME NEW s \in Sections, UpsertPlanned(s)
      PROVE  LogGrows
  BY <1>4 DEF UpsertPlanned, dbVars
<1>5. ASSUME NEW p \in Tasks, Waits(p)
      PROVE  LogGrows
  BY <1>5 DEF Waits, dbVars
<1>6. ASSUME NEW p \in Tasks, SinkDrops(p)
      PROVE  LogGrows
  BY <1>6 DEF SinkDrops, dbVars
<1>7. ASSUME NEW p \in Tasks, Appends(p)
      PROVE  LogGrows
  <2>1. ~Taken(nextSeq) /\ log' = LogWith(nextSeq, EventOf(p))
    BY <1>7 DEF Appends
  <2> QED
    BY <2>1 DEF LogWith, Taken
<1>8. ASSUME NEW p \in Tasks, AppendFails(p)
      PROVE  LogGrows
  BY <1>8 DEF AppendFails, dbVars
<1>9. ASSUME NEW p \in Tasks, FansOut(p)
      PROVE  LogGrows
  BY <1>9 DEF FansOut, dbVars
<1>10. ASSUME NEW p \in Writers, Projects(p)
      PROVE  LogGrows
  BY <1>10 DEF Projects, dbVars
<1>11. CASE EngineFails
  BY <1>11 DEF EngineFails, dbVars
<1>12. ASSUME NEW s \in Sections, SectionFails(s)
      PROVE  LogGrows
  BY <1>12 DEF SectionFails, dbVars
<1>13. CASE TimesOut
  BY <1>13 DEF TimesOut, dbVars
<1>14. CASE Restarts
  BY <1>14 DEF Restarts, dbVars
<1>15. ASSUME NEW c \in Cancels, CancelReads(c)
      PROVE  LogGrows
  BY <1>15 DEF CancelReads, dbVars
<1>16. ASSUME NEW c \in Cancels, CancelMarks(c)
      PROVE  LogGrows
  BY <1>16 DEF CancelMarks, dbVars
<1>17. ASSUME NEW c \in Cancels, CancelAppends(c)
      PROVE  LogGrows
  <2>1. CASE Taken(nextSeq)
    BY <1>17, <2>1 DEF CancelAppends
  <2>2. CASE ~Taken(nextSeq)
    <3>1. log' = LogWith(nextSeq, "cancelled")
      BY <1>17, <2>2, Zenon DEF CancelAppends
    <3> QED
      BY <2>2, <3>1 DEF LogWith, Taken
  <2> QED
    BY <2>1, <2>2
<1>18. ASSUME NEW c \in Cancels, CancelFansOut(c)
      PROVE  LogGrows
  BY <1>18 DEF CancelFansOut, dbVars
<1>19. ASSUME NEW c \in Cancels, CancelAppendsUnlocked(c)
      PROVE  LogGrows
  <2>1. CASE Taken(seqOf[c])
    BY <1>19, <2>1 DEF CancelAppendsUnlocked
  <2>2. CASE ~Taken(seqOf[c])
    <3>1. log' = LogWith(seqOf[c], "cancelled")
      BY <1>19, <2>2, Zenon DEF CancelAppendsUnlocked
    <3> QED
      BY <2>2, <3>1 DEF LogWith, Taken
  <2> QED
    BY <2>1, <2>2
<1>20. ASSUME NEW c \in Cancels, CancelProjectsUnlocked(c)
      PROVE  LogGrows
  BY <1>20 DEF CancelProjectsUnlocked, dbVars
<1>21. ASSUME NEW m \in Submits, NEW edited \in SUBSET Sections, SubmitEdits(m, edited)
      PROVE  LogGrows
  BY <1>21 DEF SubmitEdits, dbVars
<1>22. ASSUME NEW m \in Submits, NEW s \in Sections, SubmitUpserts(m, s)
      PROVE  LogGrows
  BY <1>22 DEF SubmitUpserts, dbVars
<1>23. ASSUME NEW m \in Submits, SubmitKeeps(m)
      PROVE  LogGrows
  BY <1>23 DEF SubmitKeeps, dbVars
<1>24. ASSUME NEW m \in Submits, SubmitRefused(m)
      PROVE  LogGrows
  BY <1>24 DEF SubmitRefused, dbVars
<1>25. ASSUME NEW m \in Submits, SubmitResolves(m)
      PROVE  LogGrows
  BY <1>25 DEF SubmitResolves, dbVars
<1>26. ASSUME NEW u \in Subscribers, Connects(u)
      PROVE  LogGrows
  BY <1>26 DEF Connects, dbVars
<1>27. ASSUME NEW u \in Subscribers, RegistersHub(u)
      PROVE  LogGrows
  BY <1>27 DEF RegistersHub, dbVars
<1>28. ASSUME NEW u \in Subscribers, ResolvesRun(u)
      PROVE  LogGrows
  BY <1>28 DEF ResolvesRun, dbVars
<1>29. ASSUME NEW u \in Subscribers, StartsTask(u)
      PROVE  LogGrows
  BY <1>29 DEF StartsTask, dbVars
<1>30. ASSUME NEW u \in Subscribers, StartFails(u)
      PROVE  LogGrows
  BY <1>30 DEF StartFails, dbVars
<1>31. ASSUME NEW u \in Subscribers, Replays(u)
      PROVE  LogGrows
  BY <1>31 DEF Replays, dbVars
<1>32. ASSUME NEW u \in Subscribers, Delivers(u)
      PROVE  LogGrows
  BY <1>32 DEF Delivers, dbVars
<1>33. ASSUME NEW u \in Subscribers, Disconnects(u)
      PROVE  LogGrows
  BY <1>33 DEF Disconnects, dbVars
<1>34. CASE UNCHANGED vars
  BY <1>34 DEF vars, dbVars
<1> QED
  BY <1>1, <1>2, <1>3, <1>4, <1>5, <1>6, <1>7, <1>8, <1>9, <1>10, <1>11, <1>12, <1>13, <1>14, <1>15, <1>16, <1>17, <1>18, <1>19, <1>20, <1>21, <1>22, <1>23, <1>24, <1>25, <1>26, <1>27, <1>28, <1>29, <1>30, <1>31, <1>32, <1>33, <1>34
     DEF Next, EngineStep, Failure, CancelStep, SubmitStep, SubscriberStep

\* The events that are shown stay good when the log grows, nobody is sent
\* anything and some connections start over.
LEMMA SentKept ==
    ASSUME SentWasPersisted, SentInOrder, LogGrows,
           \A u \in Subscribers : got'[u] = got[u] \/ got'[u] = << >>,
           \A u \in Subscribers : \A i \in DOMAIN queue'[u] :
               \/ queue'[u][i] = Stop
               \/ i \in DOMAIN queue[u] /\ queue'[u][i] = queue[u][i]
               \/ queue'[u][i].seq \in DOMAIN log' /\ log'[queue'[u][i].seq] = queue'[u][i].type
    PROVE  (SentWasPersisted /\ SentInOrder)'
<1>1. SentWasPersisted'
  BY DEF SentWasPersisted, LogGrows
<1>2. SentInOrder'
  BY DEF SentInOrder
<1> QED
  BY <1>1, <1>2

\* So they do when the items pushed on the queues are events of the log.
LEMMA SentPushed ==
    ASSUME TypeOK, SentWasPersisted, SentInOrder, log' = log, got' = got,
           NEW items \in Seq(Items), queue' = PushTo(items),
           \A i \in DOMAIN items :
               \/ items[i] = Stop
               \/ items[i].seq \in DOMAIN log /\ log[items[i].seq] = items[i].type
    PROVE  (SentWasPersisted /\ SentInOrder)'
<1>1. ASSUME NEW u \in Subscribers, NEW i \in DOMAIN queue'[u]
      PROVE  \/ queue'[u][i] = Stop
             \/ i \in DOMAIN queue[u] /\ queue'[u][i] = queue[u][i]
             \/ queue'[u][i].seq \in DOMAIN log' /\ log'[queue'[u][i].seq] = queue'[u][i].type
  <2>1. queue[u] \in Seq(Items)
    BY DEF TypeOK, SubscriberTypeOK
  <2>2. queue'[u] = queue[u] \/ queue'[u] = queue[u] \o items
    BY <1>1 DEF PushTo
  <2>3. CASE queue'[u] = queue[u]
    BY <1>1, <2>3
  <2>4. CASE queue'[u] = queue[u] \o items
    <3>1. \/ i \in DOMAIN queue[u] /\ queue'[u][i] = queue[u][i]
          \/ i - Len(queue[u]) \in DOMAIN items /\ queue'[u][i] = items[i - Len(queue[u])]
      BY <1>1, <2>1, <2>4
    <3> QED
      BY <3>1
  <2> QED
    BY <2>2, <2>3, <2>4
<1>2. LogGrows
  BY DEF LogGrows
<1> QED
  BY <1>1, <1>2, SentKept

\* What is pushed when a task ends, and when an event is fanned out.
LEMMA StopPushed ==
    ASSUME NEW items \in {<<Stop>>, << >>}
    PROVE  items \in Seq(Items) /\ \A i \in DOMAIN items : items[i] = Stop
<1>1. CASE items = << >>
  <2>1. << >> \in Seq(Items)
    OBVIOUS
  <2> QED
    BY <1>1, <2>1
<1>2. CASE items = <<Stop>>
  <2>1. <<Stop>> \in Seq(Items)
    BY StopTyped
  <2>2. DOMAIN <<Stop>> = {1} /\ <<Stop>>[1] = Stop
    OBVIOUS
  <2> QED
    BY <1>2, <2>1, <2>2
<1> QED
  BY <1>1, <1>2

LEMMA EventPushed ==
    ASSUME NEW event \in Items, NEW items \in {Append(<<event>>, Stop), <<event, Stop>>, <<event>>}
    PROVE  items \in Seq(Items) /\ \A i \in DOMAIN items : items[i] \in {Stop, event}
<1>1. CASE items = <<event>>
  <2>1. <<event>> \in Seq(Items)
    OBVIOUS
  <2>2. DOMAIN <<event>> = {1} /\ <<event>>[1] = event
    OBVIOUS
  <2> QED
    BY <1>1, <2>1, <2>2
<1>2. CASE items = <<event, Stop>>
  <2>1. <<event, Stop>> \in Seq(Items)
    BY StopTyped
  <2>2. DOMAIN <<event, Stop>> = {1, 2} /\ <<event, Stop>>[1] = event /\ <<event, Stop>>[2] = Stop
    OBVIOUS
  <2> QED
    BY <1>2, <2>1, <2>2
<1>3. CASE items = Append(<<event>>, Stop)
  <2>1. <<event>> \in Seq(Items) /\ Len(<<event>>) = 1 /\ <<event>>[1] = event
    OBVIOUS
  <2>2. /\ Append(<<event>>, Stop) \in Seq(Items)
        /\ DOMAIN Append(<<event>>, Stop) = {1, 2}
        /\ Append(<<event>>, Stop)[1] = event
        /\ Append(<<event>>, Stop)[2] = Stop
    BY <2>1, StopTyped
  <2> QED
    BY <1>3, <2>2
<1> QED
  BY <1>1, <1>2, <1>3

\* What a writer fans out is in the log.
LEMMA WrittenLogged ==
    ASSUME Writing, NEW p \in Writers, io[p] \in {"inserted", "projected"}
    PROVE  Written(p).seq \in DOMAIN log /\ log[Written(p).seq] = Written(p).type
BY DEF Writing, Written

\* Every step shows the subscribers events of the log only, in order.
LEMMA SentStep ==
    ASSUME TypeOK, Control, Numbered, Writing, SentWasPersisted, SentInOrder, [Next]_vars
    PROVE  (SentWasPersisted /\ SentInOrder)'
<1>1. CASE Approved
  <2>1. got' = got /\ queue' = queue
    BY <1>1 DEF Approved, subVars
  <2> QED
    BY <2>1, LogStep, SentKept
<1>2. CASE Researched
  <2>1. got' = got /\ queue' = queue
    BY <1>2 DEF Researched, subVars
  <2> QED
    BY <2>1, LogStep, SentKept
<1>3. ASSUME NEW s \in Sections, SectionBegins(s)
      PROVE  (SentWasPersisted /\ SentInOrder)'
  <2>1. got' = got /\ queue' = queue
    BY <1>3 DEF SectionBegins, subVars
  <2> QED
    BY <2>1, LogStep, SentKept
<1>4. ASSUME NEW s \in Sections, UpsertPlanned(s)
      PROVE  (SentWasPersisted /\ SentInOrder)'
  <2>1. got' = got /\ queue' = queue
    BY <1>4 DEF UpsertPlanned, subVars
  <2> QED
    BY <2>1, LogStep, SentKept
<1>5. ASSUME NEW p \in Tasks, Waits(p)
      PROVE  (SentWasPersisted /\ SentInOrder)'
  <2>1. got' = got /\ queue' = queue
    BY <1>5 DEF Waits, subVars
  <2> QED
    BY <2>1, LogStep, SentKept
<1>6. ASSUME NEW p \in Tasks, SinkDrops(p)
      PROVE  (SentWasPersisted /\ SentInOrder)'
  <2>1. log' = log /\ got' = got
    BY <1>6 DEF SinkDrops, dbVars
  <2>2. PICK items \in {<<Stop>>, << >>} : queue' = PushTo(items)
    BY <1>6 DEF SinkDrops, Return
  <2>3. items \in Seq(Items) /\ \A i \in DOMAIN items : items[i] = Stop
    BY <2>2, StopPushed
  <2> QED
    BY <2>1, <2>2, <2>3, SentPushed
<1>7. ASSUME NEW p \in Tasks, Appends(p)
      PROVE  (SentWasPersisted /\ SentInOrder)'
  <2>1. got' = got /\ queue' = queue
    BY <1>7 DEF Appends, subVars
  <2> QED
    BY <2>1, LogStep, SentKept
<1>8. ASSUME NEW p \in Tasks, AppendFails(p)
      PROVE  (SentWasPersisted /\ SentInOrder)'
  <2>1. log' = log /\ got' = got
    BY <1>8 DEF AppendFails, dbVars
  <2>2. PICK items \in {<<Stop>>, << >>} : queue' = PushTo(items)
    BY <1>8 DEF AppendFails, Raise
  <2>3. items \in Seq(Items) /\ \A i \in DOMAIN items : items[i] = Stop
    BY <2>2, StopPushed
  <2> QED
    BY <2>1, <2>2, <2>3, SentPushed
<1>9. ASSUME NEW p \in Tasks, FansOut(p)
      PROVE  (SentWasPersisted /\ SentInOrder)'
  <2>1. log' = log /\ got' = got /\ p \in Writers /\ io[p] = "projected"
    BY <1>9 DEF FansOut, dbVars, Writers
  <2>2. PICK items \in {Append(<<Written(p)>>, Stop), <<Written(p)>>} : queue' = PushTo(items)
    BY <1>9 DEF FansOut, Return
  <2>3. items \in Seq(Items) /\ \A i \in DOMAIN items : items[i] \in {Stop, Written(p)}
    <3>1. Written(p) \in Items
      BY <2>1, WrittenTyped
    <3> QED
      BY <2>2, <3>1, EventPushed
  <2> QED
    BY <2>1, <2>2, <2>3, WrittenLogged, SentPushed
<1>10. ASSUME NEW p \in Writers, Projects(p)
      PROVE  (SentWasPersisted /\ SentInOrder)'
  <2>1. got' = got /\ queue' = queue
    BY <1>10 DEF Projects, subVars
  <2> QED
    BY <2>1, LogStep, SentKept
<1>11. CASE EngineFails
  <2>1. log' = log /\ got' = got
    BY <1>11 DEF EngineFails, dbVars
  <2>2. PICK items \in {<<Stop>>, << >>} : queue' = PushTo(items)
    BY <1>11 DEF EngineFails, Raise
  <2>3. items \in Seq(Items) /\ \A i \in DOMAIN items : items[i] = Stop
    BY <2>2, StopPushed
  <2> QED
    BY <2>1, <2>2, <2>3, SentPushed
<1>12. ASSUME NEW s \in Sections, SectionFails(s)
      PROVE  (SentWasPersisted /\ SentInOrder)'
  <2>1. log' = log /\ got' = got
    BY <1>12 DEF SectionFails, dbVars
  <2>2. PICK items \in {<<Stop>>, << >>} : queue' = PushTo(items)
    BY <1>12 DEF SectionFails, Raise
  <2>3. items \in Seq(Items) /\ \A i \in DOMAIN items : items[i] = Stop
    BY <2>2, StopPushed
  <2> QED
    BY <2>1, <2>2, <2>3, SentPushed
<1>13. CASE TimesOut
  <2>1. got' = got /\ queue' = queue
    BY <1>13 DEF TimesOut, subVars
  <2> QED
    BY <2>1, LogStep, SentKept
<1>14. CASE Restarts
  <2>1. got' = [u \in Subscribers |-> << >>] /\ queue' = [u \in Subscribers |-> << >>]
    BY <1>14 DEF Restarts
  <2> QED
    BY <2>1 DEF SentWasPersisted, SentInOrder
<1>15. ASSUME NEW c \in Cancels, CancelReads(c)
      PROVE  (SentWasPersisted /\ SentInOrder)'
  <2>1. got' = got /\ queue' = queue
    BY <1>15 DEF CancelReads, subVars
  <2> QED
    BY <2>1, LogStep, SentKept
<1>16. ASSUME NEW c \in Cancels, CancelMarks(c)
      PROVE  (SentWasPersisted /\ SentInOrder)'
  <2>1. got' = got /\ queue' = queue
    BY <1>16 DEF CancelMarks, subVars
  <2> QED
    BY <2>1, LogStep, SentKept
<1>17. ASSUME NEW c \in Cancels, CancelAppends(c)
      PROVE  (SentWasPersisted /\ SentInOrder)'
  <2>1. got' = got /\ queue' = queue
    BY <1>17 DEF CancelAppends, subVars
  <2> QED
    BY <2>1, LogStep, SentKept
<1>18. ASSUME NEW c \in Cancels, CancelFansOut(c)
      PROVE  (SentWasPersisted /\ SentInOrder)'
  <2>1. log' = log /\ got' = got /\ c \in Writers /\ io[c] = "projected"
    BY <1>18 DEF CancelFansOut, dbVars, Writers
  <2>2. PICK items \in {<<Written(c), Stop>>, <<Written(c)>>} : queue' = PushTo(items)
    BY <1>18 DEF CancelFansOut, LastWords
  <2>3. items \in Seq(Items) /\ \A i \in DOMAIN items : items[i] \in {Stop, Written(c)}
    <3>1. Written(c) \in Items
      BY <2>1, WrittenTyped
    <3> QED
      BY <2>2, <3>1, EventPushed
  <2> QED
    BY <2>1, <2>2, <2>3, WrittenLogged, SentPushed
<1>19. ASSUME NEW c \in Cancels, CancelAppendsUnlocked(c)
      PROVE  (SentWasPersisted /\ SentInOrder)'
  <2>1. got' = got /\ queue' = queue
    BY <1>19 DEF CancelAppendsUnlocked, subVars
  <2> QED
    BY <2>1, LogStep, SentKept
<1>20. ASSUME NEW c \in Cancels, CancelProjectsUnlocked(c)
      PROVE  (SentWasPersisted /\ SentInOrder)'
  <2>1. got' = got /\ queue' = queue
    BY <1>20 DEF CancelProjectsUnlocked, subVars
  <2> QED
    BY <2>1, LogStep, SentKept
<1>21. ASSUME NEW m \in Submits, NEW edited \in SUBSET Sections, SubmitEdits(m, edited)
      PROVE  (SentWasPersisted /\ SentInOrder)'
  <2>1. got' = got /\ queue' = queue
    BY <1>21 DEF SubmitEdits, subVars
  <2> QED
    BY <2>1, LogStep, SentKept
<1>22. ASSUME NEW m \in Submits, NEW s \in Sections, SubmitUpserts(m, s)
      PROVE  (SentWasPersisted /\ SentInOrder)'
  <2>1. got' = got /\ queue' = queue
    BY <1>22 DEF SubmitUpserts, subVars
  <2> QED
    BY <2>1, LogStep, SentKept
<1>23. ASSUME NEW m \in Submits, SubmitKeeps(m)
      PROVE  (SentWasPersisted /\ SentInOrder)'
  <2>1. got' = got /\ queue' = queue
    BY <1>23 DEF SubmitKeeps, subVars
  <2> QED
    BY <2>1, LogStep, SentKept
<1>24. ASSUME NEW m \in Submits, SubmitRefused(m)
      PROVE  (SentWasPersisted /\ SentInOrder)'
  <2>1. got' = got /\ queue' = queue
    BY <1>24 DEF SubmitRefused, subVars
  <2> QED
    BY <2>1, LogStep, SentKept
<1>25. ASSUME NEW m \in Submits, SubmitResolves(m)
      PROVE  (SentWasPersisted /\ SentInOrder)'
  <2>1. got' = got /\ queue' = queue
    BY <1>25 DEF SubmitResolves, subVars
  <2> QED
    BY <2>1, LogStep, SentKept
<1>26. ASSUME NEW u \in Subscribers, Connects(u)
      PROVE  (SentWasPersisted /\ SentInOrder)'
  <2>1. \A v \in Subscribers : got'[v] = got[v] \/ got'[v] = << >>
    BY <1>26 DEF Connects, TypeOK, SubscriberTypeOK
  <2>2. queue' = queue \/ queue' = [queue EXCEPT ![u] = FirstItems]
    BY <1>26 DEF Connects, Attach
  <2>3. \A i \in DOMAIN FirstItems : FirstItems[i] = Stop
    BY DEF FirstItems
  <2>4. \A v \in Subscribers : \A i \in DOMAIN queue'[v] :
           queue'[v][i] = Stop \/ (i \in DOMAIN queue[v] /\ queue'[v][i] = queue[v][i])
    BY <2>2, <2>3 DEF TypeOK, SubscriberTypeOK
  <2> QED
    BY <2>1, <2>4, LogStep, SentKept
<1>27. ASSUME NEW u \in Subscribers, RegistersHub(u)
      PROVE  (SentWasPersisted /\ SentInOrder)'
  <2>1. got' = got /\ queue' = queue
    BY <1>27 DEF RegistersHub, subVars
  <2> QED
    BY <2>1, LogStep, SentKept
<1>28. ASSUME NEW u \in Subscribers, ResolvesRun(u)
      PROVE  (SentWasPersisted /\ SentInOrder)'
  <2>1. got' = got /\ queue' = queue
    BY <1>28 DEF ResolvesRun, subVars
  <2> QED
    BY <2>1, LogStep, SentKept
<1>29. ASSUME NEW u \in Subscribers, StartsTask(u)
      PROVE  (SentWasPersisted /\ SentInOrder)'
  <2>1. got' = got
    BY <1>29 DEF StartsTask
  <2>2. queue' = queue \/ queue' = [queue EXCEPT ![u] = FirstItems]
    BY <1>29 DEF StartsTask, Attach
  <2>3. \A i \in DOMAIN FirstItems : FirstItems[i] = Stop
    BY DEF FirstItems
  <2>4. \A v \in Subscribers : \A i \in DOMAIN queue'[v] :
           queue'[v][i] = Stop \/ (i \in DOMAIN queue[v] /\ queue'[v][i] = queue[v][i])
    BY <2>2, <2>3 DEF TypeOK, SubscriberTypeOK
  <2> QED
    BY <2>1, <2>4, LogStep, SentKept
<1>30. ASSUME NEW u \in Subscribers, StartFails(u)
      PROVE  (SentWasPersisted /\ SentInOrder)'
  <2>1. got' = got /\ queue' = queue
    BY <1>30 DEF StartFails, subVars
  <2> QED
    BY <2>1, LogStep, SentKept
<1>31. ASSUME NEW u \in Subscribers, Replays(u)
      PROVE  (SentWasPersisted /\ SentInOrder)'
  <2>1. log' = log /\ got' = [got EXCEPT ![u] = Replay]
    BY <1>31 DEF Replays, dbVars
  <2>2. queue' = queue \/ queue' = [queue EXCEPT ![u] = << >>]
    BY <1>31 DEF Replays
  <2>3. \A v \in Subscribers : got'[v] = got[v] \/ got'[v] = Replay
    BY <2>1 DEF TypeOK, SubscriberTypeOK
  <2>4. \A v \in Subscribers : queue'[v] = queue[v] \/ queue'[v] = << >>
    BY <2>2 DEF TypeOK, SubscriberTypeOK
  <2>5. SentWasPersisted'
    BY <2>1, <2>3, <2>4, ReplayFaithful DEF SentWasPersisted
  <2>6. SentInOrder'
    BY <2>3, ReplayFaithful DEF SentInOrder
  <2> QED
    BY <2>5, <2>6
<1>32. ASSUME NEW u \in Subscribers, Delivers(u)
      PROVE  (SentWasPersisted /\ SentInOrder)'
  <2> DEFINE item == Head(queue[u])
  <2>1. queue[u] \in Seq(Items) /\ got[u] \in Seq(Items) /\ queue[u] # << >> /\ log' = log
    BY <1>32 DEF Delivers, dbVars, TypeOK, SubscriberTypeOK
  <2>2. item \in Items /\ item = queue[u][1] /\ 1 \in DOMAIN queue[u]
    BY <2>1
  <2>3. item = Stop \/ (item.seq \in DOMAIN log /\ log[item.seq] = item.type)
    BY <2>2 DEF SentWasPersisted
  <2>4. \/ got' = got
        \/ item # Stop /\ Unseen(u, item) /\ got' = [got EXCEPT ![u] = Append(got[u], item)]
    BY <1>32 DEF Delivers
  <2>5. queue' = [queue EXCEPT ![u] = << >>] \/ queue' = [queue EXCEPT ![u] = Tail(queue[u])]
    BY <1>32 DEF Delivers
  <2>6. \A i \in DOMAIN Tail(queue[u]) :
           i + 1 \in DOMAIN queue[u] /\ Tail(queue[u])[i] = queue[u][i + 1]
    BY <2>1
  <2>7. \A v \in Subscribers : \A i \in DOMAIN queue'[v] :
           \E j \in DOMAIN queue[v] : queue'[v][i] = queue[v][j]
    <3>1. CASE queue' = [queue EXCEPT ![u] = << >>]
      BY <3>1 DEF TypeOK, SubscriberTypeOK
    <3>2. CASE queue' = [queue EXCEPT ![u] = Tail(queue[u])]
      BY <2>6, <3>2 DEF TypeOK, SubscriberTypeOK
    <3> QED
      BY <2>5, <3>1, <3>2
  <2>8. CASE got' = got
    BY <2>1, <2>7, <2>8 DEF SentWasPersisted, SentInOrder
  <2>9. CASE item # Stop /\ Unseen(u, item) /\ got' = [got EXCEPT ![u] = Append(got[u], item)]
    <3>1. \A v \in Subscribers : v # u => got'[v] = got[v]
      BY <2>9 DEF TypeOK, SubscriberTypeOK
    <3>2. got'[u] = Append(got[u], item)
      BY <2>9 DEF TypeOK, SubscriberTypeOK
    <3>3. Len(got[u]) \in Nat /\ DOMAIN got[u] = 1 .. Len(got[u])
          /\ DOMAIN got'[u] = 1 .. Len(got[u]) + 1
      BY <2>1, <3>2
    <3>4. \A i \in DOMAIN got[u] : got'[u][i] = got[u][i]
      BY <2>1, <3>2
    <3>5. got'[u][Len(got[u]) + 1] = item
      BY <2>1, <3>2
    <3>6. SentWasPersisted'
      <4>1. \A v \in Subscribers : \A i \in DOMAIN got'[v] :
               got'[v][i].seq \in DOMAIN log /\ log[got'[v][i].seq] = got'[v][i].type
        <5>1. \A i \in DOMAIN got'[u] : i \in DOMAIN got[u] \/ i = Len(got[u]) + 1
          BY <3>3
        <5>2. \A i \in DOMAIN got'[u] :
                 got'[u][i].seq \in DOMAIN log /\ log[got'[u][i].seq] = got'[u][i].type
          BY <2>3, <2>9, <3>4, <3>5, <5>1 DEF SentWasPersisted
        <5> QED
          BY <3>1, <5>2 DEF SentWasPersisted
      <4> QED
        BY <2>1, <2>7, <4>1 DEF SentWasPersisted
    <3>7. \A i \in DOMAIN got[u] : got[u][i].seq < item.seq
      <4>1. \A i \in DOMAIN got[u] : got[u][i].seq \in Nat
        <5>1. \A x \in Items : x.seq \in Nat
          BY DEF Items
        <5>2. \A i \in DOMAIN got[u] : got[u][i] \in Items
          BY <2>1
        <5> QED
          BY <5>1, <5>2
      <4>2. \A i \in DOMAIN got[u] :
               i = Len(got[u]) \/ got[u][i].seq < got[u][Len(got[u])].seq
        BY <3>3 DEF SentInOrder
      <4>3. got[u] = << >> \/ got[u][Len(got[u])].seq < item.seq
        BY <2>9 DEF Unseen
      <4>4. item.seq \in Nat
        BY <2>2 DEF Items
      <4> QED
        BY <3>3, <4>1, <4>2, <4>3, <4>4
    <3>8. \A i, j \in DOMAIN got'[u] : i < j => got'[u][i].seq < got'[u][j].seq
      <4> SUFFICES ASSUME NEW i \in DOMAIN got'[u], NEW j \in DOMAIN got'[u], i < j
                   PROVE  got'[u][i].seq < got'[u][j].seq
        OBVIOUS
      <4>1. i \in DOMAIN got[u]
        BY <3>3
      <4>2. CASE j = Len(got[u]) + 1
        BY <3>4, <3>5, <3>7, <4>1, <4>2
      <4>3. CASE j \in DOMAIN got[u]
        BY <3>4, <4>1, <4>3 DEF SentInOrder
      <4> QED
        BY <3>3, <4>2, <4>3
    <3>9. SentInOrder'
      BY <3>1, <3>8 DEF SentInOrder
    <3> QED
      BY <3>6, <3>9
  <2> QED
    BY <2>4, <2>8, <2>9
<1>33. ASSUME NEW u \in Subscribers, Disconnects(u)
      PROVE  (SentWasPersisted /\ SentInOrder)'
  <2>1. got' = got /\ queue' = [queue EXCEPT ![u] = << >>]
    BY <1>33 DEF Disconnects
  <2>2. \A v \in Subscribers : \A i \in DOMAIN queue'[v] :
           i \in DOMAIN queue[v] /\ queue'[v][i] = queue[v][i]
    BY <2>1 DEF TypeOK, SubscriberTypeOK
  <2> QED
    BY <2>1, <2>2, LogStep, SentKept
<1>34. CASE UNCHANGED vars
  <2>1. got' = got /\ queue' = queue
    BY <1>34 DEF vars, subVars
  <2> QED
    BY <2>1, LogStep, SentKept
<1> QED
  BY <1>1, <1>2, <1>3, <1>4, <1>5, <1>6, <1>7, <1>8, <1>9, <1>10, <1>11, <1>12, <1>13, <1>14, <1>15, <1>16, <1>17, <1>18, <1>19, <1>20, <1>21, <1>22, <1>23, <1>24, <1>25, <1>26, <1>27, <1>28, <1>29, <1>30, <1>31, <1>32, <1>33, <1>34
     DEF Next, EngineStep, Failure, CancelStep, SubmitStep, SubscriberStep

-----------------------------------------------------------------------------
(* The inductive invariant *)

\* A run nobody connected to yet satisfies the invariant.
LEMMA InitInv == Init => IInv
<1> SUFFICES ASSUME Init PROVE IInv
  OBVIOUS
<1> USE WriterAssumption
<1>1. DOMAIN log = {} /\ << >> \in Seq(Items)
  BY DEF Init
<1>2. TypeOK
  BY <1>1 DEF Init, TypeOK, StoreTypeOK, HubTypeOK, TaskTypeOK, SubscriberTypeOK, RequestTypeOK,
     Statuses
<1>3. Control
  BY DEF Init, Control, Writers, Tasks, SectionEvents, Starting
<1>4. Queued
  BY DEF Init, Queued
<1>5. Numbered
  <2>1. DOMAIN log = 0 .. (0 - 1) /\ nextSeq <= 0 /\ \A c \in Cancels : can[c] # "unlocked"
    BY <1>1 DEF Init
  <2> QED
    BY <2>1 DEF Numbered
<1>6. Writing
  BY DEF Init, Writing
<1>7. SentWasPersisted /\ SentInOrder
  BY DEF Init, SentWasPersisted, SentInOrder
<1> QED
  BY <1>2, <1>3, <1>4, <1>5, <1>6, <1>7 DEF IInv

\* Every step keeps it.
LEMMA StepInv == IInv /\ [Next]_vars => IInv'
<1> SUFFICES ASSUME IInv, [Next]_vars PROVE IInv'
  OBVIOUS
<1>1. TypeOK /\ Control /\ Queued /\ Numbered /\ Writing /\ SentWasPersisted /\ SentInOrder
  BY DEF IInv
<1>2. TypeOK'
  BY <1>1, TypeStep
<1>3. Control'
  BY <1>1, ControlStep
<1>4. Queued'
  BY <1>1, QueuedStep
<1>5. Numbered'
  BY <1>1, NumberedStep
<1>6. Writing'
  BY <1>1, WritingStep
<1>7. (SentWasPersisted /\ SentInOrder)'
  BY <1>1, SentStep
<1> QED
  BY <1>2, <1>3, <1>4, <1>5, <1>6, <1>7 DEF IInv

\* IInv holds in every state of a run.
THEOREM Invariance == Spec => []IInv
BY InitInv, StepInv, PTL DEF Spec

-----------------------------------------------------------------------------
(* What it gives *)

\* Every variable of the run keeps its type, whatever races, fails or restarts.
THEOREM TypeCorrect == Spec => []TypeOK
<1>1. IInv => TypeOK
  BY DEF IInv
<1> QED
  BY <1>1, Invariance, PTL

\* write_lock works: from the insert of an event to its fan-out, no other
\* event of the run is being written.
THEOREM WritersExclude == Spec => []OneWriter
<1>1. IInv => OneWriter
  BY DEF IInv, Queued, OneWriter
<1> QED
  BY <1>1, Invariance, PTL

\* The events of a run are numbered from 0 without a hole, whoever wrote them.
THEOREM LogIsContiguous == Spec => []LogContiguous
<1>1. IInv => LogContiguous
  <2> SUFFICES ASSUME Numbered, TypeOK PROVE LogContiguous
    BY DEF IInv
  <2>1. PICK n \in Nat : DOMAIN log = 0 .. (n - 1) /\ nextSeq <= n
    BY DEF Numbered
  <2>2. nextSeq \in Nat
    BY DEF TypeOK, HubTypeOK
  <2> QED
    BY <2>1, <2>2 DEF LogContiguous
<1> QED
  BY <1>1, Invariance, PTL

\* No subscriber is ever sent, or about to be sent, what the log does not
\* hold: insert first, fan out after, for every writer and every interleaving.
THEOREM PersistedBeforeSent == Spec => []SentWasPersisted
<1>1. IInv => SentWasPersisted
  BY DEF IInv
<1> QED
  BY <1>1, Invariance, PTL

\* Replay and live queue together send a subscriber each event at most once
\* and in the order of the log.
THEOREM SentOnceInOrder == Spec => []SentInOrder
<1>1. IInv => SentInOrder
  BY DEF IInv
<1> QED
  BY <1>1, Invariance, PTL

=============================================================================

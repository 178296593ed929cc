---------------------------- MODULE RunPlanProofs ----------------------------
(***************************************************************************)
(* Proofs about the plan of a run: that only approved sections are         *)
(* researched, and that a run which is done has its report and a finished  *)
(* row for each of its sections.                                           *)
(***************************************************************************)
EXTENDS RunOutcomeProofs

\* The engine is past the approval of its plan.
Past == {"researching", "research", "writing", "report_delta", "report", "done"}

\* It has not begun to research.
Before == {"off", "planning", "plan", "awaiting_plan", "wait", "researching"}

\* The request took the plan up.
Active(m) == subm[m] \notin {"idle", "refused"}

\* No two of them did, in a process that was not restarted.
Single == restarts = 0 /\ \A m, k \in Submits : Active(m) /\ Active(k) => m = k

DoneLogged == \E n \in DOMAIN log : log[n] = "done"

Stored(ss)   == \A s \in ss : secRow[s] # "absent"
Finished(ss) == \A s \in ss : secRow[s] = "done"

-----------------------------------------------------------------------------
(* The invariant *)

\* The future holds what an accepted request chose.
ResolvedByAccepted ==
    approval = "resolved" => \E m \in Submits : subm[m] = "accepted" /\ approved = choice[m]

\* Some request was accepted, and its sections are the plan if it gave any.
PlanAccepted == \E m \in Submits : subm[m] = "accepted" /\ (choice[m] # {} => plan = choice[m])

ResearchAccepted ==
    RequirePlanApproval /\ (pc \in Past \/ \E s \in Sections : sec[s] # "off") => PlanAccepted

\* Sections are not touched before the engine fans them out.
Untouched == pc \in Before => \A s \in Sections : sec[s] = "off"

\* Nobody is asked unless the run wants approval, and not twice.
Unasked   == ~RequirePlanApproval => approval = "none" /\ \A m \in Submits : ~Active(m)
AskedOnce == pc \in Past => approval # "pending"

\* An accepted request has all its sections stored.
AcceptedWhole == \A m \in Submits : subm[m] = "accepted" => left[m] = {}

\* The drafted sections are all stored before the engine goes on.
DraftWhole == left[Engine] # {} =>
    (pc = "plan" /\ io[Engine] = "inserted") \/ pc \in {"timeout", "finished"}

\* The report is stored before `done` can be logged.
ReportFirst ==
    /\ pc = "report" /\ io[Engine] = "projected" => report
    /\ pc = "done" /\ (cancelled => io[Engine] \in Inserted) => report
    /\ DoneLogged => report

\* After `done` the engine has nothing left but to fan it out, and nobody is
\* asked any more.
DoneEnds ==
    DoneLogged /\ restarts = 0 =>
        /\ pc \in {"done", "timeout", "finished"}
        /\ pc = "done" => io[Engine] \in Inserted
        /\ approval # "pending"
        /\ RequirePlanApproval => \E m \in Submits : subm[m] = "accepted"

\* Of a request that is alone: the sections it has upserted are stored ...
ChoiceStored == \A m \in Submits : Active(m) => Stored(choice[m] \ left[m])

\* ... the drafted ones are stored until it replaces them ...
Drafted ==
    \/ pc = "plan" /\ io[Engine] \in Inserted
    \/ pc \in {"awaiting_plan", "wait"} /\ ~cancelled

DraftStored ==
    Drafted /\ (\A m \in Submits : Active(m) => choice[m] = {}) => Stored(plan \ left[Engine])

\* ... every section the engine researches has a row ...
PlanStored == pc \in Past /\ ~cancelled => Stored(plan)

\* ... which is finished when the section is ...
SectionFinished(s) ==
    \/ sec[s] = "done" /\ pc \in Past
    \/ sec[s] = "section_done" /\ io[s] = "projected"

SectionsFinish == ~cancelled => \A s \in plan : SectionFinished(s) => secRow[s] = "done"

\* ... as all are when the engine writes, until `done` is logged ...
Finishing ==
    /\ pc \in {"writing", "report_delta", "report", "done"}
    /\ cancelled => pc = "done" /\ io[Engine] \in Inserted

PlanFinishes == Finishing => Finished(plan)

\* ... and after.
DoneFinished == DoneLogged => Finished(plan)

ApprovalInv == ResolvedByAccepted /\ ResearchAccepted /\ Untouched /\ Unasked /\ AskedOnce

StoreInv ==
    /\ AcceptedWhole /\ DraftWhole /\ ReportFirst /\ DoneEnds
    /\ Single => /\ ChoiceStored /\ DraftStored /\ PlanStored /\ SectionsFinish
                 /\ PlanFinishes /\ DoneFinished

-----------------------------------------------------------------------------
(* What a step does to the plan *)

\* Everything stays that the plan depends on, but a cancel may be marked.
Apart ==
    /\ UNCHANGED <<report, secRow, pc, plan, sec, approved, choice, left, restarts>>
    /\ approval' # approval => approval = "pending" /\ approval' = "cancelled"
    /\ cancelled => cancelled'
    /\ DoneLogged' => DoneLogged
    /\ \A p \in Tasks : io'[p] \in Inserted \/ io[p] \in Inserted => io'[p] = io[p]
    /\ \A m \in Submits : subm'[m] = subm[m] \/ {subm[m], subm'[m]} \subseteq {"idle", "refused"}

\* The engine is torn off where it is.
Tears ==
    /\ UNCHANGED <<report, secRow, log, cancelled, plan, approved, choice, left, subm, restarts>>
    /\ approval' # approval => approval = "pending" /\ approval' = "cancelled"
    /\ pc' \in {"error", "timeout", "finished"} /\ pc # "off"
    /\ DraftWhole => (left[Engine] # {} => pc' \in {"timeout", "finished"})
    /\ pc \in {"timeout", "finished"} \/ (pc = "done" /\ io[Engine] \in Inserted)
       => pc' \in {"timeout", "finished"}
    /\ sec' = [s \in Sections |-> "off"]
    /\ \A p \in Tasks : io'[p] = "idle"

\* The run is on its way to its first step.
Begins ==
    /\ UNCHANGED <<report, secRow, log, plan, sec, io, choice, left, subm, restarts>>
    /\ pc = "off" /\ pc' \in {"off", "planning", "dropped"}
    /\ \/ UNCHANGED <<approval, approved>>
       \/ approval' = "none"
       \/ approval' = "pending" /\ RequirePlanApproval

PlanAction ==
    \/ Approved \/ Researched
    \/ \E s \in Sections : SectionBegins(s) \/ UpsertPlanned(s)
    \/ \E p \in Tasks : SinkDrops(p) \/ Appends(p) \/ FansOut(p) \/ Projects(p)
    \/ \E m \in Submits : \/ SubmitResolves(m) \/ SubmitKeeps(m)
                          \/ \E s \in Sections : SubmitUpserts(m, s)
                          \/ \E edited \in SUBSET Sections : SubmitEdits(m, edited)

\* A cancel's event is not `done`.
LEMMA CancelledNotDone ==
    ASSUME NEW seq, log' = LogWith(seq, "cancelled")
    PROVE  DoneLogged' => DoneLogged
BY DEF LogWith, DoneLogged

LEMMA PlanStep ==
    ASSUME TypeOK, Control, Queued, [Next]_vars
    PROVE  Apart \/ Tears \/ Begins \/ PlanAction \/ Restarts
<1> DEFINE Goal == Apart \/ Tears \/ Begins \/ PlanAction \/ Restarts
<1> USE DEF TypeOK, TaskTypeOK, dbVars, hubVars, taskVars, submVars
<1>0. Tasks \subseteq Writers /\ Cancels \cap Tasks = {} /\ Engine \in Tasks
  BY WriterAssumption DEF Tasks, Writers
<1>1. ASSUME NEW p \in Tasks, Waits(p)
      PROVE  Apart
  <2>1. io[p] = "idle" /\ io' = [io EXCEPT ![p] = "waiting"]
    BY <1>1 DEF Waits, AtEmit, Join
  <2> QED
    BY <1>0, <1>1, <2>1 DEF Waits, Apart, DoneLogged, Inserted
<1>2. ASSUME NEW p \in Writers \ Tasks, Projects(p)
      PROVE  Apart
  <2>1. p \in Cancels /\ EventOf(p) = "cancelled"
    BY <1>2 DEF Writers, EventOf
  <2>2. p \notin Sections
    BY <1>2 DEF Tasks
  <2>3. secRow' = secRow
    BY <1>2, <2>2, Zenon DEF Projects
  <2>4. report' = (report \/ EventOf(p) = "report")
    BY <1>2, Zenon DEF Projects
  <2>5. report' = report
    BY <2>1, <2>4 DEF StoreTypeOK
  <2>6. /\ UNCHANGED <<log, hubVars, pc, plan, sec, ahead, subVars, canVars, submVars, restarts>>
        /\ io' = [io EXCEPT ![p] = "projected"]
    BY <1>2, Zenon DEF Projects
  <2>7. \A q \in Tasks : io'[q] = io[q]
    BY <1>0, <1>2, <2>6
  <2> QED
    BY <2>3, <2>5, <2>6, <2>7 DEF Apart, DoneLogged
<1>3. ASSUME NEW c \in Cancels, CancelReads(c) \/ CancelMarks(c)
      PROVE  Apart
  <2>1. \A p \in Tasks : io'[p] = io[p]
    BY <1>0, <1>3 DEF CancelReads, CancelMarks, Join
  <2>2. cancelled => cancelled'
    BY <1>3 DEF CancelReads, CancelMarks
  <2> QED
    BY <1>3, <2>1, <2>2 DEF CancelReads, CancelMarks, Apart, DoneLogged
<1>4. ASSUME NEW c \in Cancels, CancelAppends(c)
      PROVE  Apart
  <2>1. \A p \in Tasks : io'[p] = io[p]
    BY <1>0, <1>4 DEF CancelAppends, Leave
  <2>2. DoneLogged' => DoneLogged
    BY <1>4, CancelledNotDone DEF CancelAppends, DoneLogged
  <2> QED
    BY <1>4, <2>1, <2>2 DEF CancelAppends, Apart
<1>5. ASSUME NEW c \in Cancels, CancelAppendsUnlocked(c) \/ CancelProjectsUnlocked(c)
      PROVE  Apart
  <2>1. DoneLogged' => DoneLogged
    BY <1>5, CancelledNotDone DEF CancelAppendsUnlocked, CancelProjectsUnlocked, DoneLogged
  <2> QED
    BY <1>5, <2>1 DEF CancelAppendsUnlocked, CancelProjectsUnlocked, Apart
<1>6. ASSUME NEW c \in Cancels, CancelFansOut(c)
      PROVE  Apart \/ Tears
  <2>1. /\ UNCHANGED <<report, secRow, log, cancelled, plan, approved, choice, left, subm, restarts>>
        /\ approval' # approval => approval = "pending" /\ approval' = "cancelled"
    BY <1>6 DEF CancelFansOut
  <2>2. CASE pc \notin {"off", "finished", "dropped"}
    <3>1. /\ pc' = "finished" /\ sec' = [s \in Sections |-> "off"]
          /\ Leave(Tasks \cup {c})
      BY <1>6, <2>2, Zenon DEF CancelFansOut
    <3>2. \A p \in Tasks : io'[p] = "idle"
      BY <1>0, <3>1 DEF Leave
    <3> QED
      BY <2>1, <2>2, <3>1, <3>2 DEF Tears
  <2>3. CASE pc \in {"off", "finished", "dropped"}
    <3>1. ~(pc \notin {"off", "finished", "dropped"})
      BY <2>3
    <3>2. Leave({c}) /\ pc' = pc /\ sec' = sec
      BY <1>6, <3>1, Zenon DEF CancelFansOut
    <3>3. \A p \in Tasks : io'[p] = io[p]
      BY <1>0, <3>2 DEF Leave
    <3> QED
      BY <2>1, <3>2, <3>3 DEF Apart, DoneLogged
  <2> QED
    BY <2>2, <2>3
<1>7. ASSUME NEW m \in Submits, SubmitRefused(m)
      PROVE  Apart
  BY <1>7 DEF SubmitRefused, Apart, DoneLogged, RequestTypeOK
<1>8. ASSUME NEW u \in Subscribers, Connects(u) \/ StartFails(u) \/ Replays(u)
                                    \/ Delivers(u) \/ Disconnects(u)
      PROVE  Apart
  BY <1>8 DEF Connects, StartFails, Replays, Delivers, Disconnects, Apart, DoneLogged
<1>9. CASE UNCHANGED vars
  BY <1>9 DEF vars, Apart, DoneLogged
<1>10. ASSUME NEW u \in Subscribers, RegistersHub(u) \/ ResolvesRun(u) \/ StartsTask(u)
       PROVE  Begins
  BY <1>10 DEF RegistersHub, ResolvesRun, StartsTask, Control, Begins
<1>11. ASSUME Raise,
              UNCHANGED <<report, secRow, log, cancelled, plan, approval, approved, choice, left,
                          subm, restarts>>,
              pc # "off", DraftWhole => (left[Engine] # {} => pc \in {"timeout", "finished"}),
              pc # "finished", ~(pc = "done" /\ io[Engine] \in Inserted)
       PROVE  Tears
  <2>1. \A p \in Tasks : io'[p] = "idle"
    BY <1>0, <1>11 DEF Raise, Leave
  <2> QED
    BY <1>11, <2>1 DEF Raise, Tears
<1>12. ASSUME NEW p \in Tasks, AppendFails(p)
       PROVE  Tears
  <2>1. pc # "off" /\ pc # "finished"
    BY <1>12 DEF AppendFails, Enters, AtEmit, HasLock, Control, EmitPcs, Tasks
  <2>2. io[Engine] \notin Inserted
    BY <1>0, <1>12, EntersAlone DEF AppendFails, Inserted
  <2> QED
    BY <1>11, <1>12, <2>1, <2>2 DEF AppendFails, DraftWhole, Inserted
<1>13. CASE EngineFails
  <2>1. io[Engine] = "idle" /\ pc \in {"plan", "report_delta", "report"}
    BY <1>13 DEF EngineFails
  <2> QED
    BY <1>11, <1>13, <2>1 DEF EngineFails, DraftWhole, Inserted
<1>14. ASSUME NEW s \in Sections, SectionFails(s)
       PROVE  Tears
  <2>1. pc = "research"
    BY <1>14 DEF SectionFails, Control
  <2> QED
    BY <1>11, <1>14, <2>1 DEF SectionFails, DraftWhole
<1>15. CASE TimesOut
  <2>1. \A p \in Tasks : io'[p] = "idle"
    BY <1>0, <1>15 DEF TimesOut, Leave
  <2> QED
    BY <1>15, <2>1 DEF TimesOut, InEngineRun, Tears
<1> QED
  BY <1>1, <1>2, <1>3, <1>4, <1>5, <1>6, <1>7, <1>8, <1>9, <1>10, <1>12, <1>13, <1>14, <1>15
     DEF Next, EngineStep, Failure, CancelStep, SubmitStep, SubscriberStep, PlanAction

\* What an emission of task p that returned changes.
Returned(p) ==
    /\ UNCHANGED <<report, secRow, log, cancelled, approval, approved, plan, choice, left, subm,
                   restarts>>
    /\ cancelled \/ io[p] = "projected"
    /\ io[p] # "inserted"
    /\ io'[p] = "idle" /\ \A q \in Tasks : q # p => io'[q] = io[q]
    /\ \/ /\ p = Engine /\ pc \in EmitPcs /\ pc' = AfterEmit(pc)
          /\ pc' = "research" =>
                sec' = [s \in Sections |-> IF s \in plan THEN "ready" ELSE "off"]
          /\ pc' # "research" => sec' = sec
       \/ /\ p # Engine /\ p \in plan /\ sec[p] \in SectionEvents
          /\ pc = "research" /\ pc' = pc
          /\ sec' = [sec EXCEPT ![p] = AfterSection(sec[p])]

\* What the insert of an event of task p changes.
Inserting(p) ==
    /\ UNCHANGED <<report, secRow, cancelled, approval, approved, pc, plan, sec, choice, subm,
                   restarts>>
    /\ \A q \in Tasks : io[q] \notin Inserted
    /\ io'[p] = "inserted" /\ \A q \in Tasks : q # p => io'[q] = io[q]
    /\ DoneLogged' => DoneLogged \/ (p = Engine /\ pc = "done" /\ ~cancelled)
    /\ \A w \in Submits : left'[w] = left[w]
    /\ p = Engine /\ pc = "plan" => left'[Engine] = plan
    /\ ~(p = Engine /\ pc = "plan") => left'[Engine] = left[Engine]
    /\ p = Engine => pc \in EmitPcs
    /\ p # Engine => pc = "research" /\ p \in Sections /\ sec[p] \in SectionEvents
    /\ ~cancelled \/ pc = "timeout"

\* What its projection changes.
Projecting(p) ==
    /\ UNCHANGED <<log, cancelled, approval, approved, pc, plan, sec, choice, left, subm, restarts>>
    /\ io[p] = "inserted" /\ io'[p] = "projected"
    /\ \A q \in Tasks : q # p => io'[q] = io[q]
    /\ report => report'
    /\ p = Engine /\ pc = "report" => report'
    /\ p = Engine => secRow' = secRow /\ (pc = "plan" => left[Engine] = {})
    /\ \A s \in Sections : secRow[s] # "absent" => secRow'[s] # "absent"
    /\ \A s \in Sections : s # p => secRow'[s] = secRow[s]
    /\ p = Engine => pc \in EmitPcs
    /\ p # Engine =>
          /\ pc = "research" /\ p \in plan /\ sec[p] \in SectionEvents
          /\ secRow[p] # "absent" /\ sec[p] = "section_done" => secRow'[p] = "done"

LEMMA ReturnsStep ==
    ASSUME TypeOK, Control, NEW p \in Tasks, SinkDrops(p) \/ FansOut(p)
    PROVE  Returned(p)
<1> USE DEF TypeOK, TaskTypeOK
<1>0. Tasks \subseteq Writers /\ p \in Writers
  BY DEF Tasks, Writers
<1>1. PICK items : Return(p, items)
  BY DEF SinkDrops, FansOut
<1>2. /\ UNCHANGED <<report, secRow, log, cancelled, approval, approved, plan, choice, left, subm,
                     restarts>>
      /\ Leave({p})
  BY DEF SinkDrops, FansOut, dbVars, hubVars, submVars
<1>3. io'[p] = "idle" /\ \A q \in Tasks : q # p => io'[q] = io[q]
  BY <1>0, <1>2 DEF Leave
<1>4. /\ io[p] = "projected" \/ cancelled
      /\ io[p] # "idle" \/ AtEmit(p)
      /\ io[p] # "inserted"
  BY EntersEmitting DEF SinkDrops, FansOut, Admitted, Enters, AtEmit, HasLock
<1>5. CASE p = Engine
  <2>1. pc \in EmitPcs
    BY <1>4, <1>5, OutcomeEmitted
  <2>2. p \notin Sections
    BY <1>5, WriterAssumption
  <2>3. pc' = AfterEmit(pc)
    BY <1>1, <1>5, Zenon DEF Return
  <2>4. sec' = IF pc' = "research" THEN [s \in Sections |-> IF s \in plan THEN "ready" ELSE "off"]
               ELSE sec
    BY <1>1, <1>5, <2>2, Zenon DEF Return
  <2> QED
    BY <1>2, <1>3, <1>4, <1>5, <2>1, <2>3, <2>4 DEF Returned
<1>6. CASE p # Engine
  <2>1. p \in Sections
    BY <1>6 DEF Tasks
  <2>2. sec[p] \in SectionEvents
    BY <1>4, <1>6, <2>1 DEF AtEmit, Control
  <2>3. pc = "research" /\ p \in plan
    BY <2>1, <2>2 DEF Control
  <2>4. pc' = pc /\ sec' = [sec EXCEPT ![p] = AfterSection(sec[p])]
    BY <1>1, <1>6, <2>1, Zenon DEF Return
  <2> QED
    BY <1>2, <1>3, <1>4, <1>6, <2>2, <2>3, <2>4 DEF Returned
<1> QED
  BY <1>5, <1>6

LEMMA AppendsStep ==
    ASSUME TypeOK, Control, Queued, NEW p \in Tasks, Appends(p)
    PROVE  Inserting(p)
<1> USE DEF TypeOK, TaskTypeOK, RequestTypeOK
<1>0. Tasks \subseteq Writers /\ p \in Writers /\ Engine \notin Submits
  BY WriterAssumption DEF Tasks, Writers
<1>1. /\ UNCHANGED <<report, secRow, cancelled, approval, approved, pc, plan, sec, choice, subm,
                     restarts>>
      /\ io' = [io EXCEPT ![p] = "inserted"]
      /\ log' = LogWith(nextSeq, EventOf(p))
      /\ Enters(p) /\ Admitted(p)
      /\ left' = IF EventOf(p) = "plan" THEN [left EXCEPT ![Engine] = plan] ELSE left
  BY DEF Appends
<1>2. \A q \in Tasks : io[q] \notin Inserted
  BY <1>0, <1>1, EntersAlone DEF Inserted
<1>3. io[p] # "idle" \/ AtEmit(p)
  BY <1>1, EntersEmitting
<1>4. /\ EventOf(p) \in Terminal <=> p = Engine /\ pc \in Ending
      /\ p = Engine => pc \in EmitPcs
      /\ p # Engine => p \in Sections /\ pc = "research" /\ EventOf(p) \in SectionEvents
  BY <1>3, OutcomeEmitted
<1>5. p = Engine => (EventOf(p) = "plan" <=> pc = "plan") /\ (EventOf(p) = "done" <=> pc = "done")
  BY WriterAssumption DEF EventOf
<1>6. p # Engine => p \in Sections /\ EventOf(p) = sec[p] /\ EventOf(p) # "plan" /\ EventOf(p) # "done"
  BY <1>4, WriterAssumption DEF EventOf, SectionEvents
<1>7. DoneLogged' => DoneLogged \/ EventOf(p) = "done"
  BY <1>1 DEF LogWith, DoneLogged
<1>8. io'[p] = "inserted" /\ \A q \in Tasks : q # p => io'[q] = io[q]
  BY <1>0, <1>1
<1>9. /\ \A w \in Submits : left'[w] = left[w]
      /\ EventOf(p) = "plan" => left'[Engine] = plan
      /\ EventOf(p) # "plan" => left'[Engine] = left[Engine]
  BY <1>0, <1>1
<1>10. DoneLogged' => DoneLogged \/ (p = Engine /\ pc = "done" /\ ~cancelled)
  BY <1>1, <1>5, <1>6, <1>7 DEF Admitted
<1> QED
  BY <1>1, <1>2, <1>4, <1>5, <1>6, <1>8, <1>9, <1>10 DEF Inserting, Admitted

LEMMA ProjectsStep ==
    ASSUME TypeOK, Control, NEW p \in Tasks, Projects(p)
    PROVE  Projecting(p)
<1> USE DEF TypeOK, TaskTypeOK, StoreTypeOK
<1>0. Tasks \subseteq Writers /\ p \in Writers
  BY DEF Tasks, Writers
<1>1. /\ UNCHANGED <<log, hubVars, pc, plan, sec, ahead, subVars, canVars, submVars, restarts>>
      /\ io[p] = "inserted" /\ io' = [io EXCEPT ![p] = "projected"]
      /\ report' = (report \/ EventOf(p) = "report")
  BY Zenon DEF Projects
<1>2. p = Engine /\ pc = "plan" => left[Engine] = {}
  BY Zenon DEF Projects
<1>3. io'[p] = "projected" /\ \A q \in Tasks : q # p => io'[q] = io[q]
  BY <1>0, <1>1
<1>4. UNCHANGED <<log, cancelled, approval, approved, pc, plan, sec, choice, left, subm, restarts>>
  BY <1>1 DEF hubVars, submVars
<1>5. /\ p = Engine => pc \in EmitPcs
      /\ p # Engine => p \in Sections /\ pc = "research" /\ EventOf(p) \in SectionEvents
  BY <1>1, OutcomeEmitted
<1>6. report => report'
  BY <1>1
<1>7. p = Engine /\ pc = "report" => report'
  BY <1>1, WriterAssumption DEF EventOf
<1>8. CASE p \in Sections /\ secRow[p] # "absent"
  <2> DEFINE st == CASE sec[p] = "section_start" -> "researching"
                     [] sec[p] = "section_done"  -> "done"
                     [] OTHER -> secRow[p]
  <2>1. secRow' = [secRow EXCEPT ![p] = st]
    BY <1>8, Zenon DEF Projects
  <2>2. sec[p] = "section_done" => st = "done"
    OBVIOUS
  <2>3. st # "absent"
    BY <1>8
  <2> HIDE DEF st
  <2>4. secRow'[p] = st /\ \A s \in Sections : s # p => secRow'[s] = secRow[s]
    BY <1>8, <2>1
  <2>5. p # Engine /\ sec[p] \in SectionEvents
    BY <1>1, <1>8, WriterAssumption DEF Control
  <2>6. p \in plan
    BY <1>8, <2>5 DEF Control
  <2> QED
    BY <1>1, <1>3, <1>4, <1>5, <1>6, <1>8, <2>2, <2>3, <2>4, <2>5, <2>6 DEF Projecting
<1>9. CASE ~(p \in Sections /\ secRow[p] # "absent")
  <2>1. secRow' = secRow
    BY <1>9, Zenon DEF Projects
  <2>2. p # Engine => p \in Sections /\ sec[p] \in SectionEvents
    BY <1>1, <1>5 DEF Control
  <2>3. p # Engine => p \in plan /\ secRow[p] = "absent"
    BY <1>9, <2>2 DEF Control
  <2> QED
    BY <1>1, <1>2, <1>3, <1>4, <1>5, <1>6, <1>7, <2>1, <2>2, <2>3 DEF Projecting
<1> QED
  BY <1>8, <1>9

\* The steps that move the plan.
Moves ==
    \/ Approved \/ Researched
    \/ \E s \in Sections : SectionBegins(s) \/ UpsertPlanned(s)
    \/ \E p \in Tasks : Returned(p) \/ Inserting(p) \/ Projecting(p)
    \/ \E m \in Submits : \/ SubmitResolves(m) \/ SubmitKeeps(m)
                          \/ \E s \in Sections : SubmitUpserts(m, s)
                          \/ \E edited \in SUBSET Sections : SubmitEdits(m, edited)

LEMMA MovesStep ==
    ASSUME TypeOK, Control, Queued, [Next]_vars
    PROVE  Apart \/ Tears \/ Begins \/ Moves \/ Restarts
BY PlanStep, ReturnsStep, AppendsStep, ProjectsStep DEF PlanAction, Moves

-----------------------------------------------------------------------------
(* Only approved sections are researched *)

\* An accepted request stays accepted, with its sections, and one that took
\* the plan up stays one.
LEMMA AcceptedStays ==
    ASSUME TypeOK, Control, Queued, [Next]_vars, NEW m \in Submits
    PROVE  /\ subm[m] = "accepted" => subm'[m] = "accepted" /\ choice'[m] = choice[m]
           /\ Active(m) => Active(m)'
<1> USE DEF TypeOK, RequestTypeOK, Active
<1>1. CASE Apart
  BY <1>1 DEF Apart
<1>2. CASE Tears \/ Begins
  BY <1>2 DEF Tears, Begins
<1>3. CASE Restarts
  BY <1>3 DEF Restarts
<1>4. CASE Approved \/ Researched \/ \E s \in Sections : SectionBegins(s) \/ UpsertPlanned(s)
  BY <1>4 DEF Approved, Researched, SectionBegins, UpsertPlanned, submVars
<1>5. CASE \E p \in Tasks : Returned(p) \/ Inserting(p) \/ Projecting(p)
  BY <1>5 DEF Returned, Inserting, Projecting
<1>6. ASSUME NEW k \in Submits, \/ SubmitResolves(k) \/ SubmitKeeps(k)
                                \/ \E s \in Sections : SubmitUpserts(k, s)
                                \/ \E edited \in SUBSET Sections : SubmitEdits(k, edited)
      PROVE  /\ subm[m] = "accepted" => subm'[m] = "accepted" /\ choice'[m] = choice[m]
             /\ Active(m) => Active(m)'
  <2>1. \/ UNCHANGED <<subm, choice>>
        \/ subm[k] = "writing" /\ UNCHANGED choice
           /\ (subm' = [subm EXCEPT ![k] = "accepted"] \/ subm' = [subm EXCEPT ![k] = "failed"])
        \/ subm[k] = "idle" /\ subm' = [subm EXCEPT ![k] = "writing"]
           /\ \A j \in Submits : j # k => choice'[j] = choice[j]
    BY <1>6 DEF SubmitResolves, SubmitKeeps, SubmitUpserts, SubmitEdits
  <2> QED
    BY <2>1
<1> QED
  BY <1>1, <1>2, <1>3, <1>4, <1>5, <1>6, MovesStep DEF Moves

\* Every step keeps what the future holds the choice of an accepted request.
LEMMA ResolvedByAcceptedStep ==
    ASSUME TypeOK, Control, Queued, ResolvedByAccepted, [Next]_vars
    PROVE  ResolvedByAccepted'
<1>1. ASSUME approval' = "resolved" => approval = "resolved" /\ approved' = approved
      PROVE  ResolvedByAccepted'
  BY <1>1, AcceptedStays DEF ResolvedByAccepted
<1>2. CASE Apart \/ Tears \/ Begins \/ Restarts
  BY <1>1, <1>2 DEF Apart, Tears, Begins, Restarts
<1>3. CASE Approved \/ Researched \/ \E s \in Sections : SectionBegins(s) \/ UpsertPlanned(s)
  BY <1>1, <1>3 DEF Approved, Researched, SectionBegins, UpsertPlanned, hubVars
<1>4. CASE \E p \in Tasks : Returned(p) \/ Inserting(p) \/ Projecting(p)
  BY <1>1, <1>4 DEF Returned, Inserting, Projecting
<1>5. ASSUME NEW m \in Submits, SubmitKeeps(m) \/ (\E s \in Sections : SubmitUpserts(m, s))
                                \/ \E edited \in SUBSET Sections : SubmitEdits(m, edited)
      PROVE  ResolvedByAccepted'
  BY <1>1, <1>5 DEF SubmitKeeps, SubmitUpserts, SubmitEdits, hubVars
<1>6. ASSUME NEW m \in Submits, SubmitResolves(m)
      PROVE  ResolvedByAccepted'
  <2>1. CASE approval = "pending"
    <3>1. /\ approved' = choice[m] /\ choice' = choice
          /\ subm' = [subm EXCEPT ![m] = "accepted"]
      BY <1>6, <2>1 DEF SubmitResolves
    <3>2. subm'[m] = "accepted"
      BY <3>1 DEF TypeOK, RequestTypeOK
    <3> QED
      BY <3>1, <3>2 DEF ResolvedByAccepted
  <2>2. CASE approval # "pending"
    BY <1>1, <1>6, <2>2 DEF SubmitResolves
  <2> QED
    BY <2>1, <2>2
<1> QED
  BY <1>2, <1>3, <1>4, <1>5, <1>6, MovesStep DEF Moves

\* Every step keeps the approval asked for by runs that want one only.
LEMMA UnaskedStep ==
    ASSUME TypeOK, Control, Queued, Unasked, [Next]_vars
    PROVE  Unasked'
<1> SUFFICES ASSUME ~RequirePlanApproval
             PROVE  approval' = "none" /\ \A m \in Submits : ~Active(m)'
  BY DEF Unasked
<1>0. approval = "none" /\ \A m \in Submits : ~Active(m)
  BY DEF Unasked
<1> USE <1>0 DEF Active, TypeOK, RequestTypeOK
<1>1. CASE Apart
  BY <1>1 DEF Apart
<1>2. CASE Tears \/ Begins
  BY <1>2 DEF Tears, Begins
<1>3. CASE Approved \/ Researched \/ \E s \in Sections : SectionBegins(s) \/ UpsertPlanned(s)
  BY <1>3 DEF Approved, Researched, SectionBegins, UpsertPlanned, hubVars, submVars
<1>4. CASE \E p \in Tasks : Returned(p) \/ Inserting(p) \/ Projecting(p)
  BY <1>4 DEF Returned, Inserting, Projecting
<1>5. CASE Restarts
  BY <1>5 DEF Restarts
<1>6. CASE \E m \in Submits : \/ SubmitResolves(m) \/ SubmitKeeps(m)
                              \/ \E s \in Sections : SubmitUpserts(m, s)
                              \/ \E edited \in SUBSET Sections : SubmitEdits(m, edited)
  BY <1>6 DEF SubmitResolves, SubmitKeeps, SubmitUpserts, SubmitEdits, hubVars
<1> QED
  BY <1>1, <1>2, <1>3, <1>4, <1>5, <1>6, MovesStep DEF Moves

\* Every step keeps the sections off until the engine fans them out.
LEMMA UntouchedStep ==
    ASSUME TypeOK, Control, Queued, Untouched, [Next]_vars
    PROVE  Untouched'
<1> USE DEF Untouched, Before
<1>1. CASE Apart \/ Tears \/ Begins \/ Restarts
  BY <1>1 DEF Apart, Tears, Begins, Restarts
<1>2. CASE Approved \/ Researched
  BY <1>2 DEF Approved, Researched
<1>3. ASSUME NEW s \in Sections, SectionBegins(s)
      PROVE  Untouched'
  BY <1>3 DEF SectionBegins, Control
<1>4. CASE \/ \E s \in Sections : UpsertPlanned(s)
           \/ \E p \in Tasks : Inserting(p) \/ Projecting(p)
           \/ \E m \in Submits : \/ SubmitResolves(m) \/ SubmitKeeps(m)
                                 \/ \E s \in Sections : SubmitUpserts(m, s)
                                 \/ \E edited \in SUBSET Sections : SubmitEdits(m, edited)
  <2>1. pc' = pc /\ sec' = sec
    BY <1>4 DEF UpsertPlanned, Inserting, Projecting, SubmitResolves, SubmitKeeps, SubmitUpserts,
       SubmitEdits, taskVars
  <2> QED
    BY <2>1
<1>5. ASSUME NEW p \in Tasks, Returned(p)
      PROVE  Untouched'
  <2>1. CASE p = Engine
    <3>1. pc \in EmitPcs /\ pc' = AfterEmit(pc) /\ (pc' # "research" => sec' = sec)
      BY <1>5, <2>1 DEF Returned
    <3>2. pc' \in Before => pc \in Before /\ pc' # "research"
      BY <3>1 DEF AfterEmit, EmitPcs
    <3> QED
      BY <3>1, <3>2
  <2>2. CASE p # Engine
    BY <1>5, <2>2 DEF Returned
  <2> QED
    BY <2>1, <2>2
<1> QED
  BY <1>1, <1>2, <1>3, <1>4, <1>5, MovesStep DEF Moves

\* Where an emission of the engine leads.
LEMMA EngineReturned ==
    ASSUME Returned(Engine)
    PROVE  /\ pc = "planning"      => pc' = "plan"
           /\ pc = "plan"          => pc' = IF RequirePlanApproval THEN "awaiting_plan"
                                            ELSE "researching"
           /\ pc = "awaiting_plan" => pc' \in {"wait", "finished"}
           /\ pc = "researching"   => pc' = "research"
           /\ pc = "writing"       => pc' = "report_delta"
           /\ pc = "report_delta"  => pc' = "report"
           /\ pc = "report"        => pc' = "done"
           /\ pc \in {"done", "error", "timeout"} => pc' = "finished"
           /\ pc \in {"planning", "plan", "awaiting_plan", "researching", "writing",
                      "report_delta", "report", "done", "error", "timeout"}
           /\ pc # "researching" => sec' = sec
BY DEF Returned, AfterEmit, EmitPcs

\* The engine gets past the approval where it was given, or is not wanted.
LEMMA PastStep ==
    ASSUME TypeOK, Control, Queued, [Next]_vars, pc' \in Past
    PROVE  \/ pc \in Past /\ plan' = plan
           \/ Approved
           \/ pc = "plan" /\ ~RequirePlanApproval /\ Returned(Engine)
<1> DEFINE Goal == \/ pc \in Past /\ plan' = plan
                   \/ Approved
                   \/ pc = "plan" /\ ~RequirePlanApproval /\ Returned(Engine)
<1>1. CASE Apart \/ Tears \/ Begins \/ Restarts
  BY <1>1 DEF Apart, Tears, Begins, Restarts, Past
<1>2. CASE Researched
  BY <1>2 DEF Researched, Past
<1>3. CASE \/ \E s \in Sections : UpsertPlanned(s) \/ SectionBegins(s)
           \/ \E p \in Tasks : Inserting(p) \/ Projecting(p)
           \/ \E m \in Submits : \/ SubmitResolves(m) \/ SubmitKeeps(m)
                                 \/ \E s \in Sections : SubmitUpserts(m, s)
                                 \/ \E edited \in SUBSET Sections : SubmitEdits(m, edited)
  <2>1. pc' = pc /\ plan' = plan
    BY <1>3 DEF UpsertPlanned, SectionBegins, Inserting, Projecting, SubmitResolves, SubmitKeeps,
       SubmitUpserts, SubmitEdits, taskVars
  <2> QED
    BY <2>1
<1>4. ASSUME NEW p \in Tasks, Returned(p)
      PROVE  Goal
  <2>1. plan' = plan
    BY <1>4 DEF Returned
  <2>2. CASE p = Engine
    BY <1>4, <2>1, <2>2, EngineReturned, ApprovalAssumption DEF Past
  <2>3. CASE p # Engine
    BY <1>4, <2>1, <2>3 DEF Returned
  <2> QED
    BY <2>2, <2>3
<1> QED
  BY <1>1, <1>2, <1>3, <1>4, MovesStep DEF Moves

\* A future becomes pending before the run takes its first step.
LEMMA AskedStep ==
    ASSUME TypeOK, Control, Queued, [Next]_vars, approval' = "pending"
    PROVE  approval = "pending" \/ Begins
<1>1. CASE Apart \/ Tears \/ Restarts
  BY <1>1 DEF Apart, Tears, Restarts
<1>2. CASE Approved \/ Researched \/ \E s \in Sections : SectionBegins(s) \/ UpsertPlanned(s)
  BY <1>2 DEF Approved, Researched, SectionBegins, UpsertPlanned, hubVars
<1>3. CASE \E p \in Tasks : Returned(p) \/ Inserting(p) \/ Projecting(p)
  BY <1>3 DEF Returned, Inserting, Projecting
<1>4. CASE \E m \in Submits : \/ SubmitResolves(m) \/ SubmitKeeps(m)
                              \/ \E s \in Sections : SubmitUpserts(m, s)
                              \/ \E edited \in SUBSET Sections : SubmitEdits(m, edited)
  BY <1>4 DEF SubmitResolves, SubmitKeeps, SubmitUpserts, SubmitEdits, hubVars
<1> QED
  BY <1>1, <1>2, <1>3, <1>4, MovesStep DEF Moves

\* Every step keeps the approval settled once the engine is past it.
LEMMA AskedOnceStep ==
    ASSUME TypeOK, Control, Queued, Unasked, AskedOnce, [Next]_vars
    PROVE  AskedOnce'
<1> SUFFICES ASSUME pc' \in Past, approval' = "pending" PROVE FALSE
  BY DEF AskedOnce
<1>1. pc \in Past \/ Approved \/ (pc = "plan" /\ ~RequirePlanApproval)
  BY PastStep
<1>2. approval = "pending"
  BY AskedStep DEF Begins, Past
<1> QED
  BY <1>1, <1>2 DEF AskedOnce, Unasked, Approved

\* Every step keeps the sections being researched the accepted ones.
LEMMA ResearchAcceptedStep ==
    ASSUME TypeOK, Control, Queued, ResolvedByAccepted, ResearchAccepted, Untouched, [Next]_vars
    PROVE  ResearchAccepted'
<1>1. SUFFICES ASSUME RequirePlanApproval, pc' \in Past \/ \E s \in Sections : sec'[s] # "off"
               PROVE  PlanAccepted'
  BY DEF ResearchAccepted
<1>2. ASSUME PlanAccepted, plan' = plan
      PROVE  PlanAccepted'
  BY <1>2, AcceptedStays DEF PlanAccepted
<1>3. CASE Approved
  <2>1. PICK m \in Submits : subm[m] = "accepted" /\ approved = choice[m]
    BY <1>3 DEF Approved, ResolvedByAccepted
  <2>2. subm'[m] = "accepted" /\ choice'[m] = choice[m]
    BY <2>1, AcceptedStays
  <2>3. choice[m] # {} => plan' = choice[m]
    BY <1>3, <2>1 DEF Approved
  <2> QED
    BY <2>2, <2>3 DEF PlanAccepted
<1>4. CASE pc' \in Past /\ ~Approved
  <2>1. pc \in Past /\ plan' = plan
    BY <1>1, <1>4, PastStep
  <2> QED
    BY <1>1, <1>2, <2>1 DEF ResearchAccepted
<1>5. ASSUME NEW s \in Sections, sec'[s] # "off", pc' \notin Past, ~Approved
      PROVE  PlanAccepted'
  <2>1. sec[s] # "off" /\ plan' = plan
    <3>1. CASE Apart \/ Tears \/ Begins \/ Restarts
      BY <1>5, <3>1 DEF Apart, Tears, Begins, Restarts
    <3>2. CASE Researched
      BY <1>5, <3>2 DEF Researched
    <3>3. ASSUME NEW t \in Sections, SectionBegins(t)
          PROVE  sec[s] # "off" /\ plan' = plan
      BY <1>5, <3>3 DEF SectionBegins, TypeOK, TaskTypeOK
    <3>4. CASE \/ \E t \in Sections : UpsertPlanned(t)
               \/ \E p \in Tasks : Inserting(p) \/ Projecting(p)
               \/ \E m \in Submits : \/ SubmitResolves(m) \/ SubmitKeeps(m)
                                     \/ \E t \in Sections : SubmitUpserts(m, t)
                                     \/ \E edited \in SUBSET Sections : SubmitEdits(m, edited)
      <4>1. sec' = sec /\ plan' = plan
        BY <3>4 DEF UpsertPlanned, Inserting, Projecting, SubmitResolves, SubmitKeeps,
           SubmitUpserts, SubmitEdits, taskVars
      <4> QED
        BY <1>5, <4>1
    <3>5. ASSUME NEW p \in Tasks, Returned(p)
          PROVE  sec[s] # "off" /\ plan' = plan
      <4>1. plan' = plan
        BY <3>5 DEF Returned
      <4>2. CASE p = Engine
        BY <1>5, <3>5, <4>1, <4>2, EngineReturned DEF Past
      <4>3. CASE p # Engine
        BY <1>5, <3>5, <4>1, <4>3 DEF Returned, Past
      <4> QED
        BY <4>2, <4>3
    <3> QED
      BY <1>5, <3>1, <3>2, <3>3, <3>4, <3>5, MovesStep DEF Moves
  <2> QED
    BY <1>1, <1>2, <2>1 DEF ResearchAccepted
<1> QED
  BY <1>1, <1>3, <1>4, <1>5

\* A run nobody connected to yet satisfies the invariant, and every step
\* keeps it.
LEMMA ApprovalInit == Init => ApprovalInv
<1> SUFFICES ASSUME Init PROVE ApprovalInv
  OBVIOUS
<1>1. /\ approval = "none" /\ pc = "off" /\ \A s \in Sections : sec[s] = "off"
      /\ \A m \in Submits : subm[m] = "idle"
  BY DEF Init
<1> QED
  BY <1>1 DEF ApprovalInv, ResolvedByAccepted, ResearchAccepted, Untouched, Unasked, AskedOnce,
     Active, Past

LEMMA ApprovalStep == IInv /\ ApprovalInv /\ [Next]_vars => ApprovalInv'
<1> SUFFICES ASSUME IInv, ApprovalInv, [Next]_vars PROVE ApprovalInv'
  OBVIOUS
<1>1. TypeOK /\ Control /\ Queued
  BY DEF IInv
<1>2. ResolvedByAccepted /\ ResearchAccepted /\ Untouched /\ Unasked /\ AskedOnce
  BY DEF ApprovalInv
<1>3. ResolvedByAccepted'
  BY <1>1, <1>2, ResolvedByAcceptedStep
<1>4. ResearchAccepted'
  BY <1>1, <1>2, ResearchAcceptedStep
<1>5. Untouched'
  BY <1>1, <1>2, UntouchedStep
<1>6. Unasked'
  BY <1>1, <1>2, UnaskedStep
<1>7. AskedOnce'
  BY <1>1, <1>2, AskedOnceStep
<1> QED
  BY <1>3, <1>4, <1>5, <1>6, <1>7 DEF ApprovalInv

\* ApprovalInv holds in every state of a run.
THEOREM ApprovalInvariance == Spec => []ApprovalInv
BY ApprovalInit, ApprovalStep, Invariance, PTL DEF Spec

\* A run that asks for approval researches the sections of a submission that
\* was accepted, or the drafted ones if it gave none, however many submissions
\* overlapped.
THEOREM OnlyApprovedResearched == Spec => []ApprovedIsResearched
<1>1. ApprovalInv => ApprovedIsResearched
  BY DEF ApprovalInv, ResearchAccepted, PlanAccepted, ApprovedIsResearched
<1> QED
  BY <1>1, ApprovalInvariance, PTL

-----------------------------------------------------------------------------
(* A run that is done is complete *)

\* Every step keeps an accepted request's sections stored.
LEMMA AcceptedWholeStep ==
    ASSUME TypeOK, Control, Queued, AcceptedWhole, [Next]_vars
    PROVE  AcceptedWhole'
<1> USE WriterAssumption DEF AcceptedWhole, TypeOK, RequestTypeOK
<1>1. CASE Apart
  BY <1>1 DEF Apart
<1>2. CASE Tears \/ Begins
  BY <1>2 DEF Tears, Begins
<1>3. CASE Restarts
  BY <1>3 DEF Restarts
<1>4. CASE Approved \/ Researched \/ \E s \in Sections : SectionBegins(s)
  BY <1>4 DEF Approved, Researched, SectionBegins, submVars
<1>5. CASE \E s \in Sections : UpsertPlanned(s)
  BY <1>5 DEF UpsertPlanned
<1>6. CASE \E p \in Tasks : Returned(p) \/ Inserting(p) \/ Projecting(p)
  BY <1>6 DEF Returned, Inserting, Projecting
<1>7. ASSUME NEW k \in Submits, SubmitResolves(k) \/ SubmitKeeps(k)
      PROVE  AcceptedWhole'
  <2>1. left' = left /\ (SubmitResolves(k) => left[k] = {})
    BY <1>7 DEF SubmitResolves, SubmitKeeps
  <2>2. \A m \in Submits : m # k => subm'[m] = subm[m]
    BY <1>7 DEF SubmitResolves, SubmitKeeps
  <2>3. SubmitKeeps(k) => subm'[k] = "writing"
    BY DEF SubmitKeeps
  <2> QED
    BY <1>7, <2>1, <2>2, <2>3
<1>8. ASSUME NEW k \in Submits, \/ \E s \in Sections : SubmitUpserts(k, s)
                                \/ \E edited \in SUBSET Sections : SubmitEdits(k, edited)
      PROVE  AcceptedWhole'
  BY <1>8 DEF SubmitUpserts, SubmitEdits
<1> QED
  BY <1>1, <1>2, <1>3, <1>4, <1>5, <1>6, <1>7, <1>8, MovesStep DEF Moves

\* Every step keeps the engine from going on before the draft is stored.
LEMMA DraftWholeStep ==
    ASSUME TypeOK, Control, Queued, DraftWhole, [Next]_vars
    PROVE  DraftWhole'
<1> USE WriterAssumption DEF DraftWhole, TypeOK, RequestTypeOK
<1>0. Engine \in Tasks
  BY DEF Tasks
<1>1. CASE Apart
  BY <1>0, <1>1 DEF Apart, Inserted
<1>2. CASE Tears \/ Begins
  BY <1>2 DEF Tears, Begins, DraftWhole
<1>3. CASE Restarts
  BY <1>3 DEF Restarts
<1>4. CASE Approved \/ Researched
  BY <1>4 DEF Approved, Researched, submVars
<1>5. CASE \E s \in Sections : SectionBegins(s) \/ UpsertPlanned(s)
  BY <1>5 DEF UpsertPlanned, SectionBegins, taskVars, submVars
<1>6. ASSUME NEW p \in Tasks, Returned(p)
      PROVE  DraftWhole'
  <2>1. CASE p = Engine
    BY <1>6, <2>1, EngineReturned DEF Returned
  <2>2. CASE p # Engine
    BY <1>6, <2>2 DEF Returned
  <2> QED
    BY <2>1, <2>2
<1>7. CASE \E p \in Tasks : Inserting(p)
  BY <1>0, <1>7 DEF Inserting, Inserted
<1>8. CASE \E p \in Tasks : Projecting(p)
  BY <1>0, <1>8 DEF Projecting
<1>9. ASSUME NEW k \in Submits, \/ SubmitResolves(k) \/ SubmitKeeps(k)
                                \/ \E s \in Sections : SubmitUpserts(k, s)
                                \/ \E edited \in SUBSET Sections : SubmitEdits(k, edited)
      PROVE  DraftWhole'
  BY <1>9 DEF SubmitResolves, SubmitKeeps, SubmitUpserts, SubmitEdits, taskVars
<1> QED
  BY <1>1, <1>2, <1>3, <1>4, <1>5, <1>6, <1>7, <1>8, <1>9, MovesStep DEF Moves

\* Every step keeps the report stored before `done` is logged.
LEMMA ReportFirstStep ==
    ASSUME TypeOK, Control, Queued, ReportFirst, [Next]_vars
    PROVE  ReportFirst'
<1> USE DEF ReportFirst, DoneLogged, Inserted
<1>0. Engine \in Tasks
  BY DEF Tasks
<1>1. CASE Apart
  <2>1. (DoneLogged' => DoneLogged) /\ UNCHANGED <<report, pc>> /\ (cancelled => cancelled')
    BY <1>1 DEF Apart
  <2>2. io'[Engine] \in Inserted => io'[Engine] = io[Engine]
    BY <1>0, <1>1 DEF Apart
  <2> QED
    BY <2>1, <2>2
<1>2. CASE Tears \/ Begins
  BY <1>2 DEF Tears, Begins
<1>3. CASE Restarts
  BY <1>3 DEF Restarts, dbVars
<1>4. CASE Approved \/ Researched
  BY <1>4 DEF Approved, Researched, dbVars
<1>5. CASE \E s \in Sections : SectionBegins(s) \/ UpsertPlanned(s)
  BY <1>5 DEF UpsertPlanned, SectionBegins, dbVars, hubVars, taskVars
<1>6. ASSUME NEW p \in Tasks, Returned(p)
      PROVE  ReportFirst'
  <2>1. CASE p = Engine
    BY <1>6, <2>1, EngineReturned DEF Returned
  <2>2. CASE p # Engine
    BY <1>6, <2>2 DEF Returned
  <2> QED
    BY <2>1, <2>2
<1>7. ASSUME NEW p \in Tasks, Inserting(p)
      PROVE  ReportFirst'
  <2>1. /\ DoneLogged' => DoneLogged \/ (p = Engine /\ pc = "done" /\ ~cancelled)
        /\ UNCHANGED <<report, pc, cancelled>>
        /\ pc = "report" \/ pc = "done" => p = Engine /\ ~cancelled /\ io'[Engine] = "inserted"
    BY <1>7 DEF Inserting
  <2> QED
    BY <2>1
<1>8. ASSUME NEW p \in Tasks, Projecting(p)
      PROVE  ReportFirst'
  <2>1. /\ DoneLogged' => DoneLogged
        /\ UNCHANGED <<pc, cancelled>>
        /\ report => report'
        /\ p = Engine /\ pc = "report" => report'
        /\ pc = "report" \/ pc = "done" => p = Engine /\ io[Engine] = "inserted"
    BY <1>8 DEF Projecting
  <2> QED
    BY <2>1
<1>9. CASE \E m \in Submits : \/ SubmitResolves(m) \/ SubmitKeeps(m)
                              \/ \E s \in Sections : SubmitUpserts(m, s)
                              \/ \E edited \in SUBSET Sections : SubmitEdits(m, edited)
  BY <1>9 DEF SubmitResolves, SubmitKeeps, SubmitUpserts, SubmitEdits, dbVars, hubVars, taskVars
<1> QED
  BY <1>1, <1>2, <1>3, <1>4, <1>5, <1>6, <1>7, <1>8, <1>9, MovesStep DEF Moves

\* A step counts no restart, or is one.
LEMMA RestartsStep ==
    ASSUME TypeOK, Control, Queued, [Next]_vars
    PROVE  restarts' = restarts \/ (Restarts /\ restarts' # 0)
<1>1. CASE Apart \/ Tears \/ Begins
  BY <1>1 DEF Apart, Tears, Begins
<1>2. CASE Restarts
  BY <1>2 DEF Restarts, TypeOK, StoreTypeOK
<1>3. CASE Moves
  BY <1>3 DEF Moves, Approved, Researched, SectionBegins, UpsertPlanned, Returned, Inserting,
     Projecting, SubmitResolves, SubmitKeeps, SubmitUpserts, SubmitEdits
<1> QED
  BY <1>1, <1>2, <1>3, MovesStep

\* Every step keeps the run at its end once `done` is logged.
LEMMA DoneEndsStep ==
    ASSUME TypeOK, Control, Queued, ResearchAccepted, AskedOnce, DoneEnds, [Next]_vars
    PROVE  DoneEnds'
<1>0. Engine \in Tasks
  BY DEF Tasks
<1>1. SUFFICES ASSUME DoneLogged', restarts' = 0 PROVE DoneEnds'
  BY DEF DoneEnds
<1>2. restarts = 0 /\ ~Restarts
  BY <1>1, RestartsStep DEF Restarts, TypeOK, StoreTypeOK
<1>3. CASE ~DoneLogged
  <2>1. PICK p \in Tasks : Inserting(p)
    <3>1. ~Apart /\ log' # log
      BY <1>1, <1>3 DEF Apart, DoneLogged
    <3> QED
      BY <1>2, <3>1, MovesStep DEF Tears, Begins, Moves, Approved, Researched, SectionBegins,
         UpsertPlanned, Returned, Projecting, SubmitResolves, SubmitKeeps, SubmitUpserts,
         SubmitEdits, dbVars
  <2>2. /\ p = Engine /\ pc = "done" /\ pc' = pc /\ io'[Engine] = "inserted"
        /\ approval' = approval
    BY <1>1, <1>3, <2>1 DEF Inserting
  <2>3. approval # "pending"
    BY <2>2 DEF AskedOnce, Past
  <2>4. RequirePlanApproval => \E m \in Submits : subm[m] = "accepted"
    BY <2>2 DEF ResearchAccepted, PlanAccepted, Past
  <2> QED
    BY <2>2, <2>3, <2>4, AcceptedStays DEF DoneEnds, Inserted
<1>4. CASE DoneLogged
  <2>1. /\ pc \in {"done", "timeout", "finished"}
        /\ pc = "done" => io[Engine] \in Inserted
        /\ approval # "pending"
        /\ RequirePlanApproval => \E m \in Submits : subm[m] = "accepted"
    BY <1>2, <1>4 DEF DoneEnds
  <2>2. RequirePlanApproval => \E m \in Submits : subm'[m] = "accepted"
    BY <2>1, AcceptedStays
  <2>3. approval' # "pending"
    BY <2>1, AskedStep DEF Begins
  <2>4. pc' \in {"done", "timeout", "finished"} /\ (pc' = "done" => io'[Engine] \in Inserted)
    <3>1. CASE Apart
      BY <1>0, <2>1, <3>1 DEF Apart
    <3>2. CASE Tears \/ Begins
      BY <2>1, <3>2 DEF Tears, Begins
    <3>3. CASE Approved \/ Researched \/ \E s \in Sections : SectionBegins(s) \/ UpsertPlanned(s)
      BY <2>1, <3>3 DEF Approved, Researched, SectionBegins, UpsertPlanned, Control
    <3>4. ASSUME NEW p \in Tasks, Returned(p)
          PROVE  pc' = "finished"
      <4>1. p = Engine
        BY <2>1, <3>4 DEF Returned
      <4> QED
        BY <2>1, <3>4, <4>1, EngineReturned
    <3>5. CASE \E p \in Tasks : Inserting(p) \/ Projecting(p)
      BY <1>0, <2>1, <3>5 DEF Inserting, Projecting, Inserted
    <3>6. CASE \E m \in Submits : \/ SubmitResolves(m) \/ SubmitKeeps(m)
                                  \/ \E s \in Sections : SubmitUpserts(m, s)
                                  \/ \E edited \in SUBSET Sections : SubmitEdits(m, edited)
      BY <2>1, <3>6 DEF SubmitResolves, SubmitKeeps, SubmitUpserts, SubmitEdits, taskVars
    <3> QED
      BY <1>2, <3>1, <3>2, <3>3, <3>4, <3>5, <3>6, MovesStep DEF Moves
  <2> QED
    BY <2>2, <2>3, <2>4 DEF DoneEnds
<1> QED
  BY <1>3, <1>4

\* A run of one submission stays one.
LEMMA SingleStep ==
    ASSUME TypeOK, Control, Queued, [Next]_vars, Single'
    PROVE  Single /\ ~Restarts
<1>1. restarts = 0 /\ ~Restarts
  BY RestartsStep DEF Single, Restarts, TypeOK, StoreTypeOK
<1>2. \A m \in Submits : Active(m) => Active(m)'
  BY AcceptedStays
<1> QED
  BY <1>1, <1>2 DEF Single

\* The rows of the sections go only where a request edits the plan.
LEMMA RowsStay ==
    ASSUME TypeOK, Control, Queued, [Next]_vars
    PROVE  \/ \E m \in Submits : \E edited \in SUBSET Sections : SubmitEdits(m, edited)
           \/ \A s \in Sections : secRow[s] # "absent" => secRow'[s] # "absent"
<1> USE DEF TypeOK, StoreTypeOK
<1>1. CASE Apart \/ Tears \/ Begins \/ Restarts
  BY <1>1 DEF Apart, Tears, Begins, Restarts, dbVars
<1>2. CASE Approved \/ Researched \/ \E s \in Sections : SectionBegins(s) \/ UpsertPlanned(s)
  BY <1>2 DEF Approved, Researched, SectionBegins, UpsertPlanned, dbVars
<1>3. CASE \E p \in Tasks : Returned(p) \/ Inserting(p) \/ Projecting(p)
  BY <1>3 DEF Returned, Inserting, Projecting
<1>4. CASE \E m \in Submits : \/ SubmitResolves(m) \/ SubmitKeeps(m)
                              \/ \E s \in Sections : SubmitUpserts(m, s)
  BY <1>4 DEF SubmitResolves, SubmitKeeps, SubmitUpserts, dbVars
<1> QED
  BY <1>1, <1>2, <1>3, <1>4, MovesStep DEF Moves

\* A hub forgets that it was cancelled only with its run.
LEMMA CancelledStays ==
    ASSUME TypeOK, Control, Queued, [Next]_vars, cancelled, ~cancelled'
    PROVE  Begins \/ Restarts
<1>1. CASE Apart \/ Tears
  BY <1>1 DEF Apart, Tears
<1>2. CASE Moves
  BY <1>2 DEF Moves, Approved, Researched, SectionBegins, UpsertPlanned, Returned, Inserting,
     Projecting, SubmitResolves, SubmitKeeps, SubmitUpserts, SubmitEdits, hubVars
<1> QED
  BY <1>1, <1>2, MovesStep

\* A request that is alone changes no row of a section once its run is past
\* the approval.
LEMMA LateSubmit ==
    ASSUME ResearchAccepted, Unasked, AskedOnce, Single, NEW m \in Submits,
           pc \in Past \/ (approval # "pending"
                           /\ (RequirePlanApproval => \E k \in Submits : subm[k] = "accepted"))
    PROVE  /\ \A s \in Sections : ~SubmitUpserts(m, s)
           /\ \A edited \in SUBSET Sections : ~SubmitEdits(m, edited)
<1>1. approval # "pending"
  BY DEF AskedOnce
<1>2. RequirePlanApproval => \E k \in Submits : subm[k] = "accepted"
  BY DEF ResearchAccepted, PlanAccepted
<1>3. subm[m] # "writing"
  <2> SUFFICES ASSUME subm[m] = "writing" PROVE FALSE
    OBVIOUS
  <2>1. Active(m)
    BY DEF Active
  <2>2. PICK k \in Submits : subm[k] = "accepted"
    BY <1>2, <2>1 DEF Unasked
  <2>3. Active(k)
    BY <2>2 DEF Active
  <2> QED
    BY <2>1, <2>2, <2>3 DEF Single
<1> QED
  BY <1>1, <1>3 DEF SubmitUpserts, SubmitEdits

\* Every step of a request that is alone keeps stored what it has upserted.
LEMMA ChoiceStoredStep ==
    ASSUME TypeOK, Control, Queued, ChoiceStored, Single', [Next]_vars
    PROVE  ChoiceStored'
<1> USE WriterAssumption DEF ChoiceStored, Stored, TypeOK, RequestTypeOK, StoreTypeOK
<1>0. ~Restarts
  BY SingleStep
<1>1. ASSUME UNCHANGED choice, \A m \in Submits : left'[m] = left[m],
             \A m \in Submits : Active(m)' => Active(m),
             ~\E m \in Submits : \E edited \in SUBSET Sections : SubmitEdits(m, edited)
      PROVE  ChoiceStored'
  BY <1>1, RowsStay
<1>2. CASE Apart
  BY <1>2 DEF Apart, Active
<1>3. CASE Tears \/ Begins
  BY <1>3 DEF Tears, Begins, Active
<1>4. CASE Approved \/ Researched \/ \E s \in Sections : SectionBegins(s)
  BY <1>4 DEF Approved, Researched, SectionBegins, submVars, dbVars, Active
<1>5. CASE \E s \in Sections : UpsertPlanned(s)
  BY <1>5 DEF UpsertPlanned, Active
<1>6. CASE \E p \in Tasks : Returned(p) \/ Inserting(p) \/ Projecting(p)
  BY <1>6 DEF Returned, Inserting, Projecting, Active
<1>7. ASSUME NEW k \in Submits, SubmitResolves(k)
      PROVE  ChoiceStored'
  <2>1. UNCHANGED <<secRow, choice, left>> /\ subm[k] = "writing"
        /\ \A m \in Submits : m # k => subm'[m] = subm[m]
    BY <1>7 DEF SubmitResolves, dbVars
  <2> QED
    BY <2>1 DEF Active
<1>8. ASSUME NEW k \in Submits, NEW s \in Sections, SubmitUpserts(k, s)
      PROVE  ChoiceStored'
  BY <1>8 DEF SubmitUpserts, Active
<1>9. ASSUME NEW k \in Submits, SubmitKeeps(k) \/ \E edited \in SUBSET Sections : SubmitEdits(k, edited)
      PROVE  ChoiceStored'
  <2>1. Active(k)'
    BY <1>9 DEF SubmitKeeps, SubmitEdits, Active
  <2>2. \A m \in Submits : Active(m)' => m = k
    BY <2>1 DEF Single
  <2>3. choice'[k] \ left'[k] \subseteq {s \in Sections : secRow'[s] # "absent"}
    BY <1>9 DEF SubmitKeeps, SubmitEdits, dbVars
  <2> QED
    BY <2>2, <2>3
<1> QED
  BY <1>0, <1>2, <1>3, <1>4, <1>5, <1>6, <1>7, <1>8, <1>9, MovesStep DEF Moves

\* Every step keeps the drafted sections stored until a request replaces them.
LEMMA DraftStoredStep ==
    ASSUME TypeOK, Control, Queued, DraftStored, Single', [Next]_vars
    PROVE  DraftStored'
<1> USE WriterAssumption DEF DraftStored, Drafted, Stored, TypeOK, TaskTypeOK, RequestTypeOK, StoreTypeOK
<1>0. ~Restarts /\ Engine \in Tasks
  BY SingleStep DEF Tasks
<1>1. SUFFICES ASSUME Drafted', \A m \in Submits : Active(m)' => choice'[m] = {}
               PROVE  \A s \in plan' \ left'[Engine] : secRow'[s] # "absent"
  OBVIOUS
<1>2. CASE Apart
  <2>1. \A m \in Submits : Active(m)' = Active(m) /\ choice'[m] = choice[m]
    BY <1>2 DEF Apart, Active
  <2>2. UNCHANGED <<secRow, pc, plan, left>> /\ (cancelled => cancelled')
    BY <1>2 DEF Apart
  <2>3. io'[Engine] \in Inserted => io[Engine] \in Inserted
    BY <1>0, <1>2 DEF Apart
  <2> QED
    BY <1>1, <2>1, <2>2, <2>3
<1>3. CASE Tears \/ Begins
  BY <1>1, <1>3 DEF Tears, Begins
<1>4. CASE Approved \/ Researched
  BY <1>1, <1>4 DEF Approved, Researched
<1>5. CASE \E s \in Sections : SectionBegins(s) \/ UpsertPlanned(s)
  <2>1. CASE \E s \in Sections : SectionBegins(s)
    BY <1>1, <2>1 DEF SectionBegins, Control
  <2>2. ASSUME NEW s \in Sections, UpsertPlanned(s)
        PROVE  \A t \in plan' \ left'[Engine] : secRow'[t] # "absent"
    <3>1. /\ io[Engine] = "inserted" /\ pc = "plan" /\ UNCHANGED <<plan, choice, subm>>
          /\ secRow' = [secRow EXCEPT ![s] = "pending"]
          /\ left' = [left EXCEPT ![Engine] = @ \ {s}]
      BY <2>2 DEF UpsertPlanned, taskVars
    <3>2. \A m \in Submits : Active(m) => choice[m] = {}
      BY <1>1, <3>1 DEF Active
    <3>3. \A t \in plan \ left[Engine] : secRow[t] # "absent"
      BY <3>1, <3>2 DEF Inserted
    <3> QED
      BY <3>1, <3>3
  <2> QED
    BY <1>5, <2>1, <2>2
<1>6. ASSUME NEW p \in Tasks, Returned(p) \/ Inserting(p) \/ Projecting(p)
      PROVE  \A s \in plan' \ left'[Engine] : secRow'[s] # "absent"
  <2>1. \A m \in Submits : Active(m) => choice[m] = {}
    BY <1>1, <1>6 DEF Returned, Inserting, Projecting, Active
  <2>2. p = Engine
    BY <1>1, <1>6 DEF Returned, Inserting, Projecting
  <2>3. CASE Returned(p)
    BY <1>1, <2>1, <2>2, <2>3, EngineReturned DEF Returned, Inserted
  <2>4. CASE Inserting(p)
    BY <1>1, <2>1, <2>2, <2>4 DEF Inserting
  <2>5. CASE Projecting(p)
    BY <1>1, <2>1, <2>2, <2>5 DEF Projecting, Inserted
  <2> QED
    BY <1>6, <2>3, <2>4, <2>5
<1>7. ASSUME NEW k \in Submits, SubmitResolves(k) \/ SubmitKeeps(k)
      PROVE  \A s \in plan' \ left'[Engine] : secRow'[s] # "absent"
  <2>1. UNCHANGED <<secRow, pc, plan, io, cancelled, left>>
    BY <1>7 DEF SubmitResolves, SubmitKeeps, dbVars, hubVars, taskVars
  <2>2. \A m \in Submits : Active(m) => choice[m] = {}
    <3>1. \A m \in Submits : Active(m) => Active(m)'
      BY AcceptedStays
    <3>2. \A m \in Submits : Active(m) => choice'[m] = choice[m]
      BY <1>7 DEF SubmitResolves, SubmitKeeps, Active
    <3> QED
      BY <1>1, <3>1, <3>2
  <2> QED
    BY <1>1, <2>1, <2>2
<1>8. ASSUME NEW k \in Submits, NEW s \in Sections, SubmitUpserts(k, s)
      PROVE  \A t \in plan' \ left'[Engine] : secRow'[t] # "absent"
  <2>1. /\ UNCHANGED <<pc, plan, io, cancelled, choice, subm>> /\ left'[Engine] = left[Engine]
        /\ \A t \in Sections : secRow[t] # "absent" => secRow'[t] # "absent"
    BY <1>8 DEF SubmitUpserts, hubVars, taskVars
  <2>2. \A m \in Submits : Active(m) => choice[m] = {}
    BY <1>1, <2>1 DEF Active
  <2> QED
    BY <1>1, <2>1, <2>2
<1>9. ASSUME NEW k \in Submits, NEW edited \in SUBSET Sections, SubmitEdits(k, edited)
      PROVE  \A s \in plan' \ left'[Engine] : secRow'[s] # "absent"
  BY <1>1, <1>9 DEF SubmitEdits, Active
<1> QED
  BY <1>0, <1>2, <1>3, <1>4, <1>5, <1>6, <1>7, <1>8, <1>9, MovesStep DEF Moves

\* Every step keeps a row for each section of the plan that is researched.
LEMMA PlanStoredStep ==
    ASSUME TypeOK, Control, Queued, ApprovalInv, AcceptedWhole, DraftWhole, ChoiceStored,
           DraftStored, PlanStored, Single', [Next]_vars
    PROVE  PlanStored'
<1> USE DEF Stored, ApprovalInv
<1>0. Single /\ ~Restarts
  BY SingleStep
<1>1. SUFFICES ASSUME pc' \in Past, ~cancelled'
               PROVE  \A s \in plan' : secRow'[s] # "absent"
  BY DEF PlanStored
<1>2. ~cancelled
  BY <1>0, <1>1, CancelledStays DEF Begins, Past
<1>3. CASE pc \in Past /\ plan' = plan
  <2>1. \A s \in plan : secRow[s] # "absent"
    BY <1>2, <1>3 DEF PlanStored
  <2>2. ~\E m \in Submits : \E edited \in SUBSET Sections : SubmitEdits(m, edited)
    BY <1>0, <1>3, LateSubmit
  <2> QED
    BY <1>3, <2>1, <2>2, RowsStay DEF TypeOK, TaskTypeOK
<1>4. CASE Approved
  <2>1. PICK m \in Submits : subm[m] = "accepted" /\ approved = choice[m]
    BY <1>4 DEF Approved, ResolvedByAccepted
  <2>2. Active(m) /\ left[m] = {}
    BY <2>1 DEF Active, AcceptedWhole
  <2>3. /\ pc = "wait" /\ secRow' = secRow
        /\ plan' = IF approved = {} THEN plan ELSE approved
    BY <1>4 DEF Approved, dbVars
  <2>4. CASE approved = {}
    <3>1. \A k \in Submits : Active(k) => choice[k] = {}
      BY <1>0, <2>1, <2>2, <2>4 DEF Single
    <3>2. left[Engine] = {}
      BY <2>3 DEF DraftWhole
    <3> QED
      BY <1>2, <2>3, <2>4, <3>1, <3>2 DEF DraftStored, Drafted
  <2>5. CASE approved # {}
    BY <2>1, <2>2, <2>3, <2>5 DEF ChoiceStored
  <2> QED
    BY <2>4, <2>5
<1>5. CASE pc = "plan" /\ ~RequirePlanApproval /\ Returned(Engine)
  <2>1. io[Engine] = "projected" /\ UNCHANGED <<secRow, plan>>
    BY <1>2, <1>5 DEF Returned
  <2>2. left[Engine] = {}
    BY <1>5, <2>1 DEF DraftWhole
  <2>3. \A m \in Submits : ~Active(m)
    BY <1>5 DEF Unasked
  <2> QED
    BY <1>5, <2>1, <2>2, <2>3 DEF DraftStored, Drafted, Inserted
<1> QED
  BY <1>1, <1>3, <1>4, <1>5, PastStep

\* Every step keeps the rows of the finished sections finished.
LEMMA SectionsFinishStep ==
    ASSUME TypeOK, TypeOK', Control, Queued, ApprovalInv, PlanStored, SectionsFinish, Single',
           [Next]_vars
    PROVE  SectionsFinish'
<1>1. SUFFICES ASSUME ~cancelled', NEW s \in plan', SectionFinished(s)'
               PROVE  secRow'[s] = "done"
  BY DEF SectionsFinish
<1> USE WriterAssumption DEF SectionFinished, TypeOK, TaskTypeOK, StoreTypeOK, ApprovalInv
<1>0. Single /\ ~Restarts /\ Sections \subseteq Tasks /\ Engine \in Tasks \ Sections
  BY SingleStep DEF Tasks
<1>2. s \in Sections /\ s \in Tasks
  BY <1>0
<1>3. ASSUME ~cancelled, s \in plan, SectionFinished(s), secRow'[s] = secRow[s]
      PROVE  secRow'[s] = "done"
  BY <1>3 DEF SectionsFinish
<1>4. CASE Apart
  <2>1. UNCHANGED <<secRow, pc, plan, sec>> /\ (cancelled => cancelled')
    BY <1>4 DEF Apart
  <2>2. io'[s] = "projected" => io[s] = "projected"
    BY <1>2, <1>4 DEF Apart, Inserted
  <2> QED
    BY <1>1, <1>3, <2>1, <2>2
<1>5. CASE Tears
  BY <1>1, <1>2, <1>5 DEF Tears
<1>6. CASE Begins
  BY <1>1, <1>2, <1>6 DEF Begins, Untouched, Before
<1>7. CASE Approved
  BY <1>1, <1>2, <1>7 DEF Approved, Untouched, Before
<1>8. CASE Researched
  BY <1>1, <1>3, <1>8 DEF Researched, Past, dbVars, hubVars
<1>9. ASSUME NEW t \in Sections, SectionBegins(t)
      PROVE  secRow'[s] = "done"
  <2>1. /\ UNCHANGED <<secRow, cancelled, pc, plan, io>>
        /\ sec' = [sec EXCEPT ![t] = "section_start"]
    BY <1>9 DEF SectionBegins, dbVars, hubVars
  <2>2. s # t
    BY <1>1, <1>2, <2>1
  <2> QED
    BY <1>1, <1>2, <1>3, <2>1, <2>2
<1>10. ASSUME NEW t \in Sections, UpsertPlanned(t)
       PROVE  secRow'[s] = "done"
  <2>1. pc = "plan" /\ sec' = sec
    BY <1>10 DEF UpsertPlanned, taskVars
  <2>2. sec'[s] = "off"
    BY <1>2, <2>1 DEF Untouched, Before
  <2> QED
    BY <1>1, <2>2
<1>11. CASE Returned(Engine)
  <2>1. UNCHANGED <<secRow, cancelled, plan>> /\ io'[s] = io[s]
    BY <1>0, <1>2, <1>11 DEF Returned
  <2>2. CASE pc = "researching"
    <3>1. sec'[s] = "ready"
      BY <1>1, <1>2, <1>11, <2>1, <2>2, EngineReturned DEF Returned
    <3> QED
      BY <1>1, <3>1
  <2>3. CASE pc # "researching" /\ pc \in Before
    <3>1. sec'[s] = "off"
      BY <1>2, <1>11, <2>3, EngineReturned DEF Untouched
    <3> QED
      BY <1>1, <3>1
  <2>4. CASE pc \notin Before
    <3>1. sec' = sec /\ (pc' \in Past => pc \in Past)
      BY <1>11, <2>4, EngineReturned DEF Before, Past
    <3> QED
      BY <1>1, <1>3, <2>1, <3>1
  <2> QED
    BY <2>2, <2>3, <2>4
<1>12. ASSUME NEW p \in Tasks, p # Engine, Returned(p)
       PROVE  secRow'[s] = "done"
  <2>1. /\ UNCHANGED <<secRow, cancelled, plan, pc>> /\ pc = "research" /\ p \in Sections
        /\ sec' = [sec EXCEPT ![p] = AfterSection(sec[p])] /\ sec[p] \in SectionEvents
        /\ io'[p] = "idle" /\ io[p] = "projected"
    BY <1>1, <1>12 DEF Returned, Tasks
  <2>2. CASE s = p
    <3>1. sec'[s] = "done"
      BY <1>1, <2>1, <2>2
    <3>2. AfterSection(sec[s]) = "done"
      BY <1>2, <2>1, <2>2, <3>1
    <3>3. sec[s] = "section_done"
      BY <2>1, <2>2, <3>2 DEF AfterSection, SectionEvents
    <3> QED
      BY <1>1, <1>3, <2>1, <2>2, <3>3
  <2>3. CASE s # p
    <3>1. sec'[s] = sec[s] /\ io'[s] = io[s]
      BY <1>2, <1>12, <2>1, <2>3 DEF Returned
    <3> QED
      BY <1>1, <1>3, <2>1, <3>1
  <2> QED
    BY <2>2, <2>3
<1>13. ASSUME NEW p \in Tasks, Inserting(p)
       PROVE  secRow'[s] = "done"
  <2>1. UNCHANGED <<secRow, cancelled, plan, pc, sec>>
    BY <1>13 DEF Inserting
  <2>2. io'[s] = "projected" => io[s] = "projected"
    BY <1>2, <1>13 DEF Inserting
  <2> QED
    BY <1>1, <1>3, <2>1, <2>2
<1>14. ASSUME NEW p \in Tasks, Projecting(p)
       PROVE  secRow'[s] = "done"
  <2>1. UNCHANGED <<cancelled, plan, pc, sec>>
    BY <1>14 DEF Projecting
  <2>2. CASE s # p
    <3>1. secRow'[s] = secRow[s] /\ io'[s] = io[s]
      BY <1>2, <1>14, <2>2 DEF Projecting
    <3> QED
      BY <1>1, <1>3, <2>1, <3>1
  <2>3. CASE s = p
    <3>1. /\ p # Engine /\ pc = "research" /\ sec[p] \in SectionEvents
          /\ secRow[p] # "absent" /\ sec[p] = "section_done" => secRow'[p] = "done"
      BY <1>0, <1>2, <1>14, <2>3 DEF Projecting
    <3>2. sec[p] = "section_done"
      BY <1>1, <2>1, <2>3, <3>1 DEF SectionEvents
    <3>3. secRow[p] # "absent"
      BY <1>1, <2>1, <2>3, <3>1 DEF PlanStored, Past, Stored
    <3> QED
      BY <2>3, <3>1, <3>2, <3>3
  <2> QED
    BY <2>2, <2>3
<1>15. ASSUME NEW k \in Submits, SubmitResolves(k) \/ SubmitKeeps(k)
       PROVE  secRow'[s] = "done"
  BY <1>1, <1>3, <1>15 DEF SubmitResolves, SubmitKeeps, dbVars, hubVars, taskVars
<1>16. ASSUME NEW k \in Submits, \/ \E t \in Sections : SubmitUpserts(k, t)
                                 \/ \E edited \in SUBSET Sections : SubmitEdits(k, edited)
       PROVE  secRow'[s] = "done"
  <2>1. UNCHANGED <<cancelled, plan, pc, sec, io>>
    BY <1>16 DEF SubmitUpserts, SubmitEdits, taskVars, hubVars
  <2>2. pc \in Past
    BY <1>1, <1>2, <2>1 DEF Control, SectionEvents, Past
  <2> QED
    BY <1>0, <1>16, <2>2, LateSubmit
<1> QED
  BY <1>0, <1>4, <1>5, <1>6, <1>7, <1>8, <1>9, <1>10, <1>11, <1>12, <1>13, <1>14, <1>15, <1>16,
     MovesStep DEF Moves

\* Every step of a writing engine keeps the plan finished.
LEMMA PlanFinishesStep ==
    ASSUME TypeOK, Control, Queued, ApprovalInv, SectionsFinish, PlanFinishes, Single', [Next]_vars
    PROVE  PlanFinishes'
<1> USE DEF ApprovalInv
<1>0. Single /\ ~Restarts /\ Engine \in Tasks
  BY SingleStep DEF Tasks
<1>1. SUFFICES ASSUME Finishing' PROVE Finished(plan)'
  BY DEF PlanFinishes
<1>2. ASSUME Finishing, UNCHANGED <<plan, secRow>>
      PROVE  Finished(plan)'
  BY <1>2 DEF PlanFinishes, Finished
<1>3. CASE Apart
  <2>1. UNCHANGED <<pc, plan, secRow>> /\ (cancelled => cancelled')
    BY <1>3 DEF Apart
  <2>2. io'[Engine] \in Inserted => io[Engine] \in Inserted
    BY <1>0, <1>3 DEF Apart
  <2> QED
    BY <1>1, <1>2, <2>1, <2>2 DEF Finishing
<1>4. CASE Tears \/ Begins \/ Approved
  BY <1>1, <1>4 DEF Tears, Begins, Approved, Finishing
<1>5. CASE Researched
  <2>1. /\ pc = "research" /\ (\A s \in plan : sec[s] = "done")
        /\ UNCHANGED <<plan, secRow, cancelled>> /\ pc' = "writing"
    BY <1>5 DEF Researched, AllDone, dbVars, hubVars
  <2>2. ~cancelled
    BY <1>1, <2>1 DEF Finishing
  <2> QED
    BY <2>1, <2>2 DEF SectionsFinish, SectionFinished, Finished, Past
<1>6. CASE \E s \in Sections : SectionBegins(s) \/ UpsertPlanned(s)
  BY <1>1, <1>6 DEF SectionBegins, UpsertPlanned, Control, Finishing, taskVars
<1>7. ASSUME NEW p \in Tasks, Returned(p)
      PROVE  Finished(plan)'
  <2>1. CASE p = Engine
    <3>1. UNCHANGED <<plan, secRow, cancelled>> /\ io'[Engine] = "idle"
      BY <1>7, <2>1 DEF Returned
    <3>2. ~cancelled /\ pc \in {"writing", "report_delta", "report"}
      BY <1>1, <1>7, <2>1, <3>1, EngineReturned, ApprovalAssumption DEF Finishing, Inserted
    <3> QED
      BY <1>2, <3>1, <3>2 DEF Finishing
  <2>2. CASE p # Engine
    BY <1>1, <1>7, <2>2 DEF Returned, Finishing
  <2> QED
    BY <2>1, <2>2
<1>8. ASSUME NEW p \in Tasks, Inserting(p) \/ Projecting(p)
      PROVE  Finished(plan)'
  <2>1. p = Engine
    BY <1>1, <1>8 DEF Inserting, Projecting, Finishing
  <2> QED
    BY <1>1, <1>2, <1>8, <2>1 DEF Inserting, Projecting, Finishing, Inserted
<1>9. ASSUME NEW k \in Submits, SubmitResolves(k) \/ SubmitKeeps(k)
      PROVE  Finished(plan)'
  BY <1>1, <1>2, <1>9 DEF SubmitResolves, SubmitKeeps, Finishing, dbVars, hubVars, taskVars
<1>10. ASSUME NEW k \in Submits, \/ \E s \in Sections : SubmitUpserts(k, s)
                                 \/ \E edited \in SUBSET Sections : SubmitEdits(k, edited)
       PROVE  Finished(plan)'
  <2>1. pc \in Past
    BY <1>1, <1>10 DEF SubmitUpserts, SubmitEdits, taskVars, Finishing, Past
  <2> QED
    BY <1>0, <1>10, <2>1, LateSubmit
<1> QED
  BY <1>0, <1>3, <1>4, <1>5, <1>6, <1>7, <1>8, <1>9, <1>10, MovesStep DEF Moves

\* Every step keeps the plan finished once `done` is logged.
LEMMA DoneFinishedStep ==
    ASSUME TypeOK, Control, Queued, ApprovalInv, DoneEnds, PlanFinishes, DoneFinished, Single',
           [Next]_vars
    PROVE  DoneFinished'
<1> USE DEF ApprovalInv
<1>0. Single /\ ~Restarts /\ restarts = 0
  BY SingleStep DEF Single
<1>1. SUFFICES ASSUME DoneLogged' PROVE Finished(plan)'
  BY DEF DoneFinished
<1>2. ASSUME DoneLogged, UNCHANGED <<plan, secRow>>
      PROVE  Finished(plan)'
  BY <1>2 DEF DoneFinished, Finished
<1>3. DoneLogged => /\ pc \in {"done", "timeout", "finished"} /\ approval # "pending"
                    /\ RequirePlanApproval => \E k \in Submits : subm[k] = "accepted"
  BY <1>0 DEF DoneEnds
<1>4. CASE Apart \/ Tears \/ Begins
  BY <1>1, <1>2, <1>4 DEF Apart, Tears, Begins, DoneLogged
<1>5. CASE Approved \/ Researched \/ \E s \in Sections : SectionBegins(s) \/ UpsertPlanned(s)
  <2>1. log' = log /\ (pc \in {"wait", "research"} \/ pc = "plan")
    BY <1>5 DEF Approved, Researched, SectionBegins, UpsertPlanned, Control, dbVars
  <2> QED
    BY <1>1, <1>3, <2>1 DEF DoneLogged
<1>6. ASSUME NEW p \in Tasks, Inserting(p)
      PROVE  Finished(plan)'
  <2>1. /\ UNCHANGED <<plan, secRow>>
        /\ DoneLogged \/ (p = Engine /\ pc = "done" /\ ~cancelled)
    BY <1>1, <1>6 DEF Inserting
  <2>2. CASE pc = "done" /\ ~cancelled
    BY <2>1, <2>2 DEF PlanFinishes, Finishing, Finished
  <2> QED
    BY <1>2, <2>1, <2>2
<1>7. ASSUME NEW p \in Tasks, Returned(p) \/ Projecting(p)
      PROVE  Finished(plan)'
  <2>1. log' = log /\ plan' = plan
    BY <1>7 DEF Returned, Projecting
  <2>2. DoneLogged
    BY <1>1, <2>1 DEF DoneLogged
  <2>3. secRow' = secRow
    BY <1>3, <1>7, <2>2 DEF Returned, Projecting
  <2> QED
    BY <1>2, <2>1, <2>2, <2>3
<1>8. ASSUME NEW k \in Submits, SubmitResolves(k) \/ SubmitKeeps(k)
      PROVE  Finished(plan)'
  BY <1>1, <1>2, <1>8 DEF SubmitResolves, SubmitKeeps, DoneLogged, dbVars, taskVars
<1>9. ASSUME NEW k \in Submits, \/ \E s \in Sections : SubmitUpserts(k, s)
                                \/ \E edited \in SUBSET Sections : SubmitEdits(k, edited)
      PROVE  Finished(plan)'
  <2>1. DoneLogged
    BY <1>1, <1>9 DEF SubmitUpserts, SubmitEdits, DoneLogged
  <2> QED
    BY <1>0, <1>3, <1>9, <2>1, LateSubmit
<1> QED
  BY <1>0, <1>4, <1>5, <1>6, <1>7, <1>8, <1>9, MovesStep DEF Moves

\* A run nobody connected to yet satisfies the invariant, and every step
\* keeps it.
LEMMA StoreInit == Init => StoreInv
<1> SUFFICES ASSUME Init PROVE StoreInv
  OBVIOUS
<1>1. /\ DOMAIN log = {} /\ pc = "off" /\ left[Engine] = {} /\ \A s \in Sections : sec[s] = "off"
      /\ \A m \in Submits : subm[m] = "idle"
      /\ plan = Sections
  BY DEF Init
<1> QED
  BY <1>1 DEF StoreInv, AcceptedWhole, DraftWhole, ReportFirst, DoneEnds, DoneLogged, ChoiceStored,
     DraftStored, Drafted, PlanStored, SectionsFinish, SectionFinished, PlanFinishes, Finishing,
     DoneFinished, Active, Past

LEMMA StoreStep == IInv /\ ApprovalInv /\ StoreInv /\ [Next]_vars => StoreInv'
<1> SUFFICES ASSUME IInv, ApprovalInv, StoreInv, [Next]_vars PROVE StoreInv'
  OBVIOUS
<1>1. TypeOK /\ Control /\ Queued /\ ResearchAccepted /\ AskedOnce /\ TypeOK'
  BY StepInv DEF IInv, ApprovalInv
<1>2. AcceptedWhole /\ DraftWhole /\ ReportFirst /\ DoneEnds
  BY DEF StoreInv
<1>3. AcceptedWhole' /\ DraftWhole'
  BY <1>1, <1>2, AcceptedWholeStep, DraftWholeStep
<1>4. ReportFirst' /\ DoneEnds'
  BY <1>1, <1>2, ReportFirstStep, DoneEndsStep
<1>5. ASSUME Single'
      PROVE  /\ ChoiceStored' /\ DraftStored' /\ PlanStored' /\ SectionsFinish'
             /\ PlanFinishes' /\ DoneFinished'
  <2>1. Single
    BY <1>1, <1>5, SingleStep
  <2>2. ChoiceStored /\ DraftStored /\ PlanStored /\ SectionsFinish /\ PlanFinishes /\ DoneFinished
    BY <2>1 DEF StoreInv
  <2>3. ChoiceStored' /\ DraftStored'
    BY <1>1, <1>5, <2>2, ChoiceStoredStep, DraftStoredStep
  <2>4. PlanStored' /\ SectionsFinish'
    BY <1>1, <1>2, <1>5, <2>2, PlanStoredStep, SectionsFinishStep
  <2>5. PlanFinishes' /\ DoneFinished'
    BY <1>1, <1>2, <1>5, <2>2, PlanFinishesStep, DoneFinishedStep
  <2> QED
    BY <2>3, <2>4, <2>5
<1> QED
  BY <1>3, <1>4, <1>5 DEF StoreInv

\* StoreInv holds in every state of a run.
THEOREM StoreInvariance == Spec => []StoreInv
BY StoreInit, StoreStep, Invariance, ApprovalInvariance, PTL DEF Spec

\* A run whose status is `done` has its report, and, unless two submissions
\* overlapped or the process was restarted, a finished row for every section
\* it researched.
THEOREM DoneHasAll == Spec => []DoneIsComplete
<1>1. OutcomeInv /\ StoreInv => DoneIsComplete
  <2> SUFFICES ASSUME OutcomeInv, StoreInv, row = "done" PROVE DoneIsComplete
    BY DEF DoneIsComplete
  <2>1. DoneLogged
    BY DEF OutcomeInv, RowLogged, DoneLogged, StatusEvents
  <2>2. report
    BY <2>1 DEF StoreInv, ReportFirst
  <2>3. ASSUME restarts = 0, \A m, k \in Submits : Active(m) /\ Active(k) => m = k
        PROVE  \A s \in plan : secRow[s] = "done"
    BY <2>1, <2>3 DEF StoreInv, Single, DoneFinished, Finished
  <2> QED
    BY <2>2, <2>3 DEF DoneIsComplete, Active
<1> QED
  BY <1>1, OutcomeInvariance, StoreInvariance, PTL

=============================================================================

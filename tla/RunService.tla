------------------------------ MODULE RunService ------------------------------
(***************************************************************************)
(* One research run as backend/app/services/run_service.py executes it:    *)
(* the hub that owns the run's task, the append-only event log and its     *)
(* projections in SQLite, the live SSE subscribers, and the requests that  *)
(* race with them (subscribe, cancel, submit_plan).                        *)
(*                                                                         *)
(* The server is one asyncio event loop, so a step of this module is the   *)
(* code between two awaits.  A statement sent to SQLite takes effect when  *)
(* it is sent (aiosqlite runs them in order on one thread) and its caller  *)
(* resumes in a later step; cancelling the caller does not undo it.        *)
(***************************************************************************)
EXTENDS Integers, Sequences, FiniteSets

CONSTANTS
    Sections,             \* the sections of the plan the LLM drafts
    SectionConcurrency,   \* RunConfig.section_concurrency
    RequirePlanApproval,  \* RunConfig.require_plan_approval
    Subscribers,          \* GET /runs/{id}/stream connections
    Cancels,              \* POST /runs/{id}/cancel requests
    Submits,              \* POST /runs/{id}/plan requests
    Engine,               \* the run's background task
    MaxRestarts           \* bound on process restarts

ASSUME SectionsAssumption == Sections # {} /\ IsFiniteSet(Sections)
ASSUME ConcurrencyAssumption == SectionConcurrency \in Nat \ {0}
ASSUME ApprovalAssumption == RequirePlanApproval \in BOOLEAN
ASSUME RestartAssumption == MaxRestarts \in Nat
ASSUME WriterAssumption ==
    /\ Engine \notin Sections \cup Cancels \cup Submits
    /\ Sections \cap Cancels = {}

VARIABLES
    \* SQLite: survives a restart
    row,        \* runs.status
    report,     \* whether runs.report_markdown is set
    secRow,     \* sections.status of each section, "absent" without a row
    log,        \* the events table of the run: seq -> event type
    \* the RunHub: lost by a restart
    hubUp,      \* the run has an entry in RunService._hubs
    cancelled,  \* RunHub.cancelled
    approval,   \* RunHub.approval, the future that submit_plan resolves
    approved,   \* the sections the future was resolved with
    nextSeq,    \* RunHub.next_seq
    \* the run's task
    pc,         \* where ResearchEngine.run is: the event it emits next
    plan,       \* the sections it researches
    sec,        \* where each section's child task is
    io,         \* how far each writer is in writing its event, under write_lock
    ahead,      \* the writers each waiter for write_lock is queued behind (FIFO)
    \* requests
    sub,        \* where each subscriber's generator is
    queue,      \* the asyncio.Queue of each subscriber
    got,        \* what each subscriber was sent
    can,        \* where each cancel request is
    seqOf,      \* the seq a cancel without a hub computed
    subm,       \* where each submit_plan request is
    choice,     \* the sections a submit_plan request will approve
    left,       \* the upserts a section-writing loop still has to issue
    restarts

dbVars    == <<row, report, secRow, log>>
hubVars   == <<hubUp, cancelled, approval, approved, nextSeq>>
taskVars  == <<pc, plan, sec, io, ahead>>
subVars   == <<sub, queue, got>>
canVars   == <<can, seqOf>>
submVars  == <<subm, choice, left>>
vars == <<dbVars, hubVars, taskVars, subVars, canVars, submVars, restarts>>

-----------------------------------------------------------------------------
(* Vocabulary *)

Tasks   == {Engine} \cup Sections
Writers == Tasks \cup Cancels

\* Where the engine's main coroutine awaits the emission of an event.  One
\* report_delta stands for all the chunks synthesize() streams.
EmitPcs == {"planning", "plan", "awaiting_plan", "researching", "writing",
            "report_delta", "report", "done", "error", "timeout"}
\* The events of a section; "work" stands for every search, source, note,
\* claim, verification and contradiction event.
SectionEvents == {"section_start", "work", "section_done"}
\* Events whose projection is runs.status; the names of the two agree.
StatusEvents == {"planning", "awaiting_plan", "researching", "writing",
                 "done", "error", "cancelled"}
Statuses == StatusEvents \cup {"queued"}
Terminal == {"done", "error", "cancelled"}
EventTypes == StatusEvents \cup SectionEvents \cup {"plan", "report_delta", "report"}
\* A stream ends itself after these; `cancelled` is not one of them.
StreamEnds == {"done", "error"}

Items == [seq : Nat, type : EventTypes \cup {"stop"}]
Stop  == [seq |-> 0, type |-> "stop"]   \* the None sentinel

\* subscribe() is inside ensure_started, holding RunService._lock.
Starting   == {"register", "resolve", "start"}
\* subscribe() has its queue in hub.subscribers.
Registered == {"attached", "live"}

StartLockFree == \A u \in Subscribers : sub[u] \notin Starting

EventOf(p) ==
    IF p \in Cancels THEN "cancelled"
    ELSE IF p \in Sections THEN sec[p]
    ELSE IF pc = "timeout" THEN "error" ELSE pc

LogWith(seq, type) ==
    [n \in DOMAIN log \cup {seq} |-> IF n = seq THEN type ELSE log[n]]

\* Put the items on the queue of every registered subscriber.
PushTo(items) ==
    [u \in Subscribers |-> IF sub[u] \in Registered THEN queue[u] \o items ELSE queue[u]]

\* Mutant: an insert that replaces the row it conflicts with.
Taken_Upsert(seq) == FALSE

\* The primary key (run_id, seq) of the events table refuses the seq.
Taken(seq) == seq \in DOMAIN log

\* Mutant: the count taken for the last seq.
CountByRun_FromOne == Cardinality(DOMAIN log) + 1

\* EventRepo.count_by_run
CountByRun == Cardinality(DOMAIN log)

\* Mutants: every event of type `status` or none but the engine's is projected.
RowAfter_AnyEvent(type) == type
RowAfter_EngineOnly(type) == IF type \in StatusEvents \ {"cancelled"} THEN type ELSE row

\* The runs.status that _persist of an event leaves.
RowAfter(type) == IF type \in StatusEvents THEN type ELSE row

-----------------------------------------------------------------------------
Init ==
    /\ row = "queued" /\ report = FALSE /\ log = << >>
    /\ secRow = [s \in Sections |-> "absent"]
    /\ hubUp = FALSE /\ cancelled = FALSE /\ nextSeq = 0
    /\ approval = "none" /\ approved = {}
    /\ pc = "off" /\ plan = Sections
    /\ sec = [s \in Sections |-> "off"]
    /\ io = [p \in Writers |-> "idle"]
    /\ ahead = [p \in Writers |-> {}]
    /\ sub = [u \in Subscribers |-> "idle"]
    /\ queue = [u \in Subscribers |-> << >>]
    /\ got = [u \in Subscribers |-> << >>]
    /\ can = [c \in Cancels |-> "idle"]
    /\ seqOf = [c \in Cancels |-> 0]
    /\ subm = [m \in Submits |-> "idle"]
    /\ choice = [m \in Submits |-> {}]
    /\ left = [w \in Submits \cup {Engine} |-> {}]
    /\ restarts = 0

-----------------------------------------------------------------------------
(* RunHub.write_lock, an asyncio.Lock: it goes to its waiters in the order    *)
(* they came, and a cancelled waiter or holder gives up its place.            *)

\* Mutant: only the holder is looked at, not the other waiters.
Join_IgnoresWaiters(p) ==
    /\ io' = [io EXCEPT ![p] = "waiting"]
    /\ ahead' = [ahead EXCEPT ![p] = {q \in Writers : io[q] \in {"inserted", "projected"}}]

Join(p) ==
    /\ io' = [io EXCEPT ![p] = "waiting"]
    /\ ahead' = [ahead EXCEPT ![p] = {q \in Writers : io[q] # "idle"}]

HasLock(p) == io[p] = "waiting" /\ ahead[p] = {}

Leave(ps) ==
    /\ io' = [p \in Writers |-> IF p \in ps THEN "idle" ELSE io[p]]
    /\ ahead' = [p \in Writers |-> IF p \in ps THEN {} ELSE ahead[p] \ ps]

-----------------------------------------------------------------------------
(* The engine's control flow *)

\* What follows an emission that returned (ResearchEngine.run, then _run).  To
\* await a future that a cancel has cancelled before raises at once, which
\* ends the task.
AfterEmit(at) ==
    CASE at = "planning"      -> "plan"
      [] at = "plan"          -> IF RequirePlanApproval THEN "awaiting_plan" ELSE "researching"
      [] at = "awaiting_plan" -> IF approval = "cancelled" THEN "finished" ELSE "wait"
      [] at = "researching"   -> "research"
      [] at = "writing"       -> "report_delta"
      [] at = "report_delta"  -> "report"
      [] at = "report"        -> "done"
      [] OTHER                -> "finished"

AfterSection(at) ==
    CASE at = "section_start" -> "work"
      [] at = "work"          -> "section_done"
      [] OTHER                -> "done"

\* The emission of task p returns, having put `items` on the queues.  When it
\* was the last one, _run's `finally` sets `finished` and sends the sentinel.
Return(p, items) ==
    LET next == IF p = Engine THEN AfterEmit(pc) ELSE pc IN
    /\ pc' = next
    /\ sec' = IF p \in Sections THEN [sec EXCEPT ![p] = AfterSection(sec[p])]
              ELSE IF next = "research"
                   THEN [s \in Sections |-> IF s \in plan THEN "ready" ELSE "off"]
                   ELSE sec
    /\ queue' = PushTo(IF next = "finished" THEN Append(items, Stop) ELSE items)

\* An exception leaves the current await: the TaskGroup cancels the sibling
\* sections, run() emits `error` and re-raises; an exception out of an `error`
\* emission ends the task.  Nothing already sent to SQLite is undone.
Raise ==
    LET next == IF pc \in {"error", "timeout"} THEN "finished" ELSE "error" IN
    /\ pc' = next
    /\ sec' = [s \in Sections |-> "off"]
    /\ Leave(Tasks)
    /\ queue' = PushTo(IF next = "finished" THEN <<Stop>> ELSE << >>)

\* The planner or the synthesizer fails.
EngineFails ==
    /\ pc \in {"plan", "report_delta", "report"} /\ io[Engine] = "idle"
    /\ Raise
    /\ UNCHANGED <<dbVars, hubVars, plan, sub, got, canVars, submVars, restarts>>

\* A section fails: an LLM, search or crawl call raised.
SectionFails(s) ==
    /\ sec[s] \in SectionEvents /\ io[s] = "idle"
    /\ Raise
    /\ UNCHANGED <<dbVars, hubVars, plan, sub, got, canVars, submVars, restarts>>

\* Mutant: the approved sections are not used.
Approved_AsDrafted ==
    /\ pc = "wait" /\ approval = "resolved"
    /\ pc' = "researching"
    /\ UNCHANGED <<dbVars, hubVars, plan, sec, io, ahead, subVars, canVars, submVars, restarts>>

\* The plan-approval future resolves: `sections = approved or plan.sections`.
Approved ==
    /\ pc = "wait" /\ approval = "resolved"
    /\ pc' = "researching"
    /\ plan' = IF approved = {} THEN plan ELSE approved
    /\ UNCHANGED <<dbVars, hubVars, sec, io, ahead, subVars, canVars, submVars, restarts>>

\* run_section gets the section semaphore.
SectionBegins(s) ==
    /\ sec[s] = "ready"
    /\ Cardinality({t \in Sections : sec[t] \in SectionEvents}) < SectionConcurrency
    /\ sec' = [sec EXCEPT ![s] = "section_start"]
    /\ UNCHANGED <<dbVars, hubVars, pc, plan, io, ahead, subVars, canVars, submVars, restarts>>

\* Mutant: the first child to finish ends the wait.
AllDone_FirstOne == \E s \in plan : sec[s] = "done"

\* The TaskGroup waits for all its children.
AllDone == \A s \in plan : sec[s] = "done"

Researched ==
    /\ pc = "research" /\ AllDone
    /\ pc' = "writing"
    /\ UNCHANGED <<dbVars, hubVars, plan, sec, io, ahead, subVars, canVars, submVars, restarts>>

-----------------------------------------------------------------------------
(* Writing an event: the engine's sink and _emit_out_of_band *)

\* Task p is at an emit(), about to ask for write_lock.
AtEmit(p) ==
    /\ io[p] = "idle"
    /\ \/ p = Engine /\ pc \in EmitPcs
       \/ p \in Sections /\ sec[p] \in SectionEvents

\* It has to wait when somebody holds the lock or waits for it.
Waits(p) ==
    /\ AtEmit(p) /\ \E q \in Writers : io[q] # "idle"
    /\ Join(p)
    /\ UNCHANGED <<dbVars, hubVars, pc, plan, sec, subVars, canVars, submVars, restarts>>

\* It has the lock.  A free lock is taken without suspending, so nothing runs
\* between the emit() and the sink's look at hub.cancelled.
Enters(p) ==
    \/ AtEmit(p) /\ \A q \in Writers : io[q] = "idle"
    \/ p \in Tasks /\ HasLock(p)

\* Mutant: the sink does not look at hub.cancelled.
Admitted_Always(p) == TRUE

\* The sink drops what comes after a cancellation; the timeout's `error` is
\* written out of band.
Admitted(p) == ~cancelled \/ (p = Engine /\ pc = "timeout")

SinkDrops(p) ==
    /\ Enters(p) /\ ~Admitted(p)
    /\ Leave({p})
    /\ Return(p, << >>)
    /\ UNCHANGED <<dbVars, hubVars, plan, sub, got, canVars, submVars, restarts>>

\* Allocate the seq and insert the event.
Appends(p) ==
    /\ Enters(p) /\ Admitted(p)
    /\ ~Taken(nextSeq)
    /\ log' = LogWith(nextSeq, EventOf(p))
    /\ nextSeq' = nextSeq + 1
    /\ io' = [io EXCEPT ![p] = "inserted"]
    /\ left' = IF EventOf(p) = "plan" THEN [left EXCEPT ![Engine] = plan] ELSE left
    /\ UNCHANGED <<row, report, secRow, hubUp, cancelled, approval, approved, pc, plan, sec,
                   ahead, subVars, canVars, subm, choice, restarts>>

\* The insert fails on the primary key.
AppendFails(p) ==
    /\ Enters(p) /\ Admitted(p)
    /\ Taken(nextSeq)
    /\ nextSeq' = nextSeq + 1
    /\ Raise
    /\ UNCHANGED <<dbVars, hubUp, cancelled, approval, approved, plan, sub, got,
                   canVars, submVars, restarts>>

\* _persist of a `plan` event upserts the sections one await at a time.
UpsertPlanned(s) ==
    /\ io[Engine] = "inserted" /\ pc = "plan" /\ s \in left[Engine]
    /\ secRow' = [secRow EXCEPT ![s] = "pending"]
    /\ left' = [left EXCEPT ![Engine] = @ \ {s}]
    /\ UNCHANGED <<row, report, log, hubVars, taskVars, subVars, canVars, subm, choice, restarts>>

\* The rest of _persist: the derived write of the event's type.  An UPDATE of
\* a section that has no row changes nothing.
Projects(p) ==
    /\ io[p] = "inserted"
    /\ p = Engine /\ pc = "plan" => left[Engine] = {}
    /\ row' = RowAfter(EventOf(p))
    /\ report' = (report \/ EventOf(p) = "report")
    /\ secRow' =
         IF p \in Sections /\ secRow[p] # "absent"
         THEN [secRow EXCEPT ![p] = CASE sec[p] = "section_start" -> "researching"
                                      [] sec[p] = "section_done"  -> "done"
                                      [] OTHER -> @]
         ELSE secRow
    /\ io' = [io EXCEPT ![p] = "projected"]
    /\ UNCHANGED <<log, hubVars, pc, plan, sec, ahead, subVars, canVars, submVars, restarts>>

\* Mutant: next_seq read after it was incremented.
Written_NextSeq(p) == [seq |-> nextSeq, type |-> EventOf(p)]

\* The event under write_lock; its seq is the last one allocated.
Written(p) == [seq |-> nextSeq - 1, type |-> EventOf(p)]

\* Fan out, release the lock and go on.
FansOut(p) ==
    /\ p \in Tasks /\ io[p] = "projected"
    /\ Leave({p})
    /\ Return(p, <<Written(p)>>)
    /\ UNCHANGED <<dbVars, hubVars, plan, sub, got, canVars, submVars, restarts>>

\* Mutant: the clock stops while the run waits for its approval.
InEngineRun_NotWaiting == pc \notin {"off", "timeout", "finished", "dropped", "wait"}

\* The timeout covers engine.run, the wait for the approval included.
InEngineRun == pc \notin {"off", "timeout", "finished", "dropped"}

\* asyncio.timeout(config.timeout_s) expires inside engine.run: the engine is
\* cancelled where it is and _run goes on to emit `error`.
TimesOut ==
    /\ InEngineRun
    /\ pc' = "timeout"
    /\ sec' = [s \in Sections |-> "off"]
    /\ Leave(Tasks)
    /\ approval' = IF pc = "wait" /\ approval = "pending" THEN "cancelled" ELSE approval
    /\ UNCHANGED <<dbVars, hubUp, cancelled, approved, nextSeq, plan, subVars, canVars,
                   submVars, restarts>>

-----------------------------------------------------------------------------
(* cancel() *)

\* The request reads runs.status; it goes on only if the status is not
\* terminal.  It resumes later, with what it read.
CancelReads(c) ==
    /\ can[c] = "idle"
    /\ can' = [can EXCEPT ![c] = IF row \in Terminal THEN "refused" ELSE "read"]
    /\ UNCHANGED <<dbVars, hubVars, taskVars, subVars, seqOf, submVars, restarts>>

\* With a hub: mark it, then queue for write_lock.  Without one: count the
\* events to find a seq.
CancelMarks(c) ==
    /\ can[c] = "read"
    /\ IF hubUp
       THEN /\ cancelled' = TRUE
            /\ can' = [can EXCEPT ![c] = "locked"]
            /\ Join(c)
            /\ UNCHANGED seqOf
       ELSE /\ can' = [can EXCEPT ![c] = "unlocked"]
            /\ seqOf' = [seqOf EXCEPT ![c] = CountByRun]
            /\ UNCHANGED <<cancelled, io, ahead>>
    /\ UNCHANGED <<dbVars, hubUp, approval, approved, nextSeq, pc, plan, sec, subVars, submVars,
                   restarts>>

\* _emit_out_of_band under write_lock: insert, or fail on the primary key.
CancelAppends(c) ==
    /\ HasLock(c)
    /\ nextSeq' = nextSeq + 1
    /\ IF Taken(nextSeq)
       THEN /\ can' = [can EXCEPT ![c] = "failed"]
            /\ Leave({c})
            /\ UNCHANGED log
       ELSE /\ log' = LogWith(nextSeq, "cancelled")
            /\ io' = [io EXCEPT ![c] = "inserted"]
            /\ UNCHANGED <<can, ahead>>
    /\ UNCHANGED <<row, report, secRow, hubUp, cancelled, approval, approved, pc, plan, sec,
                   subVars, seqOf, submVars, restarts>>

\* Mutant: the task is torn down before the event is fanned out.
LastWords_StopFirst(c, alive) == IF alive THEN <<Stop, Written(c)>> ELSE <<Written(c)>>

\* The event first, then the sentinel of the task that is torn down, if any.
LastWords(c, alive) == IF alive THEN <<Written(c), Stop>> ELSE <<Written(c)>>

\* Fan out, release the lock, cancel the future and the task: one step, as
\* none of these awaits.
CancelFansOut(c) ==
    LET alive == pc \notin {"off", "finished", "dropped"} IN
    /\ io[c] = "projected"
    /\ can' = [can EXCEPT ![c] = "done"]
    /\ approval' = IF approval = "pending" THEN "cancelled" ELSE approval
    /\ queue' = PushTo(LastWords(c, alive))
    /\ IF alive
       THEN /\ pc' = "finished"
            /\ sec' = [s \in Sections |-> "off"]
            /\ Leave(Tasks \cup {c})
       ELSE Leave({c}) /\ UNCHANGED <<pc, sec>>
    /\ UNCHANGED <<dbVars, hubUp, cancelled, approved, nextSeq, plan, sub, got, seqOf,
                   submVars, restarts>>

\* The same event without a hub: no lock, the counted seq, nobody to tell.
CancelAppendsUnlocked(c) ==
    /\ can[c] = "unlocked"
    /\ IF Taken(seqOf[c])
       THEN can' = [can EXCEPT ![c] = "failed"] /\ UNCHANGED log
       ELSE /\ log' = LogWith(seqOf[c], "cancelled")
            /\ can' = [can EXCEPT ![c] = "unlocked_inserted"]
    /\ UNCHANGED <<row, report, secRow, hubVars, taskVars, subVars, seqOf, submVars, restarts>>

CancelProjectsUnlocked(c) ==
    /\ can[c] = "unlocked_inserted"
    /\ row' = RowAfter("cancelled")
    /\ can' = [can EXCEPT ![c] = "unlocked_done"]
    /\ UNCHANGED <<report, secRow, log, hubVars, taskVars, subVars, seqOf, submVars, restarts>>

-----------------------------------------------------------------------------
(* submit_plan() *)

\* Edited sections replace the stored ones: the delete is sent at once, the
\* upserts follow one await at a time.
SubmitEdits(m, edited) ==
    /\ subm[m] = "idle" /\ hubUp /\ approval = "pending" /\ ~cancelled
    /\ edited # {}
    /\ subm' = [subm EXCEPT ![m] = "writing"]
    /\ choice' = [choice EXCEPT ![m] = edited]
    /\ left' = [left EXCEPT ![m] = edited]
    /\ secRow' = [s \in Sections |-> "absent"]
    /\ UNCHANGED <<row, report, log, hubVars, taskVars, subVars, canVars, restarts>>

SubmitUpserts(m, s) ==
    /\ subm[m] = "writing" /\ s \in left[m]
    /\ secRow' = [secRow EXCEPT ![s] = "pending"]
    /\ left' = [left EXCEPT ![m] = @ \ {s}]
    /\ UNCHANGED <<row, report, log, hubVars, taskVars, subVars, canVars, subm, choice, restarts>>

\* No sections in the body: approve the stored ones.
SubmitKeeps(m) ==
    /\ subm[m] = "idle" /\ hubUp /\ approval = "pending" /\ ~cancelled
    /\ subm' = [subm EXCEPT ![m] = "writing"]
    /\ choice' = [choice EXCEPT ![m] = {s \in Sections : secRow[s] # "absent"}]
    /\ UNCHANGED <<dbVars, hubVars, taskVars, subVars, canVars, left, restarts>>

SubmitRefused(m) ==
    /\ subm[m] = "idle" /\ ~(hubUp /\ approval = "pending" /\ ~cancelled)
    /\ subm' = [subm EXCEPT ![m] = "refused"]
    /\ UNCHANGED <<dbVars, hubVars, taskVars, subVars, canVars, choice, left, restarts>>

\* set_result on the future the hub has now; on one that is done it raises.
SubmitResolves(m) ==
    /\ subm[m] = "writing" /\ left[m] = {}
    /\ IF approval = "pending"
       THEN /\ approval' = "resolved" /\ approved' = choice[m]
            /\ subm' = [subm EXCEPT ![m] = "accepted"]
       ELSE /\ subm' = [subm EXCEPT ![m] = "failed"]
            /\ UNCHANGED <<approval, approved>>
    /\ UNCHANGED <<dbVars, hubUp, cancelled, nextSeq, taskVars, subVars, canVars, choice, left,
                   restarts>>

-----------------------------------------------------------------------------
(* ensure_started() and subscribe() *)

\* Mutant: hub.finished is not looked at.
FirstItems_Empty == << >>

\* A subscriber of a run that already finished is stopped at once.
FirstItems == IF pc = "finished" THEN <<Stop>> ELSE << >>

\* hub.subscribers.add(queue)
Attach(u) ==
    /\ sub' = [sub EXCEPT ![u] = "attached"]
    /\ queue' = [queue EXCEPT ![u] = FirstItems]

\* A stream request, the client's first or another after one that ended: take
\* RunService._lock and look the hub up.
Connects(u) ==
    /\ sub[u] \notin Starting \cup Registered /\ StartLockFree
    /\ got' = [got EXCEPT ![u] = << >>]
    /\ IF hubUp /\ pc # "off"
       THEN Attach(u)
       ELSE /\ sub' = [sub EXCEPT ![u] = IF hubUp THEN "resolve" ELSE "register"]
            /\ UNCHANGED queue
    /\ UNCHANGED <<dbVars, hubVars, taskVars, canVars, submVars, restarts>>

\* The row exists: publish a new hub.
RegistersHub(u) ==
    /\ sub[u] = "register"
    /\ sub' = [sub EXCEPT ![u] = "resolve"]
    /\ hubUp' = TRUE /\ cancelled' = FALSE /\ nextSeq' = 0
    /\ approval' = "none" /\ approved' = {}
    /\ UNCHANGED <<dbVars, taskVars, queue, got, canVars, submVars, restarts>>

\* _resolve_run returned: create the approval future the run will wait for.
ResolvesRun(u) ==
    /\ sub[u] = "resolve"
    /\ sub' = [sub EXCEPT ![u] = "start"]
    /\ approval' = IF RequirePlanApproval THEN "pending" ELSE approval
    /\ UNCHANGED <<dbVars, hubUp, cancelled, approved, nextSeq, taskVars, queue, got, canVars,
                   submVars, restarts>>

\* Keys resolved, providers built: create the task, return, attach.  A cancel
\* whose last write has returned may be due in the same turn of the event loop,
\* before the task's first step.  The coroutine of a task cancelled then never
\* runs, nor does its `finally`: `finished` is not set, no sentinel is sent.
StartsTask(u) ==
    /\ sub[u] = "start"
    /\ pc' \in {"planning"} \cup (IF \E c \in Cancels : io[c] = "projected"
                                 THEN {"dropped"} ELSE {})
    /\ Attach(u)
    /\ UNCHANGED <<dbVars, hubVars, plan, sec, io, ahead, got, canVars, submVars, restarts>>

\* _build_get_key or a provider factory raises: the hub stays, without a task.
StartFails(u) ==
    /\ sub[u] = "start"
    /\ sub' = [sub EXCEPT ![u] = "failed"]
    /\ UNCHANGED <<dbVars, hubVars, taskVars, queue, got, canVars, submVars, restarts>>

\* Mutant: the last row fetched is not sent.
Replay_Short ==
    LET shown == {n \in DOMAIN log : \A k \in DOMAIN log : k < n => log[k] \notin StreamEnds}
    IN  [i \in 1 .. Cardinality(shown) - 1 |-> [seq |-> i - 1, type |-> log[i - 1]]]

\* What list_by_run returns, up to the first event that ends a stream.  The
\* seqs of a log are 0 .. n-1 (LogContiguous).
Replay ==
    LET shown == {n \in DOMAIN log : \A k \in DOMAIN log : k < n => log[k] \notin StreamEnds}
    IN  [i \in 1 .. Cardinality(shown) |-> [seq |-> i - 1, type |-> log[i - 1]]]

Replays(u) ==
    /\ sub[u] = "attached"
    /\ got' = [got EXCEPT ![u] = Replay]
    /\ IF \E n \in DOMAIN log : log[n] \in StreamEnds
       THEN /\ sub' = [sub EXCEPT ![u] = "closed"]
            /\ queue' = [queue EXCEPT ![u] = << >>]
       ELSE /\ sub' = [sub EXCEPT ![u] = "live"]
            /\ UNCHANGED queue
    /\ UNCHANGED <<dbVars, hubVars, taskVars, canVars, submVars, restarts>>

\* Mutant: off by one.
Unseen_OrEqual(u, item) == got[u] = << >> \/ got[u][Len(got[u])].seq <= item.seq

\* `if item.seq <= seen: continue`
Unseen(u, item) == got[u] = << >> \/ got[u][Len(got[u])].seq < item.seq

\* One turn of the live loop.
Delivers(u) ==
    LET item == Head(queue[u])
        ends == item = Stop \/ (Unseen(u, item) /\ item.type \in StreamEnds)
    IN  /\ sub[u] = "live" /\ queue[u] # << >>
        /\ got' = IF item # Stop /\ Unseen(u, item)
                  THEN [got EXCEPT ![u] = Append(@, item)] ELSE got
        /\ sub' = IF ends THEN [sub EXCEPT ![u] = "closed"] ELSE sub
        /\ queue' = [queue EXCEPT ![u] = IF ends THEN << >> ELSE Tail(@)]
        /\ UNCHANGED <<dbVars, hubVars, taskVars, canVars, submVars, restarts>>

\* The client goes away: the generator is closed, or ensure_started cancelled.
Disconnects(u) ==
    /\ sub[u] \in Starting \cup Registered
    /\ sub' = [sub EXCEPT ![u] = "left"]
    /\ queue' = [queue EXCEPT ![u] = << >>]
    /\ UNCHANGED <<dbVars, hubVars, taskVars, got, canVars, submVars, restarts>>

-----------------------------------------------------------------------------
\* The process stops, by a crash or by aclose(), and another one starts: what
\* is not in SQLite is gone and every request in flight with it.
Restarts ==
    /\ restarts < MaxRestarts
    /\ restarts' = restarts + 1
    /\ hubUp' = FALSE /\ cancelled' = FALSE /\ nextSeq' = 0
    /\ approval' = "none" /\ approved' = {}
    /\ pc' = "off" /\ plan' = Sections
    /\ sec' = [s \in Sections |-> "off"]
    /\ Leave(Writers)
    /\ sub' = [u \in Subscribers |-> "idle"]
    /\ queue' = [u \in Subscribers |-> << >>]
    /\ got' = [u \in Subscribers |-> << >>]
    /\ can' = [c \in Cancels |-> IF can[c] \in {"read", "locked", "unlocked", "unlocked_inserted"}
                                 THEN "lost" ELSE can[c]]
    /\ subm' = [m \in Submits |-> IF subm[m] = "writing" THEN "lost" ELSE subm[m]]
    /\ left' = [w \in Submits \cup {Engine} |-> {}]
    /\ UNCHANGED <<dbVars, seqOf, choice>>

EngineStep ==
    \/ Approved
    \/ Researched
    \/ \E s \in Sections : SectionBegins(s) \/ UpsertPlanned(s)
    \/ \E p \in Tasks : Waits(p) \/ SinkDrops(p) \/ Appends(p) \/ AppendFails(p) \/ FansOut(p)
    \/ \E p \in Writers : Projects(p)

Failure == EngineFails \/ \E s \in Sections : SectionFails(s)

CancelStep(c) ==
    \/ CancelMarks(c) \/ CancelAppends(c) \/ CancelFansOut(c)
    \/ CancelAppendsUnlocked(c) \/ CancelProjectsUnlocked(c)

SubmitStep(m) == SubmitResolves(m) \/ \E s \in Sections : SubmitUpserts(m, s)

SubscriberStep(u) ==
    \/ RegistersHub(u) \/ ResolvesRun(u) \/ StartsTask(u) \/ Replays(u) \/ Delivers(u)

Next ==
    \/ EngineStep \/ Failure \/ TimesOut \/ Restarts
    \/ \E c \in Cancels : CancelReads(c) \/ CancelStep(c)
    \/ \E m \in Submits : \/ SubmitStep(m) \/ SubmitKeeps(m) \/ SubmitRefused(m)
                          \/ \E edited \in SUBSET Sections : SubmitEdits(m, edited)
    \/ \E u \in Subscribers : \/ Connects(u) \/ SubscriberStep(u)
                              \/ StartFails(u) \/ Disconnects(u)

Spec == Init /\ [][Next]_vars

\* asyncio keeps running every task that can run; the wallclock timer of the
\* run fires; a connected client keeps reading.  Nobody is obliged to connect,
\* to cancel, to approve, to fail or to leave.
Fairness ==
    /\ WF_vars(EngineStep) /\ WF_vars(TimesOut)
    /\ \A c \in Cancels : WF_vars(CancelStep(c))
    /\ \A m \in Submits : WF_vars(SubmitStep(m))
    /\ \A u \in Subscribers : WF_vars(SubscriberStep(u))

FairSpec == Spec /\ Fairness

-----------------------------------------------------------------------------
(* Type invariant *)

StoreTypeOK ==
    /\ row \in Statuses /\ report \in BOOLEAN
    /\ secRow \in [Sections -> {"absent", "pending", "researching", "done"}]
    /\ DOMAIN log \subseteq Nat /\ \A n \in DOMAIN log : log[n] \in EventTypes
    /\ restarts \in Nat

HubTypeOK ==
    /\ hubUp \in BOOLEAN /\ cancelled \in BOOLEAN /\ nextSeq \in Nat
    /\ approval \in {"none", "pending", "resolved", "cancelled"}
    /\ approved \in SUBSET Sections

TaskTypeOK ==
    /\ pc \in EmitPcs \cup {"off", "wait", "research", "finished", "dropped"}
    /\ plan \in SUBSET Sections
    /\ sec \in [Sections -> SectionEvents \cup {"off", "ready", "done"}]
    /\ io \in [Writers -> {"idle", "waiting", "inserted", "projected"}]
    /\ ahead \in [Writers -> SUBSET Writers]

SubscriberTypeOK ==
    /\ sub \in [Subscribers -> Starting \cup Registered
                              \cup {"idle", "closed", "left", "failed"}]
    /\ queue \in [Subscribers -> Seq(Items)]
    /\ got \in [Subscribers -> Seq(Items)]

RequestTypeOK ==
    /\ can \in [Cancels -> {"idle", "read", "refused", "locked", "unlocked",
                            "unlocked_inserted", "unlocked_done", "done", "failed", "lost"}]
    /\ seqOf \in [Cancels -> Nat]
    /\ subm \in [Submits -> {"idle", "writing", "accepted", "refused", "failed", "lost"}]
    /\ choice \in [Submits -> SUBSET Sections]
    /\ left \in [Submits \cup {Engine} -> SUBSET Sections]

TypeOK == StoreTypeOK /\ HubTypeOK /\ TaskTypeOK /\ SubscriberTypeOK /\ RequestTypeOK

-----------------------------------------------------------------------------
(* Safety *)

\* The events of a run are numbered 0, 1, 2, ... without a hole, and the hub
\* never numbers past them, whoever writes: the sink, a cancel with or
\* without the hub, the timeout, or the engine of a restarted process.
LogContiguous ==
    /\ \A n \in DOMAIN log : \A k \in 0 .. n : k \in DOMAIN log
    /\ \A k \in 0 .. nextSeq : k < nextSeq => k \in DOMAIN log

\* One writer at a time is between its insert and its fan-out, so that
\* next_seq - 1 is the seq of the event it fans out.
OneWriter ==
    \A p, q \in Writers :
        {io[p], io[q]} \subseteq {"inserted", "projected"} => p = q

\* What is queued for or was sent to a subscriber is in the log, under the
\* same seq and type: an event is persisted before it is fanned out.
SentWasPersisted ==
    \A u \in Subscribers :
        /\ \A i \in DOMAIN got[u] :
               got[u][i].seq \in DOMAIN log /\ log[got[u][i].seq] = got[u][i].type
        /\ \A i \in DOMAIN queue[u] :
               \/ queue[u][i] = Stop
               \/ queue[u][i].seq \in DOMAIN log /\ log[queue[u][i].seq] = queue[u][i].type

\* Nobody is sent an event twice or out of order, whatever the replay and the
\* live queue have in common.
SentInOrder ==
    \A u \in Subscribers : \A i, j \in DOMAIN got[u] : i < j => got[u][i].seq < got[u][j].seq

\* A stream that ends with `done` carried every event of the run before it.
DoneStreamComplete ==
    \A u \in Subscribers : \A i \in DOMAIN got[u] :
        got[u][i].type = "done" => got[u][i].seq = i - 1

\* Some cancel took the path for a run without a hub.
UnlockedCancel == \E c \in Cancels : can[c] \in {"unlocked", "unlocked_inserted",
                                                 "unlocked_done", "failed", "lost"}

\* A stream the server closes told its reader how the run ended: the
\* cancelled event in particular gets out before the sentinel.
ClosedStreamHasVerdict ==
    restarts = 0 /\ ~UnlockedCancel =>
        \A u \in Subscribers : sub[u] = "closed" =>
            \E i \in DOMAIN got[u] : got[u][i].type \in Terminal

\* Once the log holds an outcome, only outcomes follow: no progress event is
\* written after done, error or cancelled, not even by an engine that was
\* still running or was started again.
OnlyVerdictsAfterVerdict ==
    \A i, j \in DOMAIN log : i < j /\ log[i] \in Terminal => log[j] \in Terminal

\* With nobody writing, and unless a timeout has yet to write its error,
\* runs.status is what the last status event says.
RowMatchesLog ==
    restarts = 0 /\ ~UnlockedCancel /\ (\A p \in Writers : io[p] = "idle") /\ pc # "timeout" =>
        LET marks == {n \in DOMAIN log : log[n] \in StatusEvents}
        IN  IF marks = {} THEN row = "queued"
            ELSE \E n \in marks : row = log[n] /\ \A k \in marks : k <= n

\* A run whose status is `done` has its report, and, unless two submit_plan
\* requests overlapped, a finished row for every section it researched.
DoneIsComplete ==
    /\ row = "done" => report
    /\ row = "done" /\ restarts = 0
          /\ (\A m, k \in Submits : {subm[m], subm[k]} \cap {"idle", "refused"} = {} => m = k)
       => \A s \in plan : secRow[s] = "done"

\* A run that asks for approval researches no section before somebody gave it,
\* and then the sections of a submission that was accepted, however many
\* submissions overlapped.
ApprovedIsResearched ==
    RequirePlanApproval /\ restarts = 0 /\ (\E s \in Sections : sec[s] # "off") =>
        \E m \in Submits : subm[m] = "accepted" /\ (choice[m] # {} => plan = choice[m])

\* Action property: a run whose status is an outcome never goes back to work.
RowNeverReopens == [][(row \in Terminal) => (row' \in Terminal)]_vars

\* What RunService promises its readers.
Stream == INSTANCE EventStream WITH
    Readers <- Subscribers, Types <- EventTypes, Marks <- StatusEvents, Outcomes <- Terminal

\* RunService implements EventStream, whatever fails, races or restarts.
ImplementsEventStream == Stream!StreamSpec

-----------------------------------------------------------------------------
(* Liveness, of FairSpec without restarts *)

\* A started run gets an outcome, even when nobody approves its plan.
RunSettles == (pc \notin {"off", "finished"}) ~> (row \in Terminal)

\* A stream comes to an end.  The one that does not is that of a run whose task
\* was cancelled before its first step, and its reader was told of the cancel.
ToldOfDrop(u) == pc = "dropped" /\ \E i \in DOMAIN got[u] : got[u][i].type = "cancelled"
StreamsClose ==
    \A u \in Subscribers :
        (sub[u] \in Registered) ~> (sub[u] \in {"closed", "left"} \/ ToldOfDrop(u))

\* A cancel that found a live run makes its status an outcome, or is told it
\* failed.
CancelSettles ==
    \A c \in Cancels : (can[c] = "read") ~> (row \in Terminal \/ can[c] = "failed")

=============================================================================

----------------------------- MODULE StreamClient -----------------------------
(***************************************************************************)
(* The page of one run in a browser: frontend/lib/useResearchStream.ts and *)
(* the components that act on what it holds (run-view, run-header,         *)
(* plan-review-card), against a server that stores events, replays and     *)
(* streams them.                                                           *)
(*                                                                         *)
(* A step of the page is one callback: JavaScript runs it to its next      *)
(* await.  Storing an event and its projection are one step here; what     *)
(* happens between the two is RunService's subject.                        *)
(***************************************************************************)
EXTENDS Naturals, Sequences, FiniteSets

CONSTANTS
    Sections,    \* every section a plan of this run may have
    Drafted,     \* those of the plan the LLM drafts
    RequirePlanApproval,
    Work,        \* the events a section emits between its start and its end
    Chunks,      \* how many report_delta events the report is streamed in
    MaxLosses    \* bound on lost or refused connections

ASSUME ClientAssumption ==
    /\ IsFiniteSet(Sections) /\ Drafted \subseteq Sections /\ Drafted # {}
    /\ RequirePlanApproval \in BOOLEAN
    /\ Chunks \in Nat /\ MaxLosses \in Nat
    /\ Work \in Seq({"search", "source", "claim", "verification"})

VARIABLES
    \* the server
    log,         \* the events of the run, by seq
    row,         \* runs.status
    approved,    \* the sections the plan was approved with, {} before that
    \* refs of the hook
    seen,        \* seenSeqs
    buffer,      \* reportBuffer: chunks not yet in the state
    timer,       \* flushTimer is set
    \* state of the hook
    view,        \* StreamState
    conn,        \* ConnectionStatus
    \* the effect
    phase,       \* what it awaits
    again,       \* the second getRun is being tried
    detail,      \* how much of the log the answer to getRun reflects
    pos,         \* how much of the log this connection has delivered
    \* requests and components
    cancelling,  \* POST /cancel
    approving,   \* POST /plan
    draft,       \* the sections that the plan card would submit
    sent,        \* the sections it did submit
    losses

serverVars == <<log, row, approved>>
refVars    == <<seen, buffer, timer>>
effectVars == <<phase, again, detail, pos>>
postVars   == <<cancelling, approving, sent>>
vars == <<serverVars, refVars, view, conn, effectVars, postVars, draft, losses>>

-----------------------------------------------------------------------------
(* Events and what a run's row says after them *)

Terminal == {"done", "error", "cancelled"}
Stages   == {"queued", "planning", "awaiting_plan", "researching", "writing"} \cup Terminal

SectionTypes == {"section_start", "search", "source", "claim", "verification", "section_done"}
Event == [type : {"status"}, of : Stages]
         \cup [type : SectionTypes, of : Sections]
         \cup [type : {"report_delta"}, of : 1..Chunks]
         \cup [type : {"plan", "awaiting_plan", "report", "done", "error"}, of : {0}]

Plain(type) == [type |-> type, of |-> 0]
Status(stage) == [type |-> "status", of |-> stage]

\* The status that the projection of an event gives the run, if any.
StageOf(e) == IF e.type = "status" THEN e.of ELSE e.type
Marks(e)   == e.type \in {"status", "awaiting_plan", "done", "error"}

\* The status that was projected from the first n events.
RowAt(n) ==
    LET marks == {i \in 1..n : Marks(log[i])}
    IN  IF marks = {} THEN "queued"
        ELSE StageOf(log[CHOOSE i \in marks : \A j \in marks : j <= i])

Has(n, e)    == \E i \in 1..n : log[i] = e
HasType(n, type) == \E i \in 1..n : log[i].type = type
Stored(e)    == Has(Len(log), e)

-----------------------------------------------------------------------------
(* The state of the hook *)

Absent == [status |-> "absent", searches |-> 0, sources |-> << >>]
Empty  == [status |-> "pending", searches |-> 0, sources |-> << >>]

\* The text of a report event; a chunk is its number.
Markdown == <<0>>

Initial ==
    [status   |-> "queued", awaiting |-> FALSE, planned |-> FALSE,
     sections |-> [s \in Sections |-> Absent],
     claims   |-> [s \in Sections |-> "none"],
     report   |-> << >>, final |-> FALSE, failed |-> FALSE]

Upsert(v, s) == IF v.sections[s] = Absent THEN Empty ELSE v.sections[s]

InSequence(x, q) == \E i \in DOMAIN q : q[i] = x

\* Mutant: a source is appended however often it comes.
AddSource_Again(q, s) == Append(q, s)

\* A source is listed once, by its id; here each section has one.
AddSource(q, s) == IF InSequence(s, q) THEN q ELSE Append(q, s)

ReduceSection(v, e) ==
    LET s == e.of  old == Upsert(v, s)
    IN  [v EXCEPT !.sections[s] =
            CASE e.type = "section_start" -> [old EXCEPT !.status = "active"]
              [] e.type = "search" ->
                    [old EXCEPT !.status = IF @ = "done" THEN @ ELSE "active",
                                !.searches = @ + 1]
              [] e.type = "source" -> [old EXCEPT !.sources = AddSource(@, s)]
              [] e.type = "section_done" -> [old EXCEPT !.status = "done"]]

\* A claim is kept once, by its id; a verification goes to the claim it is about.
ReduceClaim(v, e) ==
    [v EXCEPT !.claims[e.of] =
        CASE e.type = "claim" -> IF @ = "none" THEN "open" ELSE @
          [] e.type = "verification" -> IF @ = "none" THEN @ ELSE "verified"]

\* reduceEvent, but for report_delta, which the page buffers.
Reduce(v, e) ==
    CASE e.type = "status" ->
            [v EXCEPT !.status = e.of, !.awaiting = (e.of = "awaiting_plan")]
      [] e.type = "plan" ->
            [v EXCEPT !.planned = TRUE, !.sections = [s \in Sections |-> IF s \in Drafted THEN Upsert(v, s)
                                                            ELSE v.sections[s]]]
      [] e.type = "awaiting_plan" -> [v EXCEPT !.awaiting = TRUE, !.status = "awaiting_plan"]
      [] e.type \in {"section_start", "search", "source", "section_done"} -> ReduceSection(v, e)
      [] e.type \in {"claim", "verification"} -> ReduceClaim(v, e)
      [] e.type = "report" -> [v EXCEPT !.report = Markdown, !.final = TRUE]
      [] e.type = "error" -> [v EXCEPT !.failed = TRUE, !.status = "error"]
      [] e.type = "done" -> [v EXCEPT !.status = "done", !.awaiting = FALSE, !.final = TRUE]

-----------------------------------------------------------------------------
(* What getRun answers after the first n events *)

SourcesAt(n, s) == IF Has(n, [type |-> "source", of |-> s]) THEN <<s>> ELSE << >>

\* The sections as hydrate rebuilds them: shells of the plan with their sources.
HydratedSections(n) ==
    [s \in Sections |->
        IF s \in Drafted
        THEN [Empty EXCEPT !.sources = SourcesAt(n, s),
                              !.status = IF RowAt(n) = "done" THEN "done" ELSE "pending"]
        ELSE Absent]

\* Mutant: the report is taken for final as soon as it is there.
Hydrated_Final(v, n) ==
    [v EXCEPT !.status   = RowAt(n),
              !.awaiting = (RowAt(n) = "awaiting_plan"),
              !.planned  = @ \/ HasType(n, "plan"),
              !.sections = IF HasType(n, "plan") THEN HydratedSections(n) ELSE @,
              !.report   = IF HasType(n, "report") THEN Markdown ELSE @,
              !.final    = @ \/ HasType(n, "report")]

\* The payload of hydrate, merged into the state.
Hydrated(v, n) ==
    [v EXCEPT !.status   = RowAt(n),
              !.awaiting = (RowAt(n) = "awaiting_plan"),
              !.planned  = @ \/ HasType(n, "plan"),
              !.sections = IF HasType(n, "plan") THEN HydratedSections(n) ELSE @,
              !.report   = IF HasType(n, "report") THEN Markdown ELSE @,
              !.final    = IF HasType(n, "report") THEN RowAt(n) = "done" ELSE @]

\* A finished run with a report needs no stream; `cancelled` is not in the list.
Finished(n) == RowAt(n) \in {"done", "error"} /\ HasType(n, "report")

-----------------------------------------------------------------------------
(* What is on the page *)

HasReport(v) == v.report # << >>

\* MainContent: what fills the main column.
MainOf(v) ==
    IF v.status = "error" /\ v.failed THEN "problem"
    ELSE IF v.status = "cancelled" THEN "cancelled"
    ELSE IF v.awaiting THEN "plan"
    ELSE IF HasReport(v) THEN "report" ELSE "thinking"

\* The report is shown as being written; ReportView offers no download of it.
Streaming(v) == HasReport(v) /\ ~v.final /\ v.status \notin Terminal

DownloadOffered == MainOf(view) = "report" /\ ~Streaming(view)

\* RunHeader offers Cancel while the run is live or awaits its plan.
CancelOffered == view.status \notin Terminal

\* RunView offers to reconnect.
StreamDropped == conn = "error" /\ view.status \notin Terminal /\ ~view.awaiting

\* What the plan card's draft starts from whenever the card is mounted.
FreshDraft == Drafted

\* The state becomes v.  The plan card unmounts when a render finds that it is
\* not what the page shows, and loses its draft; several updates may be
\* rendered as one.
Shows(v) ==
    /\ view' = v
    /\ draft' \in IF MainOf(v) = "plan" THEN {draft} ELSE {draft, FreshDraft}

-----------------------------------------------------------------------------
(* The server *)

Init ==
    /\ log = << >> /\ row = "queued"
    /\ approved = IF RequirePlanApproval THEN {} ELSE Drafted
    /\ seen = {} /\ buffer = << >> /\ timer = FALSE
    /\ view = Initial /\ conn = "idle"
    /\ phase = "hydrate" /\ again = FALSE /\ detail = 0 /\ pos = 0
    /\ cancelling = "no" /\ approving = "no"
    /\ draft = FreshDraft /\ sent = Drafted
    /\ losses = 0

\* How many events of a section are stored.
Progress(s) == Cardinality({i \in DOMAIN log : log[i].type \in SectionTypes /\ log[i].of = s})
Course == <<"section_start">> \o Work \o <<"section_done">>
Researched == \A s \in approved : Progress(s) = Len(Course)

Written == Cardinality({i \in DOMAIN log : log[i].type = "report_delta"})

\* What the engine emits after the events there are.
Following ==
    IF log = << >> THEN {Status("planning")}
    ELSE LET last == log[Len(log)]
         IN CASE last = Status("planning") -> {Plain("plan")}
              [] last.type = "plan" /\ RequirePlanApproval -> {Plain("awaiting_plan")}
              [] \/ last.type = "plan" /\ ~RequirePlanApproval
                 \/ last.type = "awaiting_plan" /\ approved # {} -> {Status("researching")}
              [] last.type = "awaiting_plan" /\ approved = {} -> {}
              [] row = "researching" ->
                    {[type |-> Course[Progress(s) + 1], of |-> s] :
                        s \in {t \in approved : Progress(t) < Len(Course)}}
                    \cup IF Researched THEN {Status("writing")} ELSE {}
              [] row = "writing" ->
                    IF Written < Chunks THEN {[type |-> "report_delta", of |-> Written + 1]}
                    ELSE IF last.type = "report" THEN {Plain("done")} ELSE {Plain("report")}
              [] row \in Terminal -> {}

\* An event is stored, and its projection with it.
Stores(e) ==
    /\ log' = Append(log, e)
    /\ row' = IF Marks(e) THEN StageOf(e) ELSE row

ServerEmits ==
    /\ \E e \in Following : Stores(e)
    /\ UNCHANGED <<approved, refVars, view, conn, effectVars, postVars, draft, losses>>

\* An exception in the engine, or the wallclock timeout.
ServerFails ==
    /\ row \notin Terminal
    /\ Stores(Plain("error"))
    /\ UNCHANGED <<approved, refVars, view, conn, effectVars, postVars, draft, losses>>

AwaitsApproval == row = "awaiting_plan" /\ approved = {}

\* The same run in another tab: its plan is approved, or it is cancelled.
ApprovedElsewhere ==
    /\ AwaitsApproval
    /\ approved' = Drafted
    /\ UNCHANGED <<log, row, refVars, view, conn, effectVars, postVars, draft, losses>>

CancelledElsewhere ==
    /\ row \notin Terminal
    /\ Stores(Status("cancelled"))
    /\ UNCHANGED <<approved, refVars, view, conn, effectVars, postVars, draft, losses>>

\* POST /cancel: nothing happens to a run that has ended, but it is answered.
ServerCancels ==
    /\ cancelling = "posted"
    /\ IF row \in Terminal THEN UNCHANGED <<log, row>> ELSE Stores(Status("cancelled"))
    /\ cancelling' = "answered"
    /\ UNCHANGED <<approved, refVars, view, conn, effectVars, approving, sent, draft, losses>>

\* POST /plan: a list of no sections counts as approval of the stored plan.
ServerApproves ==
    /\ approving = "posted" /\ AwaitsApproval
    /\ approved' = IF sent = {} THEN Drafted ELSE sent
    /\ approving' = "answered"
    /\ UNCHANGED <<log, row, refVars, view, conn, effectVars, cancelling, sent, draft, losses>>

ServerRefuses ==
    /\ approving = "posted" /\ ~AwaitsApproval
    /\ approving' = "refused"
    /\ UNCHANGED <<serverVars, refVars, view, conn, effectVars, cancelling, sent, draft, losses>>

-----------------------------------------------------------------------------
(* The effect: hydrate, then stream *)

ServerAnswers ==
    /\ phase = "hydrate"
    /\ detail' = Len(log)
    /\ phase' = "answered"
    /\ UNCHANGED <<serverVars, refVars, view, conn, again, pos, postVars, draft, losses>>

HydrateEnds == IF Finished(detail) THEN "over" ELSE "open"

Hydrates ==
    /\ phase = "answered"
    /\ Shows(Hydrated(view, detail))
    /\ phase' = HydrateEnds
    /\ conn' = IF Finished(detail) THEN "closed" ELSE "connecting"
    /\ again' = FALSE /\ detail' = 0
    /\ UNCHANGED <<serverVars, refVars, pos, postVars, losses>>

\* getRun fails: once more after a delay, then stream without having hydrated.
HydrateFails ==
    /\ phase = "hydrate"
    /\ IF again THEN phase' = "open" /\ conn' = "connecting" /\ again' = FALSE
                ELSE again' = TRUE /\ UNCHANGED <<phase, conn>>
    /\ UNCHANGED <<serverVars, refVars, view, detail, pos, postVars, draft, losses>>

Opens ==
    /\ phase = "open"
    /\ phase' = "reading" /\ conn' = "open"
    /\ UNCHANGED <<serverVars, refVars, view, again, detail, pos, postVars, draft, losses>>

AlreadySeen(n) == n \in seen

Flushed == [view EXCEPT !.report = @ \o buffer]

Delivers == phase = "reading" /\ pos < Len(log) /\ pos' = pos + 1

\* handleEvent drops what was applied before.
SkipsEvent ==
    /\ Delivers /\ AlreadySeen(pos + 1)
    /\ UNCHANGED <<serverVars, refVars, view, conn, phase, again, detail, postVars, draft, losses>>

BuffersChunk ==
    /\ Delivers /\ ~AlreadySeen(pos + 1)
    /\ log[pos + 1].type = "report_delta"
    /\ seen' = seen \cup {pos + 1}
    /\ buffer' = Append(buffer, log[pos + 1].of)
    /\ timer' = TRUE
    /\ UNCHANGED <<serverVars, view, conn, phase, again, detail, postVars, draft, losses>>

\* Mutant: the events that replace or end the report do not flush what precedes them.
FlushesFirst_Never(e) == FALSE

FlushesFirst(e) == e.type \in {"report", "done"}

AppliesEvent ==
    /\ Delivers /\ ~AlreadySeen(pos + 1)
    /\ LET e == log[pos + 1]
       IN  /\ e.type # "report_delta"
           /\ seen' = seen \cup {pos + 1}
           /\ IF FlushesFirst(e)
              THEN Shows(Reduce(Flushed, e)) /\ buffer' = << >> /\ timer' = FALSE
              ELSE Shows(Reduce(view, e)) /\ UNCHANGED <<buffer, timer>>
    /\ UNCHANGED <<serverVars, conn, phase, again, detail, postVars, losses>>

FlushTimer ==
    /\ timer
    /\ timer' = FALSE /\ buffer' = << >>
    /\ Shows(Flushed)
    /\ UNCHANGED <<serverVars, seen, conn, effectVars, postVars, losses>>

\* The server ends the response after the event that ends the run.
StreamCloses ==
    /\ phase = "reading" /\ pos = Len(log) /\ row \in Terminal
    /\ phase' = "over" /\ conn' = "closed" /\ pos' = 0
    /\ timer' = FALSE /\ buffer' = << >>
    /\ Shows(Flushed)
    /\ UNCHANGED <<serverVars, seen, again, detail, postVars, losses>>

\* The connection breaks, or cannot be opened: no network, no session, no run.
ConnectionLost ==
    /\ phase \in {"open", "reading"} /\ losses < MaxLosses
    /\ losses' = losses + 1
    /\ phase' = "over" /\ conn' = "error" /\ pos' = 0
    /\ timer' = FALSE /\ buffer' = << >>
    /\ Shows(Flushed)
    /\ UNCHANGED <<serverVars, seen, again, detail, postVars>>

\* Mutant: the event after those that were seen is taken for seen.
KeptSeqs_OneMore == seen \cup {Cardinality(seen) + 1}

\* retry keeps seenSeqs.
KeptSeqs == seen

\* Reconnect: the effect is cleaned up and runs again from hydrate.
Retry ==
    /\ StreamDropped
    /\ seen' = KeptSeqs /\ buffer' = << >> /\ timer' = FALSE
    /\ phase' = "hydrate" /\ again' = FALSE /\ detail' = 0 /\ pos' = 0
    /\ UNCHANGED <<serverVars, view, conn, postVars, draft, losses>>

-----------------------------------------------------------------------------
(* What the user does *)

ClicksCancel ==
    /\ CancelOffered /\ cancelling = "no"
    /\ cancelling' = "posted"
    /\ UNCHANGED <<serverVars, refVars, view, conn, effectVars, approving, sent, draft, losses>>

\* Mutant: the page says cancelled before the server has answered.
CancelReturned_AtOnce == cancelling \in {"posted", "answered"}

CancelReturned == cancelling = "answered"

\* The page says cancelled by itself when the request returns.
CancelConfirmed ==
    /\ CancelReturned
    /\ cancelling' = "no"
    /\ Shows([view EXCEPT !.status = "cancelled", !.awaiting = FALSE])
    /\ UNCHANGED <<serverVars, refVars, conn, effectVars, approving, sent, losses>>

\* The request fails, before or after the server has handled it.
CancelFails ==
    /\ cancelling # "no"
    /\ cancelling' = "no"
    /\ UNCHANGED <<serverVars, refVars, view, conn, effectVars, approving, sent, draft, losses>>

CardShown == MainOf(view) = "plan"

\* Any edit of the draft, or a reset: what counts is which sections keep a title.
EditsPlan ==
    /\ CardShown
    /\ draft' \in SUBSET Sections \ {draft}
    /\ UNCHANGED <<serverVars, refVars, view, conn, effectVars, postVars, losses>>

ClicksApprove ==
    /\ CardShown /\ approving = "no"
    /\ approving' = "posted" /\ sent' = draft
    /\ UNCHANGED <<serverVars, refVars, view, conn, effectVars, cancelling, draft, losses>>

\* Mutant: the page leaves the card before the server has answered.
ApproveReturned_AtOnce == approving # "no"

ApproveReturned == approving = "answered"

ApproveConfirmed ==
    /\ ApproveReturned
    /\ approving' = "no" /\ sent' = Drafted
    /\ Shows([view EXCEPT !.awaiting = FALSE])
    /\ UNCHANGED <<serverVars, refVars, conn, effectVars, cancelling, losses>>

\* The server refused, or the request failed on the way there or back.
ApproveFails ==
    /\ approving # "no"
    /\ approving' = "no" /\ sent' = Drafted
    /\ UNCHANGED <<serverVars, refVars, view, conn, effectVars, cancelling, draft, losses>>

-----------------------------------------------------------------------------

ServerNext == ServerEmits \/ ServerFails \/ ApprovedElsewhere \/ CancelledElsewhere
              \/ ServerCancels \/ ServerApproves \/ ServerRefuses

Next ==
    \/ ServerNext
    \/ ServerAnswers \/ Hydrates \/ HydrateFails \/ Opens
    \/ SkipsEvent \/ BuffersChunk \/ AppliesEvent \/ FlushTimer
    \/ StreamCloses \/ ConnectionLost \/ Retry
    \/ ClicksCancel \/ CancelConfirmed \/ CancelFails
    \/ EditsPlan \/ ClicksApprove \/ ApproveConfirmed \/ ApproveFails

Spec == Init /\ [][Next]_vars

-----------------------------------------------------------------------------
(* Properties *)

SectionState ==
    [status : {"absent", "pending", "active", "done"}, searches : Nat, sources : Seq(Sections)]

ViewType ==
    [status : Stages, awaiting : BOOLEAN, planned : BOOLEAN,
     sections : [Sections -> SectionState],
     claims : [Sections -> {"none", "open", "verified"}],
     report : Seq(0..Chunks), final : BOOLEAN, failed : BOOLEAN]

\* Types of the variables.
TypeOK ==
    /\ log \in Seq(Event) /\ row \in Stages /\ approved \subseteq Sections
    /\ seen \subseteq 1..Len(log)
    /\ buffer \in Seq(1..Chunks) /\ timer \in BOOLEAN
    /\ view \in ViewType
    /\ conn \in {"idle", "connecting", "open", "closed", "error"}
    /\ phase \in {"hydrate", "answered", "open", "reading", "over"} /\ again \in BOOLEAN
    /\ detail \in 0..Len(log) /\ pos \in 0..Len(log)
    /\ cancelling \in {"no", "posted", "answered"}
    /\ approving \in {"no", "posted", "answered", "refused"}
    /\ draft \subseteq Sections /\ sent \subseteq Sections
    /\ losses \in 0..MaxLosses

\* The events of log the page has taken in, in order.
SeenChunks == Cardinality({n \in seen : log[n].type = "report_delta"})
SeenReport == \E n \in seen : log[n].type = "report"

\* The chunks that were received after the first k.
ReceivedSince(k) == [i \in 1..(SeenChunks - k) |-> k + i]

\* The text on the page and in the buffer is the final text once the report
\* event was received.  Before that it is what was received, each chunk once and
\* in order, whatever was lost, flushed, dropped or replayed; or, on a page that
\* getRun gave a stored report, that report with the chunks received since
\* behind it, as the replay appends what the report already holds.
ReportIsWhatWasSeen ==
    LET text == view.report \o buffer
    IN  IF SeenReport THEN text = Markdown
        ELSE \/ text = ReceivedSince(0)
             \/ /\ HasType(Len(log), "report")
                /\ \E k \in 0..SeenChunks : text = Markdown \o ReceivedSince(k)

\* The state that a page open since the first event would hold.
Replayed ==
    LET after[n \in 0..Len(log)] ==
            IF n = 0 THEN Initial
            ELSE IF log[n].type = "report_delta"
                 THEN [after[n - 1] EXCEPT !.report = Append(@, log[n].of)]
                 ELSE Reduce(after[n - 1], log[n])
    IN  after[Len(log)]

CaughtUp == phase = "reading" /\ pos = Len(log)

\* A page that was opened late, or lost its connection and came back, and has
\* been sent everything holds the status, report, claims and sources that
\* a page open from the start would: hydrating and replaying agree.  What the
\* page does by itself when a request returns is the one exception.
CaughtUpAgrees ==
    CaughtUp =>
        /\ view.status \in {Replayed.status, "cancelled"}
        /\ view.awaiting => Replayed.awaiting
        /\ view.report \o buffer = Replayed.report
        /\ (view.final => Replayed.final) /\ view.failed = Replayed.failed
        /\ view.claims = Replayed.claims
        /\ \A s \in Drafted : view.sections[s] # Absent =>
               view.sections[s].sources = Replayed.sections[s].sources

\* What can be downloaded as the report is the whole report, also on a page that
\* was opened while it was written and first shows it, then replays its chunks.
\* (What a run that failed or was cancelled had written is offered as it is.)
DownloadsWholeReport ==
    (DownloadOffered /\ view.status # "error") => view.report = Markdown

\* A page says cancelled only of a run that has come to an end.
CancelledHasEnded == view.status = "cancelled" => row \in Terminal

\* Edits of the plan are lost only when the run has moved on, when the user
\* approved or cancelled, or while the events before awaiting_plan are replayed.
DraftOutlivesCard ==
    [][(draft # Drafted /\ draft' = Drafted /\ ~EditsPlan) =>
          \/ row # "awaiting_plan" \/ approved # {}
          \/ view.status = "cancelled"
          \/ ~\E n \in 1..pos : log[n].type = "awaiting_plan"]_vars

=============================================================================

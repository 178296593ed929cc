# Verification of the research application

This directory holds TLA+ models of the server under `src/backend` (FastAPI,
asyncio, SQLite) and of the browser application under `src/frontend` (React),
the TLC configurations that check them on small instances, and TLAPS proofs of
their main invariants for every instance. All source paths below are relative
to `src/`.

## 1. The system

A user creates a *run*: a query that the server plans, researches section by
section with an LLM and search providers, and writes up as a report. Nothing
happens until a client opens the run's event stream (SSE); that request starts
the run's background task, and every later event is first stored in SQLite and
then pushed to the connected clients.

| Component | State it keeps | Operations | Correct when |
|---|---|---|---|
| Run service `backend/app/services/run_service.py` | `_hubs`: per live run the task, subscriber queues, `finished`, approval future, `cancelled`, `write_lock`, `next_seq` | `ensure_started`, `subscribe`, `cancel`, `submit_plan`, the engine's sink, `_emit_out_of_band`, the wallclock timeout, `aclose` | one order of events for everybody, each stored before it is shown; a run has one outcome and its streams end |
| Event log and run rows `db/repositories.py`, `db/schema.sql` | `events(run_id, seq)`, `runs.status`, report, `sections`, sources, claims, ... | append (refused on a duplicate seq), projections per event type, replay in seq order | rows agree with the log |
| Research engine `core/engine.py`, `core/events.py` | its position; one child task per section | plan, wait for approval, research under a semaphore, write, report | sections are all done before the report; a failing section stops its siblings |
| Section research `core/researcher.py`, `core/sources.py` | shared source registry, queries seen | search, fetch, extract claims, verify, reflect | a source has one number; every citation resolves |
| Claims `core/claims.py`, `verifier.py`, `contradictions.py` | none (pure apart from LLM calls) | extract, verify, pair up | only quoted and verified claims are cited |
| Synthesis `core/synthesizer.py` | none | compose report, comparison table, trust summary | numbers and citations match the claims |
| Planner `core/planner.py` | none | draft, repair, cap sections | section ids are distinct |
| Accounts and sessions `services/auth_service.py`, `api/auth.py` | users, hashed refresh tokens, the cookie | register, log in, rotate, log out, link Google account | a replayed token ends every session of the user, and nothing else does |
| Administration `api/admin.py`, `api/setup.py` | users | change role, disable, first-run setup | one setup; one active superadmin remains |
| Vault `services/vault_service.py` | encrypted credentials, the key in use and the one in the environment | add, revoke, resolve, rotate master key | every stored credential decrypts |
| Settings `services/config_service.py` | a settings table | read, update key by key | a model belongs to its provider |
| Demo, rate limiter, CLI | request times | seed and wipe; admit; run once | - |
| Run page `frontend/lib/useResearchStream.ts`, `components/run/*` | reducer state, seqs seen, report buffer, connection; the plan draft | hydrate, stream, retry, edit and approve the plan, cancel | the page agrees with the log, however it was opened and reconnected |
| SSE framing `frontend/lib/sse.ts`, `api/runs.py` | bytes under way, the decoder, the text buffer | send a frame or ping, read a chunk | each event is handled once, in order, as soon as it is there |
| Session in the browser `frontend/lib/auth.ts`, `api.ts`, `components/auth-provider.tsx` | access token, in-flight refresh, status | bootstrap, request, refresh once for all, log in and out | nobody waits for a refresh that nobody makes |
| Settings form, history, composer, administration panels `frontend/components`, `frontend/app` | what was loaded, what was edited, what is being saved | load, edit, save, load more, revoke, rotate | what is shown is what is stored, or was said to be |
| Redirects `auth-provider.tsx`, `route-guard.tsx`, `app/admin/page.tsx` | path, status, role | redirect, navigate, guard | no redirect loop and no endless spinner |

How they interact: routes in `api/runs.py` call the run service; the run
service creates the engine and gives it a *sink* (persist, then fan out) and an
*approval* function (await the hub's future). Subscribers are async generators
that the SSE response pulls. Everything in the server shares one event loop and
one SQLite connection; there are no threads of the program's own. In the browser
each page is a sequence of callbacks, with one access token per tab and one
refresh cookie for all tabs. Pages talk to the server by requests whose answers
may be late, out of order or lost.

What is hard: every `await` lets any other request run. `cancel` decides on a
status it read earlier; an event is inserted, projected and fanned out in
several awaits that a timeout, a failing sibling or a cancel may cut short;
`ensure_started` publishes a hub before the run has a task; a subscriber
registers, then replays, then goes live; a restart loses all hubs while the log
stays; administrators' handlers read, await and write; a rotation of the master
key rewrites rows one by one while others are added and looked up; a page that
comes back merges an answer to `getRun` with replayed events, timers and buttons. `PROJECT.json` lists each of these hazards at its line.

## 2. Modules

| Module | What it is |
|---|---|
| `RunService` | one run: hub, engine control, lock, log, rows, subscribers, cancels, submits, failures, timeout, restarts; its properties |
| `EventStream` | the abstract specification: a log that grows by one event, a status that the log accounts for, readers that are sent events of the log in order |
| `RunServiceClaims` | statements of the repository's docs, comments and tests that the code does not meet |
| `MCRunService` | symmetry for the TLC runs |
| `RunServiceProofs` | its first inductive invariant: lock, log and what is sent |
| `RunOutcomeProofs` | how runs end, and the refinement of `EventStream` |
| `RunReaderProofs` | what the reader of a stream has seen when it ends, and what the row says |
| `RunPlanProofs` | approval, plan and stored sections |
| `StreamClient` | the page of one run, with the server as it looks from there: a log, a row, an approval |
| `StreamClientClaims` | what the API contract says of reconnection and the page does not do |
| `StreamClientProofs` | the inductive invariant of page and log, and the theorems |
| `MCStreamClient` | the work of a section, as a definition a configuration can name |
| `Accounts` | first-run setup, sign-up, and updates of users from the users panel through the handler's awaits |
| `AccountsProofs` | its inductive invariant and theorems |
| `Sessions` | refresh tokens of one user, the cookie, and tabs that refresh, log in, log out and request |
| `SessionsProofs` | its inductive invariant and theorems |
| `MCAccounts` | `Accounts` and `Sessions` side by side |
| `Vault` | credentials, lookups, the rotate box and `rotate_master_key`, restarts |
| `Settings` | the settings table and the forms of several administrators |
| `History` | the list of runs, page by page, while runs are created |
| `CredentialList` | the credentials panel's list against its own and others' changes |
| `Frames` | SSE frames as bytes, chunks, decoder and splitter |
| `Routing` | path, status and redirects |
| `MCPages` | the last six of these side by side |
| `PagesProofs` | the inductive invariants and theorems of these six |

`RunService` and `StreamClient` meet in the log: `RunService` shows what a
subscriber is sent (`SentInOrder`, `DoneStreamComplete`), and `StreamClient`
takes a server that stores an event and its projection in one step and delivers
the log in order. `EventStream` is that promise as a specification of its own.
`Frames` is the wire between the two.

`MCAccounts` and `MCPages` compose modules that share no variable. A step of one
neither reads nor changes anything of another, so interleaving them would only
multiply states: a property of one module holds of the interleaving exactly if it
holds of the module alone. Therefore `part` picks one module at the start and
only that one moves.

### Correspondence with the code: `RunService`

A step of `RunService` is the code between two awaits. A statement sent to
SQLite takes effect when it is sent: aiosqlite executes statements in order on
one thread, and cancelling the caller that awaits one does not undo it. The
commit that follows an insert is part of it: if the process stops between the
two, the event is as if it had never been sent, and no reader has seen it.

* **Hub.** `hubUp` is the entry in `_hubs`; `cancelled`, `approval`, `nextSeq`
  are the hub's fields (`approval` is `none`, `pending`, `resolved` or
  `cancelled`). The task is `pc`: the event that `ResearchEngine.run` emits next,
  or `wait` (for approval), `research` (in the TaskGroup), `timeout` (`_run` is
  emitting the timeout's error), `finished`, `off` (no task) or `dropped` (a task
  that was cancelled before its first step, so that nothing of `_run` ran, its
  `finally` included). To await a future that a cancel has cancelled raises at
  once, so an engine that gets to its wait with such a future ends there.
* **Lock.** `write_lock` is an `asyncio.Lock`, fair and FIFO. Each writer (the
  engine, a section, a cancel) has a stage `io` (idle, waiting, inserted,
  projected) and the set `ahead` of writers it is queued behind. It has the lock
  when that set is empty. A task that is cancelled gives up its place.
* **An event** is `Appends` (allocate the seq, insert; `AppendFails` if the
  primary key refuses it, `SinkDrops` if the hub is cancelled), `UpsertPlanned`
  for each section of a plan event, `Projects` (the derived write), `FansOut`
  (queues, release, and on to what the engine does next). The sentinel that
  `_run`'s `finally` sends goes with the emission that ends the task.
* **Section events.** A section emits `section_start`, then `work` (which stands
  for all its searches, sources, notes, claims and verdicts: they differ in data
  that no property here looks at), then `section_done`.
* **Failure.** `EngineFails` and `SectionFails` are exceptions of LLM, search and
  crawl calls. `Raise` is what any exception does: siblings are cancelled and the
  engine emits `error`; a second exception ends the task.
* **Cancel** is `CancelReads`, `CancelMarks`, `CancelAppends`, `Projects`,
  `CancelFansOut` (the last also cancels future and task: no await in between),
  or, when it finds no hub, `CancelAppendsUnlocked` and `CancelProjectsUnlocked`
  with a counted seq and no lock. A cancel whose last write has returned may be next
  in the loop's queue when a task is created: then it cancels the task before the
  first step. `StartsTask` chooses between the two orders.
* **Submit** deletes the stored sections and upserts the edited ones one await at
  a time, or reads the stored ones, and then resolves the future that is there.
* **Subscribe** is `Connects` (a new or another request; take `_lock`), `RegistersHub`, `ResolvesRun`,
  `StartsTask` or `StartFails`, `Replays`, `Delivers`, `Disconnects`.
* **Restarts** loses everything but the database and answers none of the
  requests in flight.

Abstractions: the events of one run only (hubs of different runs share nothing
but the database connection and the lock of `ensure_started`); one
`report_delta` for all chunks; no event data but the type; `_lock` is held by the
one subscriber that is starting the run; replaying reads the table in one step
and yields its rows at once (while they are being yielded only the queue
changes, and the queue is what is read next).

### Correspondence with the code: the browser and administration

* **`StreamClient`**. `view` is `StreamState`, cut down to what decides what is
  shown; `seen`, `buffer` and `timer` are the refs `seenSeqs`, `reportBuffer`
  and `flushTimer`; `phase` is what the effect awaits (`getRun`, the response, the
  next chunk) and `conn` the connection status. `Reduce` is `reduceEvent`, event
  by event; `Hydrated` is the payload of `hydrate` merged into the state. `getRun`
  answers with what is stored when the server handles it (`ServerAnswers`) and is
  merged later (`Hydrates`). The draft of the plan card is the set of sections
  that keep a title: that is what `handleApprove` submits, and an empty list
  approves the stored plan, as `submit_plan` does. A render may or may not fall
  between two updates, so a card whose state is gone for a moment may or may not
  unmount (`Shows`). A run is also approved and cancelled from elsewhere.
* **`Accounts`**. `update_user` reads the actor, then the target, then may count
  the active superadmins, then writes: four steps. A request carries what the
  panel sends, a role or a disabled flag. `busy` is the one row a panel disables.
  `crossed` remembers that an update was written while another held what it had
  read; the code has no lock there, and what that does is in section 5.
* **`Sessions`**. A refresh is posted with the cookie's token (`JoinsRefresh`),
  looked up (`Looks`), rotated (`Rotates`) and answered with a new token
  (`Issues`); whoever awaits the shared promise goes on when it settles (`Resumes`,
  in the same step: microtasks run before any other event). The cookie changes
  when an answer arrives. A refused refresh leaves the cookie, since the exception
  that follows discards the response it was cleared on. `lost` counts lost answers
  and `shared` remembers that two requests carried the same token.
* **`Vault`**. `rotate_master_key` reads all rows, decrypts them all, rewrites them
  one await at a time and swaps the vault. A key is named after the admin whose
  panel generated it. `mixed` remembers that a rotation met an addition, another
  rotation or a restart. `Installs` is the operator who updates the environment.
* **`Settings`**. `todo` is the patch the server has yet to write; `sent` is the
  form it was made from. Provider and model have the same name when the model is
  one of the provider's. `clashed` remembers that saves met, that one was made
  from settings another had changed, or that one stopped half-way.
* **`History`**. Runs are numbered by age. A page is asked for by offset, answered
  from what is stored then, and applied later. Refresh is not disabled while more
  is loading; `crossed` remembers that they met, or that a page of older runs
  brought runs newer than all that were listed (`Overtaken`): `loadMore` appends
  whatever it does not list yet.
* **`CredentialList`**. Each change stores, is answered, asks for the list, and
  shows it; `overlapped` remembers that two lists were under way or one failed.
* **`Frames`**. A character of two bytes sits in the middle of each event.
  `Incomplete` and `HeldBack` are the decoder with `{stream: true}`.
* **`Routing`**. Effects run some time after a render, so `AuthRedirects` and
  `AdminRedirects` come between any other steps.

The history variables (`crossed`, `shared`, `lost`, `mixed`, `clashed`,
`overlapped`) change nothing. They say which interleavings the code does not
guard against; the properties hold on all others, and section 5 lists what
happens on these.

## 3. Runs

| Run | Instance | Distinct states | What it shows |
|---|---|---|---|
| `run_stream` | 2 sections at once, 1 subscriber, 1 cancel | 505 thousand | `OneWriter`, `SentWasPersisted`, `SentInOrder`, `DoneStreamComplete`, `ClosedStreamHasVerdict`, `RowMatchesLog`, `TypeOK` |
| `run_restart` | 1 section, approval, 1 subscriber, 1 cancel, 1 submit, 1 restart | 473 thousand | `LogContiguous`, `OnlyVerdictsAfterVerdict`, `RowNeverReopens`, and that `RunService` implements `EventStream` |
| `run_plan` | 2 sections one after the other, approval, 1 subscriber, 2 submits | 1.7 million | `DoneIsComplete`, `ApprovedIsResearched` |
| `run_live` | 1 section, approval, 1 subscriber, 1 cancel, 1 submit | 163 thousand | `RunSettles`, `StreamsClose`, `CancelSettles` |
| `run_client` | 1 section, approval, 2 report chunks, 1 lost connection | 586 thousand | `ReportIsWhatWasSeen`, `CaughtUpAgrees`, `DownloadsWholeReport`, `CancelledHasEnded`, `DraftOutlivesCard`, `TypeOK` |
| `run_accounts` | 2 people, 2 updates at once; 2 tabs, 2 requests, 3 tokens, 1 lost answer | 2.9 million | `SuperadminRemains`, `SetupOnce`, `AccountsTypeOK`; `NobodyWaitsInVain`, `NoDeadCookie`, `NobodyTakenForThief` |
| `run_pages` | settings: 2 editors, 2 saves; vault: 2 credentials, 2 rotations, 1 lookup, 1 restart; history: pages of 2, 6 runs; list: 2 credentials; frames: 3 events, 2 pings; routing | 1.6 million | `PairFits`, `SaveKeepsForm`; `AllReadable`, `KeyIsResolved`, `RotationSucceeds`, `PanelIsFreed`; `NoGap`, `EndIsOldest`; `OwnChangesShow`; `EventsInOrder`, `NoEventWaits`; `PageIsShown` |
| `run_flipped`, `run_overwritten`, `run_torn`, `run_resumed`, `client_rebuilt` | as small as the counterexample allows | - | the findings of section 5 |

Bounds of the runs of `RunService`. Two sections are what the semaphore, the TaskGroup and the lock's queue
need: with one more writer waiting behind two others nothing new can be
overtaken. A single subscriber suffices where a property speaks of one
subscriber and the log, as subscribers do not read each other's state. It starts
the run, may find the start failed, may leave at any time, and may connect again
as often as it likes: in the middle of the run, after it, after a failed start
and after a restart, so late and reconnecting subscribers are all there. Two
submits overlap in every order; `DoneIsComplete` claims the section rows only
when they did not, since the loser of two overlapping ones may delete rows under
the running sections. One cancel meets every stage of the engine.
`MaxRestarts` is one: a second restart starts from the
same kind of state, a log without a hub. `restarts` is the only counter and its
bound is in the guard of `Restarts`; sequence numbers need no bound because
every writer writes finitely often.

`ClosedStreamHasVerdict` and `RowMatchesLog` are stated for runs without a
restart and without a cancel on the hub-less path; both paths break them, and
that is what `run_resumed` and `run_overwritten` show. Symmetry (sections,
subscribers, cancels, submits) is used for safety only, never in `run_live`.

Bounds of the others.
`run_client`: one section goes through every kind of event, and sections are
reduced independently; two chunks are what it takes to lose, repeat or swap one;
`MaxLosses` is one, since the state after a second loss (refs kept, effect
restarted) is that after the first. The page is opened at any point of the run,
because the server may go on before the first answer.
`run_accounts`: two superadmins are what two crossing updates need, and the last
one is what a single update needs. Three tokens allow a rotation beside a login,
or two rotations in a row; two requests in the first tab share a refresh that
the second tab's refresh or logout may cross. The sessions part starts signed in
(the cookie holds token 1); logging out and in again reaches the other start.
`run_pages`: two saves that overlap or follow each other are what the settings
need; edits that no save can follow are left out, and the two providers are
alike, so the first is stored at the start. Two credentials are what a rotation
can be in the middle of. Six runs are a full page, a second one, and two more runs:
one shifts the window, and as many as are listed overtake the list. Three frames with two pings are cut at every byte.
`MaxTokens`, `MaxLosses`, `MaxSaves`, `MaxRotations`, `MaxRestarts`, `MaxRuns`,
`MaxEvents` and `MaxPings` are in the guards of the actions that count them.
Symmetry of people and of updates is used in `run_accounts`, which has no
liveness property.

Deadlock is checked in the runs of `RunService`, but says little there: a client
can always connect or leave. That nobody waits for ever is what `run_live`
checks. `run_client`, `client_rebuilt`, `run_accounts` and `run_pages` switch it
off, because there the system really stops: a run that has ended and whose page
needs nothing more, or the bounds on tokens, saves, runs, rotations and frames.
That nothing waits in vain is stated there as safety instead: `NobodyWaitsInVain`,
`PanelIsFreed`, `NoEventWaits`, `PageIsShown`.

Fairness (`Fairness`, used in `run_live` and `run_resumed`): asyncio runs every
task that is ready, SQLite answers, the timer of `asyncio.timeout` fires, and a
connected client reads. So the engine's steps, the timeout, and the continuation
of a cancel, a submit and a subscriber are weakly fair. Connecting, cancelling,
approving, failing, leaving and restarting are nobody's obligation and have no
fairness: `RunSettles` holds although nobody need approve the plan, because the
timeout covers the wait. `StreamsClose` has one exception, the stream of a run
whose task is `dropped`: it has shown `cancelled` and stays open (section 5).

## 4. Proofs

### `RunServiceProofs`

`RunServiceProofs` proves, for any finite set of sections and any sets of
subscribers, cancels and submits, any concurrency and any number of restarts (so do the three modules after it):

| Theorem | Statement |
|---|---|
| `Invariance` | `Spec => []IInv` |
| `TypeCorrect` | `Spec => []TypeOK` |
| `WritersExclude` | `Spec => []OneWriter` |
| `LogIsContiguous` | `Spec => []LogContiguous` |
| `PersistedBeforeSent` | `Spec => []SentWasPersisted` |
| `SentOnceInOrder` | `Spec => []SentInOrder` |

None of these is inductive alone. `IInv` adds what they lean on:

* `Control`: who is in the lock's queue is in the middle of an emission (and a
  cancel there has a hub), a section works only while the engine is in its
  TaskGroup, and at most one subscriber is starting the run. Without it a
  restarted hub could meet a writer of the old one.
* `Queued`: of two writers in the queue one is behind the other, and who is past
  the wait is behind nobody. This gives `OneWriter`: mutual exclusion is not
  assumed of the lock but follows from how its queue is kept.
* `Numbered`: the log is `0 .. n-1`, the hub's next seq is at most `n`, and so is
  the seq a hub-less cancel has counted and not used yet. So whoever inserts
  either extends the log at `n` or is refused by the primary key, also after a
  restart, when the hub counts from 0 again.
* `Writing`: a writer between insert and fan-out is writing the event at
  `nextSeq - 1`. With `OneWriter` nobody else can move `nextSeq` meanwhile, so
  what it fans out is what it stored.

The steps are proved part by part (`TypeStep`, `ControlStep`, `QueuedStep`,
`NumberedStep`, `WritingStep`, `SentStep`), one case per action. `LogStep` says
that no step drops or changes an event. The assumptions are those named in
`RunService`: a finite, nonempty set of sections, and that the names of engine,
sections and cancels differ.

### `RunOutcomeProofs`

| Theorem | Statement |
|---|---|
| `OutcomeInvariance` | `Spec => []OutcomeInv` |
| `VerdictIsFinal` | `Spec => []OnlyVerdictsAfterVerdict` |
| `VerdictKept` | `Spec => RowNeverReopens` |
| `StreamImplemented` | `Spec => ImplementsEventStream` |

Why can no progress event follow an outcome? There are three reasons, and
`Settled` is their disjunction: once the log holds an outcome, the hub is
cancelled (the sink drops), or the seq it would use next is taken (it was
numbered in another process, or a cancel without the hub used it), or the engine
has nothing but an outcome left to emit. Each step may trade one reason for
another; none loses the last. `WritesLast` says that what is being written is
the end of the log and no cancel without the hub can put an event behind it,
`GoneFuture` that the engine writes nothing more once its future is cancelled, and
`RowLogged` that the status comes from an event of the log, which with
`VerdictIsFinal` is why a row never reopens. `StreamImplemented` maps the state
to `EventStream` as it is and shows that each step appends one event, changes the
status to one the log accounts for, moves one reader, or stutters.

### `RunReaderProofs`

| Theorem | Statement |
|---|---|
| `ReaderInvariance`, `DoneIsLast` | `Spec => []ReaderInv`, `Spec => []DoneStreamComplete` |
| `VerdictInvariance`, `ClosedWithVerdict` | `Spec => []VerdictInv`, `Spec => []ClosedStreamHasVerdict` |
| `RowInvariance`, `RowIsLastLogged` | `Spec => []RowInv`, `Spec => []RowMatchesLog` |

`ReaderInv` ties a reader's two sources together. While `done` may still come
(`Flowing`) the queue of a registered reader ends with the last event that was
fanned out and has no hole, and once the reader is live the queue begins where
what it was sent ends, or before (`QueueJoins`); after that, a `done` in a queue
stays at the end of a part without a hole (`DoneJoins`), however the run is torn
behind it. `VerdictInv` is about the sentinel: in a process that was not restarted
and whose cancels went through the hub (`Unbroken`), the hub numbers the log
(`HubNumbers`), so an emission is refused or dropped only after a cancel, whose own
event is put on the queues before the sentinel (`CancelTold`, `StopTold`). What a
live reader skips it was sent before (`SkippedWasSent`), so the outcome reaches it.
`RowInv` says which event the row reflects between insert and projection.

### `RunPlanProofs`

| Theorem | Statement |
|---|---|
| `ApprovalInvariance`, `OnlyApprovedResearched` | `Spec => []ApprovalInv`, `Spec => []ApprovedIsResearched` |
| `StoreInvariance`, `DoneHasAll` | `Spec => []StoreInv`, `Spec => []DoneIsComplete` |

`ApprovalInv`: the future holds what an accepted submission chose, only the engine
past its wait touches sections, and nobody is asked once it is past. `StoreInv`
follows the rows of `sections` from the draft or the submission (`DraftStored`,
`ChoiceStored`) over the section's own `section_done` (`SectionsFinish`) to the
report (`PlanFinishes`) and beyond `done` (`DoneFinished`); that part holds while at
most one submission was taken up and the process was not restarted (`Single`), as
the property says. `ReportFirst` needs neither.

### `StreamClientProofs`

For any finite set of sections, any draft, any work on a section, any number of
chunks and of lost connections, with or without approval.

| Theorem | Statement |
|---|---|
| `ClientInvariance` | `Spec => []ClientInv` |
| `ClientTyped` | `Spec => []TypeOK` |
| `TextIsWhatWasSeen` | `Spec => []ReportIsWhatWasSeen` |
| `DownloadIsWhole` | `Spec => []DownloadsWholeReport` |
| `CancelledIsOver` | `Spec => []CancelledHasEnded` |
| `DraftIsKept` | `Spec => DraftOutlivesCard` |
| `HydratingAgrees` | `Spec => []CaughtUpAgrees` |

`LogInv` is about the server: what the engine emits next depends on the last event
and the status (`RowTells`), so chunks are numbered, precede the report, and the
report precedes `done`; nothing follows an outcome. `PageInv` is about the page:
what was taken in is a beginning of the log and the connection has delivered no
more (`TakenInOrder`), so a new event is always the next one, and chunks wait only
while the connection is read (`ReadsOpen`). `FinalIsWhole` has the one case in which
a page holds the report without having read it: it was hydrated from a finished run
and needs no stream any more. `ChunksShown` says what the text is until the report
event is received: the chunks so far, or a stored report that the page was hydrated
with and chunks behind it; `TrailGrows` is the step from one chunk to the next in the
second case. `PlanShown` says that a page that has read that the
plan waits shows the card until the run goes on; with `AskedLast` (the question is
asked once) it is why updates of the state keep the draft.

`HydratingAgrees` compares the page with one that was open from the start, whose
states are defined by recursion over the log (`Replays`). `StepByStep` is induction
up to a bound for a set instead of a predicate (a set that misses a number misses a
least one, by the cardinality of finite sets), so it can be cited where an induction
theorem over a predicate cannot; with it `ReplayIs` shows that the recursion defines
a function, `ReplayGrows` that later events do not change it, and `ReplayTells` what
it says of status, report and sources. `FollowInv` is the invariant: of a page that
has taken in the first `k` events, claims and failure are those after `k`, status
and question may be those of a later moment (the one that getRun answered), and the
sources listed lie between what was sent and what is stored. At the end of the log
the two bounds meet. The text comes from `ClientInv`.

### `AccountsProofs`

For any finite set of people and any set of updates.

| Theorem | Statement |
|---|---|
| `AccountsInvariant` | `AccountsSpec => []IInv` |
| `AccountsTyped` | `AccountsSpec => []AccountsTypeOK` |
| `SetupIsOnce` | `AccountsSpec => []SetupOnce` |
| `ASuperadminRemains` | `AccountsSpec => []SuperadminRemains` |

`Alone` is what the setup lock gives: whoever has counted no accounts goes on
alone, and nobody was made superadmin by setup before. `Current` is what makes
the count worth something: unless a write came between, an update still holds
the role of its target, and at least as many superadmins as it counted are there
(sign-ups and setup only add). So an update that counted two and takes one away
leaves one; that step needs the cardinality lemmas of the library. `Aimed` and
`FreshIsOn` say whom updates are about and that nobody without an account is
disabled.

### `SessionsProofs`

For any sets of tabs and requests and any number of tokens and lost answers; the
assumptions are that every request belongs to one of the tabs and that the bounds
are naturals.

| Theorem | Statement |
|---|---|
| `SessionsInvariant` | `SessionsSpec => []IInv` |
| `NobodyIsLeftWaiting` | `SessionsSpec => []NobodyWaitsInVain` |
| `CookieIsLive` | `SessionsSpec => []NoDeadCookie` |
| `RevocationHasCause` | `SessionsSpec => NobodyTakenForThief` |

`NobodyWaitsInVain` is inductive as it stands. `NoDeadCookie` speaks of moments
when no request is out; what it needs is what holds while some are. As long as no
answer was lost and no token shared (`Clean`, and no step leads back to it, see
`CleanBefore`): no two posts present one token (`Apart`), a token on its way to the
browser is live, and held by nobody else (`Fresh`), the token of a post is live
until the server uses it up (`Usable`), and when the cookie's own token is used up
the answer that replaces it is on its way (`Covered`). `Known` and `OnItsWay` say
that a token just born is one nobody holds. `Usable` also gives
`RevocationHasCause`: what a refresh presents is live, so the server finds no
revoked one.

### `PagesProofs`

Six modules that share no variable, each with an invariant of its own.

| Theorem | Statement |
|---|---|
| `HistoryInvariance` | `HistorySpec => []HistoryInv` |
| `ListHasNoGap`, `ListEndsWithOldest` | `HistorySpec => []NoGap`, `HistorySpec => []EndIsOldest` |
| `SettingsInvariance` | `SettingsSpec => []SettingsInv` |
| `StoredPairFits`, `AnswerKeepsForm` | `SettingsSpec => []PairFits`, `SettingsSpec => SaveKeepsForm` |
| `ListInvariance`, `PanelShowsOwn` | `ListSpec => []ListInv`, `ListSpec => []OwnChangesShow` |
| `RoutingInvariance`, `RedirectsSettle` | `RoutingSpec => []RoutingInv`, `RoutingSpec => PageIsShown` |
| `VaultInvariant`, `VaultTyped` | `VaultSpec => []VaultInv`, `VaultSpec => []VaultTypeOK` |
| `RotationIsWhole`, `LookupsResolve`, `PanelsAreFreed` | `VaultSpec => []AllReadable`, `[]KeyIsResolved`, `[]PanelIsFreed` |
| `RotationsSucceed` | `VaultSpec => RotationSucceeds` |
| `FramesInvariance` | `FramesSpec => []FramesInv` |
| `FramesArriveInOrder`, `NothingIsKept` | `FramesSpec => []EventsInOrder`, `FramesSpec => []NoEventWaits` |

**History**, for any page size and number of runs. A list without a gap is one
whose `i`-th run is the first one less `i - 1` (`Consecutive`): in this form the
property needs no induction. `ShownListable` relates the list to the answer that
will be appended to it: it begins at most one run below the list's end, so what
`Fresh` leaves of it continues the list. What `Fresh` does with such a page
(`FreshGoesOn`) rests on the library's facts about injections between finite
sets. The proof attempt found an error of an earlier version of the model, which
claimed `NoGap` also when more new runs are started than are listed; `Overtaken`
is the outcome.

**Settings**, for any editors and values. `HalfWritten`: keys that a save has yet to
write are as they were loaded, the others as they were sent; with one save at a time
(`OneSave`) the stored pair is the old one or the new one at either end.

**Credential list.** `OwnStored` and `OneList`: what the panel was told is stored, and
with one list under way the list that arrives has it.

**Redirects.** Only who is signed in is an administrator; the rest is a case analysis
over the paths.

**Vault**, for any sets of credentials, admins and lookups and any number of
rotations and restarts; the assumptions are that no admin's key is the first one of
the environment, and that the bounds are naturals. `AllReadable` speaks of the times
between rotations; what it needs is what holds during one. `Rotating` says that of
rotations that met nothing there is one at a time, that it has read every row, that
until it writes all rows are under the vault's key, and that from then on a row is
either under the new key or still to be written, so that when none is left the swap
is safe. `LookedUp` says that a lookup that met no rotation holds a row under the
vault's key.

**Frames**, for any number of events and pings and any way of cutting the bytes into
chunks. The invariant says that, while the loop reads, what was handled followed by
what is in the frames still unread is `1 .. sentEvents` (`WholeFrames`); the buffer
holds no whole frame, the wire ends where a frame does, and with nothing under way
the decoder holds nothing (`AtFrameEnd`).
`Unread` puts buffer, decoder and wire together again and cuts them as one text, so
the invariant does not mention chunks, and `ReadsPart` is the step that matters: to
decode and cut a part, keep what is left, and go on with the rest gives the same
frames as to decode and cut everything at once. It rests on what decoder, splitter
and parser make of a text in two parts:

* `TextOfConcat`: a text is decoded part by part if no character is cut, and the
  decoder holds back just what is needed for that (`HeldIs`).
* `SplitOfConcat`: a separator found in the first part stays the first one
  (`FirstStays`; `CR LF CR LF` is why the rest cannot be cut alone), so its frames
  come first and its rest goes on.
* `EventsOfConcat`: the events of a list of frames are those of its parts.
* `PartOfFrame`: the loop hands what is left in the buffer at the stream's end to the
  parser, too. A beginning of a frame is parsed to nothing or to the whole event, which
  is the one that would have come next.

Decoder, splitter and event list are recursive functions. That they exist is
`SolutionExists`, proved once: what refers to something smaller only has a solution
(partial solutions agree, and their union is one). Induction over the length of a text
is `BySize`, stated for a set instead of a predicate, so that it can be cited. The
assumption is that the two bounds are naturals; the invariant was checked with TLC
before it was proved.

### Only model-checked

The three liveness properties, `RunSettles`, `StreamsClose` and `CancelSettles`: fairness
and ENABLED are out of the prover's reach. Every other property of a passing run, 37 of
40, is a theorem.

## 5. What the code does not do

* `run_flipped`: a cancel that read the status in time flips a run to
  `cancelled` after it was `done`; a test says a completed run must not be.
* `run_overwritten`: a run cancelled before it has a task is started by the
  next stream and its `error` overwrites `cancelled`.
* `run_torn`: an emission cut between insert and fan-out leaves an event that a
  reconnecting client sees and the live one never did.
* `run_resumed`: after a restart the engine starts over at seq 0 and dies on its
  own log; the status keeps its last value for good.
* `client_rebuilt`: a page that lost its connection and reconnected has replaced
  its sections by empty shells and drops the events that would fill them as seen.
  Report, claims, sources and status do agree (`CaughtUpAgrees`).

Other behaviour that the models show, which no statement in the repository
excludes and which the properties therefore state as their exceptions:

* **Runs.** A plan submission is accepted as soon as the hub has its future,
  before there is a plan; one that approves the stored sections may then approve
  those of them that are already written. A cancel that is due in the turn of the loop
  in which the task is created cancels it before its first step. Then nothing sends the
  sentinel that the comment at `run_service.py:593-597` expects of the engine, nor sets
  `finished`: the stream shows `cancelled` and stays open until the client leaves
  (`ToldOfDrop` is the exception of `StreamsClose`). A client that connects again
  gets the log up to the event and the end.
* **Run page.** A cancel that meets the end of the run shows `cancelled` for a run
  that is `done`, until the page is loaded again. Edits made between hydrating and
  the replay of `awaiting_plan` are lost when earlier events are replayed. While
  the plan card is shown no Reconnect is offered. A list without a titled section
  approves the stored plan. The error message of a failed run is not hydrated; it
  comes with the replay. While a run is replayed the status goes through its past.
  A page that `getRun` gives the stored report, of a run that is not done yet or was
  cancelled after it, shows that report and behind it the chunks replayed to it, until
  the report event is replayed too and replaces both: `report_delta` appends to the
  hydrated text (`useResearchStream.ts:240-243`, `432-434`), and de-duplication by seq,
  which the file's header says avoids applying a chunk twice, does not see it, as
  the chunks were never received. `ReportIsWhatWasSeen` says so in its last case.
* **Sessions.** Two tabs that refresh at once, or a refresh whose answer is lost,
  may be taken for theft, which ends every session of the user. The dead token
  then stays in the cookie, since the response that clears it is replaced by the
  error, and each later refresh revokes all sessions again, until the user signs
  in or out in that browser. Two refreshes that both read the token as live both succeed
  and leave a token nobody holds.
* **Accounts.** Registration and the first sign-in with Google work before setup;
  setup is then refused and there is no superadmin. Two updates that cross can
  each take away the superadmin that the other left.
* **Vault.** A credential added while a rotation runs stays under the old key, and
  every later rotation refuses because of it. Overlapping rotations, or a stop in
  the middle, leave rows under two keys. Lookups during a rotation may fail. If
  the answer to a rotation is lost and the admin then cancels, the key in use is
  shown nowhere any more.
* **Settings.** Two administrators can pair one's provider with the other's model,
  and a stop between two keys leaves half a pair. Edits made during a save are
  lost when its answer comes.
* **History.** A refresh that meets a load of more can leave a gap in the list. When
  more new runs were started than the list holds, loading more brings the newest
  ones and appends them below the older ones; then it loads what is listed again.
  Ctrl+Enter in the composer submits again while the first submission is under
  way, and creates a second run.
* **Credential list.** Of two lists under way the older may arrive last and show a
  revoked key as active.
* **Redirects.** A visitor without a session sees `/setup` for a moment before the
  redirect.

## 6. Not modelled

* Section research, source registry, claims, verification, contradictions,
  synthesis and the planner: what they compute is data of an LLM and of search
  providers, one call after the other; where they wait, fail or emit is in
  `RunService`. The registry is read and extended without an await between, so
  concurrent sections cannot get between the two.
* Provider adapters, prompts and the parsing of LLM answers: external services.
* The rate limiter: one function without an await.
* Demo mode (seeding and wiping a database) and the CLI (the engine without
  concurrency).
* Expiry of refresh tokens and credentials, the audit log, password hashing, the
  exchange with Google.
* The settings that pair with no other (search provider, plan approval,
  verification level): they are loaded, edited, sent and written like the others.
* Rendering: layout, Markdown, timeline, badges, toasts.

What would come next: the planner's section ids, filled in by position, are a
function of one call that could be stated and proved as such; and a second level of abstraction above `EventStream`, which would say of a page
that follows a run what `Frames` and `StreamClient` say together.

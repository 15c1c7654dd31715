# A TLA+ verification of PRI, the production-resilience service

PRI keeps the schedule of a film production as a chain of numbered states.
When a disruption is reported it computes recovery plans against the current
state, a producer approves one, and a guarded path commits it as the next
state.  This directory models the parts of that system where order, failure
and concurrency decide whether the schedule can be trusted, checks them with
TLC and proves the central results with TLAPS.

Source paths below are relative to the repository; the implementation lives in
`src/pri/`.

    StateStore.tla          the append-only version chain and commit_state
    StateStore_proofs.tla   its invariants, for any number of writers
    Transition.tla          the guarded execution path and what it races with
    Governance.tla          what that path promises, in one step per promise
    Transition_proofs.tla   its invariants, and that it keeps the promise
    Ingestion.tla           the topic, its consumers and the recoveries of the API
    Ingestion_proofs.tla    its invariants, for any number of consumers and failures
    Import.tla              staging, commit, rejection and expiry over the chain
    Import_proofs.tla       its invariants, for any number of workers and files
    Board.tla               the schedule and the moves of a plan (apply)
    Rules.tla               the ten rules of the validator
    Impact.tla              what a disruption touches, and its projection
    Candidates.tla          the four families plans come from
    Scoring.tla             delay, cost and risk of a plan
    Planning.tla            a recovery, its repairs, its frontier, the execution
    Planning_proofs.tla     its properties, for any board, disruption, hints and rates
    WorkbookSpec.tla        the sheets and columns of a workbook, and its cells
    Workbook.tla            from an uploaded file to a state, and back by export
    Workbook_proofs.tla     what a parse without an error has made of any file
    Fabric.tla              the producer's breaker, the background bridge, the probe
    Stream.tla              the stage stream, recoveries on it, screens that watch it
    Edge.tla                typed disruptions, and all of this on one pool of threads
    Edge_proofs.tla         its invariants, for any load, timeouts and number of threads
    FiniteOrders.tla        strict orders on finite sets, for the proofs
    MC*.tla, MC*.cfg        instances for TLC
    PROJECT.json            components, runs, mutants, source map, hazards

Run a model with `tlc -config MCEdge.cfg MCEdge`, a proof with
`tlapm StateStore_proofs.tla`.

## 1. Inventory

Each component: what it keeps, what it does, whom it talks to, what is hard
about it, and what makes it correct.

**Version chain** (`persistence/repository.py`, `database.py`,
`migrations/001_init.sql`).  Keeps `state_versions`, keyed by
`(production_id, version)`.  `commit_state` is the only writer: upsert the
catalogue row, select the head row `FOR UPDATE`, compare it with the parent of
the new state, insert, run the caller's `post_insert` hook, commit.  Called by
the execution path and by imports.  Hard: READ COMMITTED does not re-evaluate
the head query after the lock wait.  Correct when: versions are 1..n without
hole or fork, nothing committed is rewritten, every call comes back.

**Guarded execution** (`engine/transition.py`, `api/routes.py` execute).
Keeps nothing itself; reads and writes the session, approval, audit and
artifact tables, each call in a transaction of its own, and the call-sheet
files.  `execute` walks seven gates - state, constraints, policy,
authorisation, approval, execute, verify - and only the last two share a
transaction.  Hard: everything it read can change before it commits; a crash
can fall between any two transactions; clients retry.  Correct when: every
version executes a stored, lawful, verifiable plan on the version it was
computed for, at most once, with all gates passed by one permitted approver.

**Sessions, approvals, audit, artifacts** (`persistence/repository.py`).
Tables with one-statement operations.  Hard: `add_candidates` follows
`create_session_with_id` in a second transaction; `record_approval` moves the
session's status whatever it was; `get_audit` reads the newest 500 entries.

**Recovery service** (`api/recovery_service.py`).  Stateless pipeline: impact,
candidate generation, scoring, then session, candidates and audit entry in
three transactions; publishes a frame per stage before the session is stored.

**Event ingestion** (`events/consumer.py`, `runner.py`, `schemas.py`).  Keeps
the Kafka offset and the `events` table.  `handle` decodes, records the event,
publishes `recovery.requested`, calls the API with a 60 s timeout, publishes
`recovery.completed`, flushes, commits the offset.  Hard: at-least-once
delivery against "already recorded, skip"; a timeout of a call that goes on; a
foreign-key failure reported as a duplicate.  Correct when: every event that
is consumed has a recovery, and none has effects twice.

**Event publishing** (`events/producer.py`, `api/kafka_bridge.py`).  Keeps a
circuit breaker (failures in a row, opened-at), the client's queue, a task per
message and what the last probe found.  Hard: a delivery report waits until
somebody polls, and comes when the breaker is in another state; the cooldown is
over when somebody looks; queue full; polls, probes and recoveries take threads
of the same pool.  Correct when: publishing never fails a request, and health
says what the broker is like, for good, once the broker stays as it is.

**Production import** (`importer/service.py`, `api/import_routes.py`).  Keeps
`import_staging` rows (PENDING, COMMITTED, REJECTED) with a time to live.
Stage, fetch, commit, reject, purge.  Hard: commit is three transactions; none
of the later ones looks at the status again.  Correct when: one staging row
yields at most one version, and a version's provenance survives.

**Import parsing** (`importer/parser.py`, `reader.py`, `coercion.py`,
`spec.py`, `limits.py`, `template.py`).  Keeps tables, errors and warnings
during one parse.  `parse_workbook` checks the file at the door, reads the
sheets, and runs five phases, each of which stops the parse if it found an
error; `export_state` writes a state back as a workbook.  Hard: one bad cell
refuses a row others refer to; dates that can be read two ways; nights that end
after midnight; hours that do not exist or happen twice; windows, permits and
closures that are folded into one another.  Correct when: what comes out without
an error is a legal state that holds every row of the file, an error names a
mistake of the file, and an export is read as the same production - but for
texts that begin like a formula, which the export alters.

**Domain state and moves** (`domain/models.py`).  Pure: `apply` makes a list of
moves (move a scene, swap two days, shift a call, relocate a scene) on a
dictionary of days and freezes the result.  Hard: moves see what earlier ones
did; the dictionary has one entry per date.  Correct when: scenes are neither
lost nor duplicated and a successor has the next number.

**Constraint validator** (`engine/constraints/validator.py`), **verification**
(`engine/verification/verify.py`), **simulation**
(`engine/simulation/*`), **dependency graph** (`engine/graph/dependency.py`).
Pure functions on one state.  Hard: plans are judged on a state with the
reported absence in it and executed on one without; repairs are appended to
what they repair; a verifier checks a plan the validator accepted.  Correct
when: what is offered as valid can be executed, an absence is honoured, a
repair cures what it was built for, the frontier hides no plan without reason.

**Stage stream** (`api/stream.py`, `api/routes.py` stream, the console's
`lib/stream.ts` and governance page).  Keeps a bounded queue per connected
client; nothing is remembered for those that are not.  Hard: a full queue drops
the newest frame, the offer and the last one included; a client that reacts to
a frame asks for what may not be stored; it asks once; answers overtake one
another.  Correct when: an offer a screen receives leads it to a session that has
its plans, and is lost in no way but the known ones.

**Disruption injection** (`api/injection.py`, `agent/extraction.py`).  Keeps
per caller the times of its last calls.  A typed sentence goes past the limit to
a language model, and its reply through a check against the board.  Hard: the
board may change while the model thinks; the model may say anything.  Correct
when: no window holds more calls than the limit, and no event names what was
not on the board.  **Agent** (`agent/service.py`): wording and strategy hints
from a language model, with a deterministic fall-back.

**Seeding and reset** (`persistence/seed.py`, `bootstrap.py`), **configuration
and wiring**, **web console, scripts, infrastructure**: no behaviour of their
own that a run could violate, except that the demo reset deletes a production
and everything under it.

How they meet: `POST /ingest` or the consumer records an event; the recovery
service reads the head and stores a session with candidates; `POST /approve`
appends a decision; `POST /execute` commits through the version chain; an
import commits through the same chain.  All shared state is in PostgreSQL, so
"two actors" always means two transactions, and a crash loses exactly what was
not committed.

## 2. Plan

1. `StateStore` - the chain every other writer depends on.  Done, proved.
2. `Transition` composed on it by EXTENDS (a worker is a client of the store),
   with the abstract `Governance` it refines.  Done, proved.
3. `Ingestion` - consumer, redelivery, recovery call, session storage.  Done,
   proved.
4. `Import` - stage, commit, reject, purge, over `StateStore`.  Done, proved.
5. `Planning` over `Scoring`, `Candidates`, `Impact`, `Rules` and `Board` - a
   recovery from report to verified execution.  Done, proved.
6. `Edge` over `Fabric` and `Stream` - the breaker with late reports, the stage
   stream, the injection, on one pool of threads.  Done, its invariants proved.
7. `Workbook` over `WorkbookSpec` - parsing and export.  Done, proved.

Liveness stays with TLC: fairness is out of the prover's reach.  What is left is
in section 6.

## 3. The models

### StateStore

One production.  `state_versions` maps a version to its parent and content.
Per client (database connection) `phase` says where its `commit_state`
transaction stands, `parent` and `content` what it is writing, `seen` the
head its SELECT returned, `outcome` how the last call ended.

| action | code |
| --- | --- |
| `BeginCommit` | transaction opened, catalogue upserted, SELECT issued: the head row is fixed here |
| `LockHead` | FOR UPDATE granted: nobody else holds that row; no row, no wait |
| `RefuseStale` | `head.version != parent_version` -> `StaleStateError` |
| `InsertRow` | INSERT accepted; waits while another transaction has the same key in its write set |
| `RefuseDuplicate` | INSERT meets a committed row: `IntegrityError` |
| `CommitRow`, `RollBack` | the hook accepted or raised |
| `Disconnect` | the client dies; the server rolls back |

`Write` stands for callers in general: they build on a version that exists, or
on nothing (an import's root).  PostgreSQL's locks, its snapshots and the
unique index are external and modelled from the statements the code issues.
Content is opaque; `ProductionState.apply` contributes only the number.

### Transition

Extends `StateStore`: a client is a worker that serves execute requests, `pc`
its next step.  Sessions, approvals, audit log, artifact rows and call-sheet
files are the shared tables.  One action per gate, per transaction and per
exception path; `Crash` may replace any of them.  `OpenSession`,
`StoreCandidates`, `Decide` and `Bury` are what other requests do meanwhile:
a recovery stores a session and later its candidates, a producer decides
anything about any stored plan at any time, and other traffic pushes a
completed entry beyond the 500 the log returns.

Abstractions, and why nothing asked here depends on them:

- A plan's moves are reduced to two facts: does it break a HARD rule
  (`Illegal`), does it fail V1..V6 (`Unverifiable`).  Both depend on the plan
  and its base only, and gate 1 fixes the base.
- Audit entries other than `transition.completed` are a set per plan: nothing
  reads them back, the properties ask only for their presence.
- The call sheets of a version are one file set under the version's key: they
  are drawn together, under a key that does not name the plan.
- `Permitted` is a subset of the named actors.  The deployed route passes no
  list, which is the case "every named actor"; the service accepts one.
- Gate 2 and gate 5 cannot fail by a missing row: foreign keys exclude it.

### Governance

The promise, with no gates, locks, retries or crashes: sessions open on an
existing version, plans get approved, and `Execute` appends a plan to the
chain if the chain still ends at the session's base, the plan is fit and, if
the policy asks for it, approved.  `Transition` maps to it with `chain` the
contents of the versions, `opened` the sessions that have a row, `approved`
the plans with an approval on record.  An approval on record stays true for
the promise even if revoked later: the code reads the newest decision at
gate 5 and commits afterwards, and that window is part of what it does.

### Ingestion

One production, hence one partition of `production.events`.  The topic and the
consumer group are external, modelled from the calls the code makes: `poll`,
`commit` with `enable.auto.commit` off, `subscribe`, and the assignment of a
partition at the group's offset.

| action | code |
| --- | --- |
| `Publish` | any other producer, an event again included, or a message that is no envelope |
| `Ingest`, `Announce` | `POST /events`: the row, then the fire-and-forget task that publishes it or gives up |
| `Poll` | `run` takes the next message, `from_bytes` accepts it or `handle` skips it |
| `Record` | `record_event`: the first insert returns true, any `IntegrityError` false |
| `Request` | `publish_recovery_requested`, which never raises |
| `Invoke`, `Answered` | `ApiRecoveryInvoker`: the POST, and its response once the recovery is stored |
| `Commit` | the three synchronous commits of the offset: skipped, duplicate, handled |
| `Refused` | any other error of the insert is re-raised: the message ends whoever takes it, each time |
| `Die`, `CallFails`, `Leave` | an exception anywhere in `handle` is re-raised out of `run` and ends the process |
| `Restart`, `Join`, `Rebalance` | Cloud Run starts it again; the group gives it the partition, or takes one away |
| `Recover`, `StartRun` | `POST /recover`, from a client or from the consumer |
| `StoreSession`, `StoreCandidates`, `FinishRun`, `DropRun` | `_persist`, three transactions, any of which may be the last |

A consumer that times out after 60 s is one that dies while its recovery goes
on: `Die` at `waiting` leaves the run where it is.  A consumer that lost its
partition does not know: it goes on with its message, and learns at its next
commit.  Two consumers exist although the service runs with one instance: while
one revision replaces another both are members, and a handler that takes longer
than `max.poll.interval.ms` is taken for dead and restarted beside itself.
An event the table takes in no attempt (`Unstorable`: its payload decodes, and
PostgreSQL refuses it as JSONB) is neither skipped nor recorded: it stops the
partition until somebody moves the offset by hand.  The code means it so
("Restarting on a poisoned message is preferable to skipping it", `runner.py`), and
`Drained` says how far it goes: what stands before such a message is consumed,
and nothing but such a message stops the rest.
A lost notification changes nothing in the handler, because `publish` never
raises; what it does to the breaker belongs to `Edge`.  Event ids are opaque,
and what a recovery computes is a session id.

### Import

Extends `StateStore`, like the execution path: a client is an API worker, its
`commit_state` runs in the store's own steps with parent 0.  All files name the
same production, so all commits compete for one version 1.

| action | code |
| --- | --- |
| `Upload` .. `InsertStaged` | `stage_import`: pending review of this file? parse; E013 if the production exists; insert PENDING_REVIEW or FAILED against the partial unique index |
| `Fetch` | `commit_import` reads the row: unknown, committed already, refused, or under review |
| `StartCommit`, `RunStatement`, `StoreRefused`, `Stored` | `commit_state` of the parsed snapshot |
| `AuditCommit`, `MarkCommitted` | the entry and the UPDATE, each its own transaction, neither reading the status |
| `FetchReject`, `Reject` | `reject_import`: read, then UPDATE by id |
| `Expire`, `Purge` | 24 hours pass; one DELETE of expired pending rows |
| `Crash` | a worker dies anywhere; its open transaction is rolled back |

Parsing is the verdict clean or broken (`Broken`), because nothing here depends
on why; a file stands for its bytes, their digest and the state in them.
Existence in the catalogue equals existence of a version: imports write both in
one transaction.

### Board, Rules, Impact, Candidates, Scoring, Planning

Each extends the one before; only `Planning` has variables.  A state is
`[rows, place, needs, away]`: the shooting days sorted by date, where each scene
is shot, what it needs before it, when each person is away.  What no plan
changes (casts, gear, permits, rentals, what places support, rates) are
constants.

| definition | code |
| --- | --- |
| `Moved`, `MovesMade`, `Applied` | `ProductionState.apply`: its four helpers on the days by date, the derived bookings, the frozen result |
| `Validate` | the registry C001..C010, as sets of violations |
| `ImpactOf`, `ProjectDisruption` | `impact_of`, `project_disruption` |
| `GenerateCandidates` | DEFER, SWAP, RELOCATE, COMPRESS in the order of the hints, without repeats |
| `Score` | delay, cost and risk |
| `Generate`, `EvaluatePlan`, `Repair`, `MarkPareto` | `recover`: round one, each `evaluate_plan`, the repairs of round two, `mark_pareto` |
| `Execute`, `MakeMove`, `Commit`, `Verify` | gates 1 and 2 of `execute` with `apply` one move at a time, and V1, V2, V4, V5 |

Times are whole units (the instance takes quarters of an hour) from a common
origin, so a night that wraps after midnight needs no special case.  Scene and
place ids are numbers in the order in which the code sorts them.  `Sorted` lists
a finite set in an order by counting what comes before each element; it stands
for the code's calls of `sorted`, whose keys do not tie.  An absence of somebody the
production does not know is ignored by `project_disruption` and therefore by
`BlockedDates`; a cast member it does not know is passed over by C003.  The loops
of the code that carry something along - `apply` over the moves, shedding over
scenes, keeping over proposals - are folds of one named step each (`Made`, `Shed`,
`Keep`).  A move that `apply` refuses leaves the board `Raised`.
`ExecutionAgrees` says that this never happens to a plan on offer, neither when
it is evaluated nor when it is executed, and what verification may then say.
Abstractions:

- A day's scenes are a set.  The running order decides ties between moves and
  whether two candidates differ only in order; no rule, check or score reads it.
- The switches of `config/policies.yaml` and of the scoring measures are as
  shipped; amounts are constants, and decimals are scaled to whole numbers so
  that equal scores stay equal.
- A prerequisite cycle makes `_dependency_order` give up; the import refuses
  one, and no move adds one.
- Execution starts on the head the recovery saw.  What happens when the head
  has moved is `Transition`'s subject, where a plan is only lawful or not;
  here is what decides that it is.

### WorkbookSpec, Workbook

One upload.  `sheets` is what the reader found, `tables` the rows that could be
read, `errors` and `warnings` what is reported, `state` what was built.

| action | code |
| --- | --- |
| `Read` | `check_size`, `detect_kind`, `safe_zip_entries`, the readers, merged cells filled downward |
| `CheckSheets` | phase 1: E001, E002, E017 |
| `ReadProduction` | the one row that decides the time zone, hence how a date like 05/03 is read |
| `ReadTables` | every other row through `coerce_cell`: E003, E004, W011 |
| `WithinBudget`, `OverBudget` | the one look at the clock |
| `CheckIdentity`, `CheckReferences` | E005; E006, E008, E014 |
| `CheckProduction`, `CheckSemantics` | E007, E009, E010, E011, E015, E018, W008, W009 |
| `BuildState` | windows, permits, days; what the domain types refuse is E003 |
| `Warn` | phase 5 |
| `UploadExport` | `export_state` with `_cell_value` and `guard_formula` (`CellValue`), and the file uploaded again |

A cell is one of what a person can have put there (blank, a value its column's
kind can be read from, a date that reads two ways, words, an example), so the
regular expressions of `coercion.py` are not in the model; which of these a kind
accepts, and what it makes of an empty one, is.  A zone is an offset with at
most one hour skipped and one repeated; times are half hours.  The columns of
free text, which are copied, and the wording of issues are left out.  Whether
time ran out is a choice.  `Quoted` maps each text that begins with `=`, `+`, `-`,
`@`, a tab or a carriage return to the same text behind an apostrophe: so
`guard_formula` writes names and ids, and a list of ids by its first one, and
nothing takes the apostrophe off when the file is read.  A book is a function
from the names of sheets: of two sheets whose names are the same once stripped
the reader keeps the last and says nothing, which the model leaves out.  Amounts
are written as floats; one of more digits than a float holds would come back
changed, and amounts are exact here.

### Fabric, Stream, Edge

`Fabric` is the publisher, `Stream` the stage stream with its recoveries and
screens, `Edge` the requests that start both, the pool of threads they share
and the clock.

| action | code |
| --- | --- |
| `Ingest`, `Inject`, `Replied`, `Throttle` | `POST /events`; `inject_disruption` to the model's call and from its reply; 429 |
| `Attempt`, `Produce`, `ProduceFails` | `publish`: the breaker, `produce` and `poll(0)`, a full queue or any other `KafkaException` |
| `StartPoll`, `PollServes`, `PollEnds` | the task's second thread: `poll` returns after serving a report, anybody's, or when its time is over |
| `Acknowledge`, `GiveUp`, `Change` | librdkafka and the broker: a report is parked; the way to the broker fails or returns |
| `Health`, `Probe` | reading `is_open`, which may reset it; `probe_once`, or its `wait_for` running out with no thread free |
| `Subscribe`, `Unsubscribe`, `Receive`, `ShowSession` | a tab connects or is cut off, renders some of its frames and asks for the last offer among them, gets an answer to `GET /sessions/{id}` or none |
| `StartRun`, `RunInThread`, `Computed`, `Persist`, `FailRun`, `FinishRun` | `run_recovery`: its frames, its thread, its transactions, its offer |
| `Decide`, `Execute`, `Executed` | `approve` and `execute` as the stream sees them |
| `Rewrite` | anybody changes the board |
| `Tick`, `Close` | time; the process is shut down: tasks are awaited, the producer flushed |

What has a deadline holds the clock until it is done, so "within" needs no
further argument.  The counters of the health page are left out: the reports
served determine them.  A probe is one step.  The passcode, the refusals of a
disabled fabric and a model that cannot be reached change no state beyond the
caller's entry in the window.  The screen is the governance page; any client may
start a recovery, the recovery page is one of them.  `missed` records what became
of an offer a screen came by in vain: lost with the connection or at a full queue,
overtaken by a newer one in the same rendering, or unanswered - any failure of the
one request clears the screen, and the page does not ask again by itself.  A restart of the API other
than `Close` is not modelled here: queues and tasks are gone with it.

## 4. What the runs show

| run | checks | shows |
| --- | --- | --- |
| `execute_race` | `ChainUnbroken`, `PlanOnItsBase`, `ExecutedOnce`, `OnlyGovernedVersions`, `RecordsFollowCommits`, `AnswersTruthful`, `KeepsPromise` | two workers, two sessions, three calls and three decisions, crashes anywhere |
| `execute_gates` | `TypeOK`, `GatesBehindHold`, `ExecuteAnswered` | a good, an illegal and an unverifiable plan, an approver without permission: all gates can close, and a surviving request is answered |
| `execute_retry` | `RetryIsReplayed` is violated | crash between COMMIT and the completed entry, then retry: refused as stale |
| `execute_sheets` | `CallSheetsShowVersion` is violated | the loser of a race overwrites the winner's registered sheets |
| `ingestion` | `TypeOK`, `PassedIsKnown`, `PlannedOnce`, `AnnouncedIsStored`, `UndisturbedIsRecovered`, `OffsetForward`, `Drained` | two consumers, an event of the topic, one reported over HTTP, one of an unknown production, one the table refuses each time, junk, one failure anywhere: nothing is planned twice or passed unrecorded, and the topic drains up to a message the table refuses |
| `ingestion_lost` | `OffsetAfterSession` is violated | a consumer dies between the insert and the recovery; redelivered, the event is a duplicate and is passed without a session |
| `import` | `OnlyCleanRoots`, `OnePendingPerFile`, `RecordsTellTruth`, `CommitAnswersTruthful`, `DecisionsKept`, `RequestAnswered` | two workers, two workbooks of one production and a broken one, four requests, crashes and sweeps anywhere |
| `workbook` | `TypeOK`, `ParsedIsLegal`, `NothingLost`, `NoCascade`, `ReimportsTheSame`, `ClosuresKept` | a production's workbook with one or two of some eighty slips and variations, and the same through every door: parsed, exported, parsed again |
| `edge` | `TypeOK`, `LoneReportCounted`, `RateRespected`, `InjectedOnBoard`, `HealthFollowsBroker`, `ScreenInformed` | five loads: three reports in an outage; typed reports up to the limit; any reply of the model while the board changes; two recoveries on a screen that is cut off, falls behind or gets no answer; a recovery while reports hold the threads |
| `planning` | `ScenesKept`, `ExecutionAgrees`, `AbsenceHonoured`, `RepairsHeal`, `FrontierCovers` | every lawful schedule of three scenes on two shapes of week, three sets of prerequisites, an actor free or away on the first reserve day, eight disruptions of all kinds, two hint lists: all plans, repairs, ranks and executions |
| `planning_landed` | `MovesVisible` is violated | an absence that reaches the first reserve day makes the repair of a deferral move a scene again; the valid plan fails V4 whenever it is executed |
| `planning_units` | `NoSceneDropped` is violated | two units on one date: one row and its scenes are gone after any move, though the plan was found valid |

Further disagreements were met and have no run; the models follow the code.

- The docstring of `commit_state` promises the loser of a race
  `StaleStateError`; under READ COMMITTED the waiter keeps the head it
  selected, so the loser passes the check and gets the driver's
  `IntegrityError` (`RefuseDuplicate`).
- The module docstring of `transition.py` (line 22) parks a session in
  `HUMAN_REVIEW` after a failed verification; the code (line 406) sets it to
  `OPEN`, the only such status the schema allows.
- The execute route publishes FAILED for any exception, one after COMMIT
  included.
- `commit_import` is called idempotent (`importer/service.py`, lines 251-253;
  `import_routes.py`, lines 197-198).  A second call while the first is between
  its transactions, or after it died there, is refused as stale.
- `from_bytes` (`events/schemas.py`, lines 46-48) says a consumer must not
  commit an offset for something it could not read; `handle` commits exactly
  that offset, and says why (`consumer.py`, lines 211-227).
- `_place_deferred` asks for its scenes in dependency order and is given them
  sorted by id, so a scene may be deferred onto the day of one it needs;
  validation then rejects the deferral.  The availability repair takes any
  reserve day, the ones before the disruption included.  The docstring of
  `ShiftCallTime`'s helper speaks of a validation error for a call after the
  wrap; `model_copy` validates nothing.
- A half-open breaker is said to let "the next attempt" decide whether it opens
  again (`producer.py`, lines 87-88); the count starts from nothing, so it takes
  as many failures as the first time.  A dead broker so costs a threshold of
  timeouts per cooldown.
- `poll` returns after serving a report, whosever.  With two messages in flight
  one report can stay parked until the next publish, the case the comment at
  `kafka_bridge.py`, lines 119-124, is about.  `LoneReportCounted` therefore
  speaks of messages that were alone.
- `inject_disruption` answers "accepted ... once it is on the topic" (line 151)
  when the task that will publish it has been scheduled.
- A poll of up to ten seconds holds a thread of the pool that computes
  recoveries and probes the broker; with all threads held recoveries wait and
  the probe reports the broker unreachable.
- The governance page takes its options from the last answer and its selection
  from the newest offer; plan ids repeat between sessions, so a decision may name
  a plan of another session than the one shown.
- A location CLOSED on every day of the shoot gets no permit window and is read
  as unrestricted; a permit that ends after midnight runs into a closed day;
  `ClosuresKept` names both exceptions.  An export of a production with closures
  keeps their effect on no sheet, although `_availability_rows` says that
  `_daily_permit` raises.
- A text that begins like a formula comes back from an export one apostrophe
  longer, an id together with what refers to it by itself.  Of a list only the
  first id is guarded: with two such ids in the cast of a scene the second names
  nobody, and the exported file is refused with E006.  `ReimportsTheSame` excepts
  productions with such a text (`NoFormulas`).  `template.py`, lines 8-9, calls the
  export the inverse of the parser, and `import_routes.py`, lines 252-253, its
  output a valid input.
- `stream.py`, lines 10-11, counts on a browser that missed a frame to read the
  session again and catch up; after a reconnect (`web/lib/stream.ts`, line 75) the
  page reads a session when an offer reaches it and at no other time.
  `ScreenInformed` excepts what was missed.
- An export declares one fixed offset: moments beyond a clock change move by an
  hour, and half-hour zones other than India's become UTC
  (`ReimportsTheSame` is about productions with one offset).
- `to_date` hands dates with slashes and the year first, and
  the single real date of a list cell, to a parser that swaps month and day
  without a warning.  `coercion.py`'s parsing of text is below the model.
- The time budget is looked at once, before the search for prerequisite cycles,
  which enumerates all of them.

### Bounds

`MaxVersion` stops general writers; three versions are enough for a fork (two
writers on one parent), for a hole (a writer whose parent is not the head) and
for both after an earlier commit.  In the execution runs versions are bounded
by the sessions, since a session commits once.  `MaxCalls = 3` gives a winner,
a loser and a retry; `MaxDecisions = 3` gives an approval per session and a
revocation.  Two workers suffice for every pairwise race; the proofs below
cover any number.  `execute_race` uses symmetry of workers and of sessions:
it checks invariants, an action property and a safety refinement, which are
symmetric; the runs with liveness use none.  Deadlock checking is off in the
execution runs: with calls and decisions used up the system rests.

In `ingestion`, `MaxTopic = 2` puts a message behind another, a duplicate,
junk or one that is refused each time; `MaxRuns = 1` lets a client race the consumer for one recovery;
`MaxUpsets = 1` is one death, timeout, stolen partition or failed transaction,
which is what the refuted claim needs too - and the theorems hold for any
number.  In `import`, `MaxCalls = 4` is two uploads and two decisions, enough for
a commit to race a commit, a rejection and a sweep; the only version is 1.

In `planning`, three scenes are a chain, a pair with a stranger, or strangers;
three shooting days and two reserve days give a nearest partner to swap with, a
turnaround that a swap of the night shoot breaks, a first reserve day that is
blocked and a second that is not, and a shortened day that must shed a scene.
Three places allow one relocation, or none.  All of this is reached: repairs of
C001 that shed, repairs of C003 that succeed, plans beaten and plans tied.
`planning` has no bound on depth: a recovery ends.  Deadlock checking is off
for that reason.

In `workbook`, every pair of slips is tried, because what goes wrong between
phases takes two: a refused row and one that refers to it, a clock change and a
night, a closure and a permit.  Two scenes, two people, two locations, a crane
and three days are enough for a reference of each kind, a loop, a shared day and
a reserve day.  The parse itself is bounded.  A name, a unit and ids that begin
like a formula, one alone in its list and two in one, are exported and read
again with the rest.

In `edge`, the pool has two threads, the breaker opens after two failures for
two ticks, the client gives a message up after one tick and a poll after two (the
order the configuration guarantees), the client's queue and a screen's hold two.
Three messages make a breaker that opened meet a late report and a next attempt;
three calls meet a limit of two.  Two recoveries make answers overtake one
another and a queue overflow.  Each behaviour brings one of five loads, which is
what keeps their product out of reach of the memory; the loads combine those
parts that touch the same state.

### Fairness

`FairSpec`: a step the server has begun is taken (weak
fairness), and waits on a row lock or on an index entry are served (strong
fairness): PostgreSQL queues them.  Nothing obliges a client to call, a
producer to decide, a crash to happen or a recovery to store its session.
`Ingestion` assumes that a consumer goes on and is restarted (Cloud Run keeps
`min-instances` at one), that the group assigns a free partition, and that the
API advances some recovery as long as there is one to advance.  A recovery that
died ends its caller's call by an action of its own, so `Drained` does not rest
on any recovery succeeding.  Deaths, timeouts and stolen partitions are bounded:
`Drained` speaks of what happens once they end.  A refused message is no such
failure; it is refused as often as it is delivered.  `Import` assumes of its
workers what the execution path does.  `Edge` assumes that what was begun in an
open process goes on - tasks, answers or their failures, screens and the clock
together, weakly fair, since one event loop and one pool run them - and that the
probe is sent again and again.  Nothing obliges the broker to return, a client to
call or a process to stay open.  A behaviour of `Edge` has finitely many messages,
and `HealthFollowsBroker` rests on that: publishes that the client goes on
refusing by itself, at a broker that is there, would open the breaker again.

## 5. What is proved

For every value of the constants - any number of workers, sessions, plans,
actors and versions - from `ContentsAssumption`, `PlanAssumption` and
`PolicyAssumption` (contents are plans or the seed, unlawful and unverifiable
plans are plans, the blank name is nobody and may not be permitted).

`StateStore_proofs`: `StoreInv` is `StoreTypeOK`, `ChainUnbroken`,
`InsertedExtendsHead` and two facts without which it is not inductive: no
client has seen a head that does not exist (`SeenReached`), and no two
transactions have the same version inserted (`OneWriterPerVersion`).  The key
lemma, `CommitExtends`, says what a commit does to the chain.  `StoreAction`
names what the store may do in one step, so that the execution path can use
the lemmas without being the store's own specification.

`Transition_proofs`: the argument runs in this order.

1. `Typed`, with `StepTyped` one case per action.
2. `Grows`: tables, log, files and chain only grow, and what a session was
   opened on never changes once opened.  So a fact a gate established about
   them cannot be undone by anybody.
3. `Rests`: a step of one worker leaves the others where they are.  With 2,
   `RestingBehind` carries `Behind(e)` over every step of others.
4. `StepBehind`: each step of `e` itself establishes what `Behind` asks of the
   place it goes to.  Hence `GatesKept`.
5. `CommitWrites` and `NewVersion`: a new version appears only by
   `VerifyResult`, and `Behind` at `commit` says all that `OnlyGovernedVersions`
   and `PlanOnItsBase` ask of it.  `ExecutedOnce` is a consequence: two
   versions of a session would both follow the session's base.
6. `AnswersBacked` strengthens `AnswersTruthful`: a refusal means the plan is
   unfit, hence in no version at any later time either.
7. `Promised`: initial states map to initial states, `VerifyResult` to
   `Execute`, `OpenSession` to `Open`, an approving `Decide` to `Approve`, all
   else to stuttering.

`Ingestion_proofs`, from `EventsAssumption` and `ConsumersAssumption`: none of
the properties is inductive.  `Placed` says that the assigned consumer stands
exactly at the group's offset, one message further while it holds one; hence
`OffsetForward`, and `PassedIsKnown` needs only that what is about to be
committed is known (`Held`).  `OnePlanner` says that between its insert and its
call an event has one planner and no recovery by a consumer: the events table
admits one first insert, so the second consumer on the same message cannot be
there too; hence `PlannedOnce`.  `Undisturbed` says that while nothing failed
only the assigned consumer is at work - all others poll, or are down after a
message they were refused - and an event on record is recovered or in
its hands; hence `UndisturbedIsRecovered`.  Each action is one lemma; reports
and the API's steps are each reduced to what they leave alone (`Reported`,
`Worked`).

`Import_proofs`, from `FilesAssumption`: `ImportFits` makes every step a step of
the store, so `StoreInv` and `CommitExtends` are taken from there; with parent 0
a commit can only make version 1.  `Behind` says what a worker relies on at its
place, `TableMoved` what any step may do to the staging table: ids are fresh, a
row keeps its file, nothing is reopened.  `RestingBehind` carries the first over
the second.  `DecisionsKept` is read off `TableMoved`; that a purged row's entry
is never believed of another row follows from the fresh ids.

`Edge_proofs`, from `TimesAssumption` (sizes and timeouts are positive, and a poll
outlasts the client's delivery timeout, as the configuration has it),
`StreamAssumption`, `EdgeAssumption` and `LoadsAssumption` (a load's recoveries
are among the numbered ones; boards have dates).  `EdgeInv` is five invariants, one
for each part of the state and one for the threads the parts share.

- `FabricInv`: a letter is `reported` exactly while a report of it is parked, and
  a message that never was crowded waits alone and has less of its delivery
  timeout left than its poll has of its own (`LoneWaits`).  So the poll cannot end
  first, and serves that very report: `LoneReportCounted`.
- `PoolFits`: messages, polls and computing recoveries together hold no more
  threads than there are.  `PoolKeeps` counts for the steps that take or give back
  a thread.
- `StreamTyped`: among others that no queue is longer than its limit.
- `RateInv`: `Remembered` pairs the calls admitted in a window one to one with
  entries in the caller's list, so a list no longer than the limit bounds them:
  `RateRespected`, for calls of any number at any times.
- `CallsInv`: what `Resolve` accepts was looked up on the board the call read,
  and is not looked up again: `InjectedOnBoard`.

`AfterReports`, a recursion over the parked reports, is shown to have a value on
every prefix by its least counterexample (`CountsUp`).

`Workbook_proofs`, from `UploadsAssumption` (an upload is any file with cells of
the modelled sorts under the declared columns), `UnitsAssumption` (`MAIN` is a
unit), `RowLimitAssumption`, `NoneAssumption` and `ZoneAssumption` (an empty value
is no number, id, version or zone), and `QuotedAssumption` (an empty value is no
formula, a text behind an apostrophe is not empty, and a unit behind one is a
unit).  `WorkbookInv` says what each phase leaves behind for those after it: the
sheets are there, the tables are what their rows read as, keys are unique,
references found, semantics in order; and `BuiltFromTables`, that a state is what
`NewState` makes of the tables, with no error and no broken record.  From it:

- `NothingLost`: `CountsAgree` matches rows and records one to one, by their keys
  or by date and unit.
- `NoCascade`: an id that a finding calls unknown is in no row of the sheet it
  refers to, refused rows included.
- `ParsedIsLegal`: the records of the state, its references, roles and windows,
  and its days in ascending order, a day's call before its wrap.  The order of
  days by date and unit is a strict total one, so `FiniteListing` gives the
  sequence; scenes without a loop of prerequisites can be shot in some order by
  `FiniteSchedule`.
- `ClosuresKept`: a permit that was read does not leave its day, so the days left
  out stay out.
- `UploadExportKeeps` shows that an export is itself a file of the modelled sorts,
  which is why every one of these results holds of the second parse as well.
- `ReimportsTheSame`: `ReimportInv` follows the second parse.  It says that the
  state behind the export is `Sound` - its rows are ones the reader takes, within
  the sheets' limits, pass every check, and lead back to its records -, that each
  phase has read exactly these rows, and that nothing but E016, its size or the
  time it took, was held against the file.  The argument has two halves.
  Whatever is sound comes back: `WrittenRead` for one cell, `RowsReadBack` for a
  sheet, `TablesBack` for the tables, `StateReturns` for the state; each phase
  keeps `ReimportInv` (`ReadReturns` .. `WarnReturns`).  And whatever a parse
  builds is sound
  (`StateIsSound`): a value that was read is one its column takes again
  (`ReadWritten`) and is written as itself, since the property excepts the texts
  the export guards (`WrittenAsIs`), so
  scenes, people, equipment and windows are exported as the rows they were read
  from (`ListsWritten`); a permit as the one pair of clock times it has
  (`PermitBack`, a permit with only one time as a whole day); a day with its night
  spelled out (`NightIs`, `DayWritten`); and a moment is the same in the inferred
  zone, because one offset stands for all of them (`ZoneAgrees`).  `ReimportInv`
  was checked on the instance of `workbook` before it was proved.

`Planning_proofs`, from `DatesAssumption`, `IdsAssumption`, `BasesAssumption`,
`HoursAssumption`, `MinutesAssumption`, `RatesAssumption`, `EventsAssumption`,
`HintsAssumption` and `BufferAssumption`: ids, dates, hours and rates are
integers (rates may be negative), a scene takes some minutes, ids, casts and gear
are finite, and a base is a sequence of rows with calls before wraps and each
scene on at most one of them - not necessarily one row per date, nor a lawful
schedule.  No domain type enforces that last part: the import refuses a scene on
another date or unit than where it was first (E009), and lets two rows of one
unit on one date both name it, which the models of planning leave out.

- `ScenesKeptHolds`: `Holds` says that a board's days have the scenes of the
  base, each once; one lemma per kind of move shows it is kept, whatever the move
  names, and `OpenedHolds` that the dictionary of days starts with it - which is
  where one row per date is needed.
- `AbsenceHonouredHolds`: `JudgedInv` says that the violations recorded of a plan
  are those of the state it leads to from the projected one; `SameDaysApplied`,
  that this state has the same days as the one it leads to from the real state;
  `AbsentIsViolation`, that C003 sees everybody who is away.
- `RecoveryInvariant`: `PlanInv` says what is recorded of each plan and where the
  plan came from - a family's proposal, or the repair of an evaluated plan of
  round one (`Recorded`) -, what is still to be evaluated (`Rounds`), and that an
  execution stands where its moves have led it (`Execution`).  It was checked on
  the instance of `planning` before it was proved; one lemma per action keeps it.
- `ExecutionAgreesHolds`: each family is shown to propose only moves of scenes and
  days that exist, in an order in which nothing undoes an earlier move but a
  second move of the same scene (`DeferOffers` .. `CompressOffers`,
  `RepairedOrderly`).  So a plan of the projected state is a plan of the real one,
  no move raises, its rows meet the same rules with fewer absences (`JudgedOnReal`)
  and every move but the one exception is seen on the final board
  (`PlanIsShown`), where V1, V2, V4 and V5 look.
- `RepairsHealHolds`: a repair starts on the board its plan ended on
  (`RepairedBoard`).  One that moves a scene puts it on a day nobody of its cast is
  away (`AvailabilityHealed`).  One that shifts a call shifts it as far as the rest
  asks and leaves hours on the day, and the scenes it sheds go elsewhere
  (`TurnaroundHealed`, `HoursRemain`).
- `FrontierCoversHolds`: delay, cost and risk are integers (`ScoreIs`, which sums
  over finite sets by `SumIs`), hence `Dominates` is a strict order on a finite set
  of plans, and `FiniteCovered` puts above each plan one that nothing beats.

A fold or a recursive function over a list has no induction the provers could
use as a rule with a formula in it.  `FiniteOrders` replaces it: a finite set, an
interval of numbers among them, has a least element (`FiniteMinimal`,
`LeastNatural`), so the least place at which a claim would fail is a
contradiction; `Upward` states this once for sets of places.  A fold is then a
sequence of values, one after each element (`BoardsExist`, `SheddingExists`,
`KeepingExists`), and what each step keeps, the last value has.

Proved and not run again: `StoreTypeOK`, `InsertedExtendsHead` and `AppendOnly`
of the store, `OnlyCommitsExtend` of the execution path, the types of the import.

Only model-checked: `ExecuteAnswered`, `Drained`, `RequestAnswered`,
`HealthFollowsBroker` and `ScreenInformed` (liveness under fairness, which is out
of the prover's reach), and the claims of the documentation that the runs refute.

## 6. Not modelled

The components marked `not_modelled` in `PROJECT.json`, with the reason each:
the agent's wording, the demo reset, configuration and wiring, sample data, the
rest of the web console, scripts and deployment.
Within the modelled parts: the demo reset, which deletes a production (an
administrative action that suspends every rule above); failures of the
artifact store while sheets are drawn, which end the request like a crash at
that step; and the wording of audit entries and responses.

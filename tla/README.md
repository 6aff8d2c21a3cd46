# A TLA+ verification of data-platform-lab

These modules model the stateful core of the repository: the code that has to
keep several stores in agreement while processes race, fail, die and are
started again. TLC checks every model on small instances; TLAPS proves
every safety property that the runs check for every value of the constants.

Paths below are relative to `src/python/src/data_platform_lab/` unless they
start with `docs/`, `sql/` or `javascript/`.

## 1. Inventory

### 1.1 The components

The platform is a Python package with a JavaScript twin of its older half. Four
groups of components keep state that outlives a process.

| Component | State | Operations | Interacts with |
| --- | --- | --- | --- |
| Recovery pipeline (`recovery/pipeline.py`) | none of its own | `process` one message | Kafka, PostgreSQL, S3, Iceberg, in that order of trust |
| Kafka adapter (`broker/kafka.py`) | one open consumer | publish, consume one, acknowledge, close | the group's committed offset |
| Run store (`metadata/postgres.py`) | run snapshots, advisory claims | claim, release, save, get, list | the session that owns the claims |
| Iceberg store (`iceberg/store.py`) | tables | ensure, append, scan | the catalog |
| Blob stores (`storage/`) | objects | put, get, exists, list | local files or S3 |
| Registry handoff (`ingestion/registry_handoff.py`) | ingestion receipts | verify a checkout, ingest pinned objects | blob store |
| Curation (`curation/ons_pay.py`) | Parquet outputs, curation receipts | curate one ingestion | blob store, output root |
| Refresh (`orchestration/ons_pay_refresh.py`) | refresh audits | preflight, then ingest and curate a batch | the two above |
| Catalog (`serving/catalog.py`) | none (reads receipts and Parquet) | list, get, verify, query | everything that serves |
| Release store (`serving/release_store.py`) | event files, pointer, lock | status, plan, activate, roll back | catalog, comparison |
| Publication (`serving/publish_*.py`) | rows or documents in a sink | plan, write, read back, accept | PostgreSQL, MongoDB |
| Evidence archive (`serving/publish_evidence.py`) | one record per attempt, lock | prepare, record, history | publication |
| Monitor, health and its history (`observability/ons_pay_*.py`) | assessments, text files | assess, record, trends, alerts, replay, compare policies, gate | release store, catalog, refresh audits |
| Incremental ETL (`transform/incremental_etl.py`) | checkpoint, outputs, manifests | one run | input directory |
| Pipeline runner (`orchestration/runner.py`, `javascript/src/orchestration/runner.js`) | one process's steps and results | add steps, run them with attempts and skips | sensor demo, customer ETL |
| Batch programs in both languages (`ingestion/`, `streaming/`, `warehouse/`, `sensor_demo.py`, `orchestration/customer_etl.py` and their twins) | output files, manifests, a SQLite database | one run each | input files, HTTP, SQL scripts, manifest writer |
| Run tracker, benchmark, snapshot diff, validation | none that a decision depends on | counters, timings, pure functions | any pipeline |
| Serving API, command lines, demos, SQL | none | read-only views, parsing | all of the above |

### 1.2 What makes it hard, and what has to hold

* **Recovery.** Nothing spans the four services: each call can fail, lose its
  answer or be the last one of a process, and a second worker may have the same
  message. The exclusive claim belongs to a database *session*, which can end
  without its worker noticing. It has to hold that the offset is only committed
  behind a message that all stores have, that a success is final, that a message
  that cannot be decoded blocks rather than vanishes, and that rows are unique.
* **Releases.** Operators preview without a lock and decide under one; a
  decision is two directory entries, each durable only after its own `fsync`.
  The history has to stay readable, a reported decision must not be lost, and
  no decision may be made on a generation its operator has not seen.
* **Publication.** The sink is remote and shared, one of the two sinks has no
  transactions, and the outcome is recorded in yet another place. One attempt
  must have one outcome, a reported outcome must stay, and "accepted" must mean
  that the sink had the vintage whole.
* **Refresh.** Runs share an object store whose writes have a fixed temporary
  name, read the handoff twice, and leave partial results behind. Receipts and
  audits have to be true, the catalog has to stay readable, and reruns have to
  get through.
* **Incremental ETL.** Nothing locks, the checkpoint is overwritten in place and
  outputs are named for a second. No event may be skipped that was not written,
  and duplicates have to have a cause.
* **Health history.** Operators assess without a lock while releases move, data
  change and refreshes end, and record under the release lock. The archive has
  to stay one its strict reader accepts, what belongs to an earlier release must
  not grow behind its successor's back, and alerts, replays and comparisons of
  policies must be about the records that were there.
* **Batch programs.** They write several files one after the other into
  directories that earlier runs filled, with a manifest at the end, and the two
  languages handle failures differently. Success has to mean that everything was
  written by this run with every input accounted for; a rerun of the warehouse
  must not count facts of the runs before it; an event is late only against what
  came before it.

`PROJECT.json` lists the hazards line by line with the properties that cover
them.

## 2. Modules

| Module | Models | Composition |
| --- | --- | --- |
| `Recovery` | workers in `process()` and the four services | refines `IngestionLedger` |
| `IngestionLedger` | abstract: every position lands once, in order | |
| `RecoveryProofs` | theorems about `Recovery` | extends `Recovery` |
| `ReleaseStore` | operators, lock, event files, pointer, power loss | refines `ReleaseLedger` |
| `ReleaseLedger` | abstract: one history of valid decisions, settled or not | |
| `ReleaseStoreProofs` | theorems about `ReleaseStore` | extends `ReleaseStore` |
| `Publication` | publishing processes, both sinks, evidence archive | publisher, reconciler, gate and archive in one module |
| `PublicationProofs` | theorems about `Publication` | extends `Publication` |
| `Refresh` | refresh runs, local store, curation, catalog | handoff, store, curation and catalog in one module |
| `RefreshProofs` | theorems about `Refresh` | extends `Refresh` |
| `IncrementalEtl` | ETL runs, checkpoint, outputs, manifests | |
| `IncrementalEtlProofs` | theorems about `IncrementalEtl` | extends `IncrementalEtl` |
| `AlertRules` | alert policies, evaluation of a window, replay, comparison, gate (operators) | |
| `AlertRulesProofs` | lemmas about the evaluator of alerts | extends `AlertRules` |
| `ReleaseHealth` | assessors, the health archive, the alerts' observer, power loss | extends `AlertRules`; its decisions are those of `ReleaseLedger` |
| `ReleaseHealthProofs` | theorems about `ReleaseHealth` | extends `ReleaseHealth` and `AlertRulesProofs` |
| `Jobs` | what all batch programs share: files, manifest, failures, deaths | |
| `SensorStream` | `process_stream` | extends `Jobs` |
| `PipelineRunner` | `Pipeline.run` with the sensor demo, the customer ETL, the example | extends `SensorStream` |
| `ApiIngestion`, `CsvIngestion`, `Warehouse` | the programs of these names | extend `Jobs` |
| `BatchJobs` | all batch programs beside each other | extends the five above |
| `BatchJobsProofs` | theorems about `BatchJobs` | extends `BatchJobs` |
| `MC...` | instances for TLC | extend their module |

### 2.1 Recovery

Each worker has a program counter `pc`, named for the call it makes next, and
`at`, the offset it processes. Every call of `process()` to a service is one
action: `AcquireClaim`, `ReadPrevious`, `SaveRunning`, `StoreRaw`, `Decode`,
`Scan`, `Append`, `SaveSuccess`, `SaveFailed`, `Acknowledge`, `ReleaseClaim`.
The inner `try` is the set `Trying`: a failure there goes to "failing", where
the failed snapshot is saved; a failure of the database outside it goes straight
to "releasing", the `finally` clause. `AppendThenFail` is both a lost answer of
the catalog and the crash that the acceptance test injects.

The environment can `Crash` a worker (its session and its consumer end with
it), end its session while it runs on (`LoseSession`: the server frees its
claims, later database calls fail) and `Evict` its consumer (its commit is
refused; commit refusals for any other reason look the same). One ingestion id
stands for one offset, and `rows` counts the Iceberg rows that carry it.

### 2.2 Release store

An event file is named by the SHA-256 of its contents and contains the SHA-256
of its predecessor, so a hash stands for the whole chain behind it; the model
identifies an event with that chain and the pointer `head` with the chain it
selects. `ValidLink` is what `_load` demands of each event, `Readable` that all
files of the chain exist. `Eligible` is both the preflight and the second check
under the lock. `LinkEvent`, `SyncEvents`, `ReplaceHead` and `SyncHead` are the
four durable steps of `_apply`. `Interrupt` is an exception or a killed process
at any of them; `PowerLoss` keeps any subset of the unsynced event entries and
any pointer between the last synced one and the present. `CatalogTrusted` is
the catalog's check, which covers all vintages.

Creation times make events distinct; `clock` counts the decisions and stands
for them. New directories are taken to be durable as soon as a file in them has
been synced, which `_ensure_directories` does not see to; that is listed as a
hazard without a property. The archive of the health records creates its two
directories in the same way (`observability/ons_pay_release_history.py:519`), and
`Tell` of `ReleaseHealth` makes the same assumption.

### 2.3 Publication

`sink` holds a value per record id: "good" is what the plan says, "unsafe" what
the reconciler refuses to compare. PostgreSQL is written at once (`Commit`, or
`CommitFails` with and without effect), MongoDB id by id. `Build` composes the
archive record from receipt, report and failure code as `_build` does, and
`Consistent` is what `_validate` demands. `told` collects what operators have
been told, by `SyncRecord` or by `Replay`. `Tamper` is any other client of the
sink; `touched` marks a sink that was changed since it was last found matching.
The read-back is one step although MongoDB reads it with a cursor. A
configuration error takes the same path as a database error and is not told
apart. `--verify` and previews write nothing and are not actions; injected
handles, which are not closed, are not modelled.

### 2.4 Refresh

A handoff is a record of the vintage it pins and its text. A run plans a batch
(`Start`, `Refuse`), and for each file reads the handoff *again*, puts or reuses
the object, saves the ingestion receipt, curates, publishes the outputs one by
one and saves the curation receipt; the audit comes last (`WriteAudit`, or
`Fail` with the audit of a failure, or `Kill` without any). `put_bytes` is
`OpenTemp`, `WriteTemp`, `ReplaceTemp`; a `File` record knows the runs that have
it open, so that a run keeps writing to its file when another has renamed it
over the key, and what a run wrote before another truncated the file is lost.
`collided` records that two runs were inside `put_bytes` of one key at once,
`moved` that a handoff file came to pin another vintage, `refusals` failures
without an outside reason. Curation is deterministic, so an existing output is
always the same; source checkouts are what the pins say.

### 2.5 Incremental ETL

A run loads the checkpoint, reads the input, and then opens and writes its
output, truncates and writes the checkpoint, and writes the manifest, each a
step. `Kill` leaves a partial output, a torn checkpoint or an unreadable manifest
(`NoManifest`) behind. Two runs may write to the file of one second (`reused`) or
save over each other (`overlapped`): the one that closes last may leave the end
of the longer document behind, which makes the file unreadable.

A line is an id and whether `transform_event` accepts it, and of several lines
with one id the first decides (`Ready`); new files sort before or after the
others. There are also odd lines, which stand for whatever makes reading or
filtering raise: JSON that is no object, an `event_id` that cannot be hashed,
bytes that are not UTF-8. A run that meets one ends there (`ReadRaises`). Ids are
strings or numbers, and `save_checkpoint` cannot sort a mix of them
(`SortRaises`), behind the output it has just written.

### 2.6 Release health

`Begin` reads the clock, the pointer and the data of the active vintage,
`ReadAudits` the refresh log, and `Review` plans a rollback to one older
generation after the other when nothing but the missing pay rate failed, as
`assess_ons_pay_release` does. `Begin` and `Review` are one step each where the
code reads several times (`observability/ons_pay_release_health.py:135-151`); a
decision that falls between these reads makes the assessment be dropped at the
end either way, while data that change between two reads of one step are seen
before or after it, not across. `Finish` is the stable check at the end, which
drops an assessment whose release has been replaced. The `DataFailures` and
`AuditFailures` are the monitor's checks. `Record` holds the lock of the release
writer and links the record after the checks of `_sample` (`SampleOk`, in its
parts `BoundTo`, `CandidatesOk`, `AdviceOk`); `Tell` syncs the directory and
returns the hash. `Interrupt` and `LosePower` may come between. The observer
reads the pointer (`StartAlerts`), then the archive (`ReadArchive`), and
`AlertRules!Evaluate` gives the six checks of its report. `Replay` evaluates
every prefix of the archive, `Compare` two policies over the same prefixes, and
`GatePasses` is the regression gate on top.

Decisions come from `ReleaseLedger`, which `ReleaseStore` implements; a decision
keeps the lock until it is settled. The clock is taken to be monotonic and to
give every reader a time of its own: the code refuses an archive with a record
from before its decision, which a clock stepped back by more than five minutes
would produce, and orders equal times by hash. Hashes and canonical JSON are
abstracted, a record is what it says. A power loss that takes back a decision
leaves its records behind and the archive unreadable (`lost` remembers those
decisions), since decisions and records are synced one by one. The missing
directory for which `trends` returns an empty history is an empty archive.

### 2.7 Batch programs

A behaviour of `BatchJobs` is a number of runs of one program in one language.
`Start` gives each run a second, its run id, which two runs may share. What a run
reads decides the sequence `todo` of files and rows; `WriteFile` writes them one
by one, `WriteManifest` comes last. `WriteFails` has one disjunct for each way
the programs treat an exception of a write: the step of a pipeline raises into
its runner, the API program in JavaScript notes the error and goes on, the
warehouse in Python goes to its manifest, the others let it through. `Die` ends
the process anywhere. `disk` and `manifests` keep what earlier runs left.

* `SensorStream`: `Processed` is the loop of `process_stream`, a recursive
  function over the lines whose step is `Judged`, that is `Accept` or
  `DeadLetter`. A line has one of eight kinds, chosen so that the two languages
  and the sensor demo disagree about some: a timestamp without a zone, one instant
  spelled in two zones (two keys), a blank field, an array, a scalar, torn JSON.
* `PipelineRunner`: `StepSucceeds`, `TryAgain` and `SkipOrFail` are the outcomes
  of one attempt. `MustRaise` says what a step cannot do with the lines it is
  given (a scalar in both languages, an array in Python, torn JSON in the Python
  demo), and any other step may fail.
* `ApiIngestion`: one action per page; the source may gain a post in front or
  lose its first one while a run reads it. A record that is no object makes the
  transformation raise to the caller (`TransformRaises`): a null in both
  languages, a number only in Python, which has written the raw file by then.
* `CsvIngestion`: a cell is its text and the name of the column it came from, so
  that a cell under the wrong header can be told. Headers are compared in standard
  form, but JavaScript looks for the required ones as they are written (`spaced`),
  and Python takes a blank first line for a header without columns.
* `Warehouse`: one stage per table and script. A dimension row that is replaced
  gets a new surrogate key, the number of its replacements; facts keep the key
  they were written with. `node:sqlite` enforces foreign keys (`Enforced`).
  A stage that fails leaves nothing in Python and any part of its file in
  JavaScript (`Parts`); a failed query leaves Python with the rows of the tables
  counted so far (`Counted`). `dim_date` and its foreign key are not modelled: its
  rows are the days of 2024, added with `INSERT OR IGNORE` and never replaced, and
  a fact of another day that `node:sqlite` refuses is a stage that fails.

A run id that the code takes at the end of a run, and not at its start, is the
same second here. The rows of the stream aggregates and the amounts in the
warehouse follow from the rows the model keeps. Where one definition stands for
the same code in several programs (those of `Jobs` above all), the `map` of
`PROJECT.json` names one of the places.

## 3. What the runs check

| Run | Instance | Shows |
| --- | --- | --- |
| `recovery` | 2 workers, 3 messages (the third malformed), 1 fault, 2 lost sessions | commit order, claims, poison, finality, bounded duplicates, progress |
| `recovery_ledger` | the same with 2 faults and no lost session | refinement of `IngestionLedger` |
| `recovery_duplicate` | 1 message, 1 lost session | the documented single row becomes two |
| `release_store` | 2 operators, 2 vintages, 3 decisions, 2 faults, 1 damage | readable history, kept decisions, lock, expected generation, refinement, progress |
| `release_status` | 1 decision, 1 damage | status fails for a vintage nobody released |
| `publication` | 2 processes, 1 attempt id or none, 2 records and a foreign one, 2 faults, 1 tampering | one outcome, kept reports, accepted is whole, evidence composes |
| `refresh` | 3 runs, 2 vintages of one source, 2 texts, 2 files, 2 outputs, 1 fault, 1 rewrite | true receipts and audits, readable catalog, reruns resume |
| `refresh_put` | the same without faults | a key holds a half-written object |
| `incremental_etl` | 2 runs, 2 string ids and a number, 2 lines, 2 seconds, 1 fault | nothing skipped unwritten, caused duplicates, true manifests, catching up |
| `incremental_etl_crash` | 1 run, 1 fault | a crash leaves no checkpoint |
| `release_health` | 2 assessors, 2 decisions, 2 audits, clock up to 4, 1 fault | an archive its reader accepts, final baselines, alerts about what was assessed, faithful replays, sound gate |
| `batch_jobs` | 7 programs in 2 languages, 2 runs each, 3 faults, 14 streams, 5 directories, 3 newcomers, 2 data sets | success is whole, facts counted once, lateness against the past |

**Why the bounds suffice.** Two actors are needed for every race here, because
the shared resources (a claim, a lock, a file) distinguish only the holder from
somebody else; `Refresh` has a third run because a collision of two leaves a
broken object that only a later run meets. Three messages give a finished one,
one in flight and a malformed one that must stop the log. Three decisions give
a bootstrap, a promotion and a rollback, the shortest history that uses every
action. Two records let a MongoDB batch stop half way. Two lines give two events,
with ids of one type or of two, two versions of one event in either order, or an
odd line in front of a sound one or behind it. One fault is enough to leave any partial state behind;
a second lets the recovery fail too. In `ReleaseHealth` two decisions give an
earlier generation, a drift and a candidate for a rollback, and four times let a
decision fall between two assessments. In `BatchJobs` the second run meets what
the first left, whole or broken, in the same second or a later one; three faults
use up the attempts of a page or a step; a page holds two of four posts, so that
a run reads two or three pages; a negative threshold of lateness is one that the
two languages treat differently, and a row may be longer or shorter than its
header.

**Properties in words.** Each is stated above its definition. Several are
conditional, and the condition is part of what they say: duplicates in
`Recovery` are bounded by lost sessions, `ReceiptMeansStored` and `RerunsResume`
exclude collisions of the temporary file, `SkippedIsWritten` and `ManifestIsTrue`
exclude two runs in one second, `DuplicatesNeedFaults` runs that overlap and ids
of two types, `EventuallyRecorded` an event with a refused line, an odd line
anywhere, ids of two types and runs that overlap for ever, `CatalogNeedsOneText` excludes a vintage ingested from two texts,
`ReplayReproducesLive` assessments recorded late, `ArchiveVerifies` and
`BaselineIsFinal` decisions that a power loss took back, and `SuccessIsWhole` a
source that changes under the pages. `CountedOnce` is about the queries that
join a dimension. Without its condition each of them fails, and the
documentation admits those failures for `SkippedIsWritten` and
`CatalogNeedsOneText`.

**Fairness.** `Recovery`: workers keep being run, and one that again and again
finds its session gone is restarted (strong fairness of `Restart`, weak fairness
of its own steps); faults and publications are never forced. `ReleaseStore`: a
process that is in the middle of an operation goes on, and a waiter for `flock`
that is passed over again and again gets the lock some time (strong fairness of
`Lock`), which the kernel's queue of waiters provides. `IncrementalEtl`: a run
under way goes on and a scheduler starts one when none is under way. The other
modules state no liveness: their programs are started by an operator and end.

Where a cfg switches deadlock checking off, the system may really stop: all
bounds are used up and nothing is left to process.

### Disagreements with the documentation

1. `docs/platform-recovery.md:53` promises that a replay never appends a second
   row. The claim ends with its session, and scan and append are two calls, so
   a worker that lost its session can append after its successor has.
2. `docs/ons-pay-release-lifecycle.md:148` says that reading the history
   re-verifies the currently active Parquet. The catalog re-hashes every
   vintage, so any damaged one makes the status fail, in the active one's name.
3. `storage/local.py:88` calls `put_bytes` atomic. It is for one writer.
4. `docs/04-incremental-etl-pipeline.md:91` says that after a crash the
   checkpoint reflects the previous state. A crash during the save loses it.
5. `docs/04-incremental-etl-pipeline.md:99` says that an event without the
   required fields is skipped and the others are processed, and the docstring at
   `transform/incremental_etl.py:199` that processing continues. That is true of
   objects. A line that is JSON but no object is appended at line 121 and raises at
   213, an `event_id` that is an array or an object raises at 214, bytes that are
   not UTF-8 at 116, and ids of two types at 87. The input does not go away, so
   every later run raises at the same place and no new event is recorded; with ids
   of two types each of them writes its output once more. No run of its own:
   the model has these lines, and `EventuallyRecorded` and `DuplicatesNeedFaults`
   say what holds without them. Nor is a corrected line of an event picked up that
   sorts behind the refused one, because the first line of an id wins (214).

Seen while modelling, and part of the models, without a run of their own:

* `docs/02-api-ingestion-pipeline.md:74` promises two retries on HTTP 5xx. Python
  raises on the first HTTP error of any kind (`ingestion/api_pipeline.py:75`);
  JavaScript retries. The same document (line 78) lets records without fields be
  skipped, but one that is no object raises.
* `javascript/src/streaming/processor.js:374` leaves the manifest's status to its
  default: an input that cannot be read gives a summary "failed" and a manifest
  "success" (`docs/platform-conventions.md:129`).
* `orchestration/customer_etl.py:72` says that `validate` "raises if any critical
  check fails"; it returns the failed report, and the step succeeds.
* `ingestion/csv_pipeline.py:131` merges the rows of all files under the header of
  the first, whatever the order of their columns; the JavaScript twin reorders
  the cells and refuses other columns.
* `docs/warehouse-cli.md:186` says that a rerun on a file duplicates fact rows. In
  Python it does, and queries that join no dimension count them twice; in
  JavaScript the second run is refused by the foreign keys.
* After a failed fetch the API program leaves nothing in Python, and two empty
  files and a failed manifest in JavaScript.
* Duplicates are dead letters of the sensor demo in Python only, whose manifest
  lists all five files also when the run failed before it wrote any.
* `assess --record` exits with 2 when its text file cannot be written, although
  the record is in the archive.

## 4. What is proved

All theorems are for arbitrary constants that satisfy the named assumptions of
the modules (sentinels are not members of the sets they stand beside, bounds
are natural numbers, malformed offsets are offsets, workers are finite, batches
are not empty, foreign record ids are not in the plan). The inputs have the shape
the code gives them when it has read them: a refresh that succeeded has completed
a vintage, event times of a stream are naturals and its threshold any integer, a
cell of a CSV row that has a column carries that column's name, a page and the
bound on pages are positive, what comes into the API is a post, and a warehouse
file says what `Dataset` can say, of customers that may or may not be in it. Event
ids are strings or numbers, and an odd line has none (`IdsAssumption`,
`LinesAssumption`).

**`RecoveryProofs`.** The inductive invariant `IInv` adds to the type invariant
that claims, live sessions and program counters agree (`ClaimsAgree`), that a
worker with a live session past the reading of the previous run still sees no
success (`ReadIsCurrent`), what each stage has achieved (`StageReached`), that
everything before a worker's offset has succeeded (`PrefixSucceeded`) and that,
while no session is lost, a scan that found nothing is still right at the append
(`ScanIsCurrent`). `AcknowledgedIsDurable` needs the prefix property because
`Acknowledge` commits a position, not a message: everything before it must have
succeeded already when the worker polled. `ClaimIsExclusive`, `PoisonBlocks` and
`SuccessIsFinal` follow from it. `DuplicatesNeedLostSessions` needs a counting
argument on top: rows of an offset, plus the workers that are about to append
to it after a scan that is still right, never exceed one more than the sessions
lost. `LedgerImplemented` proves, under `MaxSessionLoss = 0`, that every step is
a step of the ledger or leaves it unchanged.

**`ReleaseStoreProofs`.** `IInv` says that only the lock holder is past the lock,
that what it is about to publish extends the pointer's chain by one decision
that the abstract history allows (`ChainsFollow`), and that every event behind
the pointer is valid and synced (`HeadSound`), which is stronger than being
readable and is what makes it survive `PowerLoss`. From it follow `OneWriter`,
`HistoryReadable`, `AppliedSurvives`, `MovesFromExpected` and the refinement of
`ReleaseLedger`.

**`PublicationProofs`.** `EvidenceByStage` says what a process has gathered at
each stage of `_execute`: nothing before the write, a receipt before the
read-back, and from then on evidence that is `Judged`, that is, broken by a
failure or ended in a verdict; once linked, the record it builds is in the
archive. `EvidenceComposes` follows from `Judged`; `ToldIsKept` needs the linked
record, because the outcome is told after the directory is synced. For
`AcceptedStays` the archive is not enough: a process that has passed its
read-back and not yet recorded must find the sink as it was (`PassStays`), and
the proof shows that writes of the plan leave a whole sink whole
(`WrittenKeeps`), so that only other writers can spoil it.

**`RefreshProofs`.** `RunTrue` says what a run relies on: its list of completed
vintages is vouched for by receipts and outputs, the handoff it curates has been
ingested, the outputs it has dealt with exist, and its plan is what its files
say unless one was made to pin another vintage. Receipts and outputs are never
taken back (`Grows`), so what was vouched for stays so. `CatalogNeedsOneText`
and `AuditIsTrue` follow. The object store has an invariant of its own, `Calm`,
which holds as long as no two runs have filled one temporary file at once: runs
that fill are `Apart`, each run finds in the store what its stage counts on
(`Served`), and an object is whole as soon as it is there, because what
`ReplaceTemp` moves over the key was filled by the run that truncated it last. A
run that dies leaves a partial file only under the temporary name. From it
follow `ReceiptMeansStored`, and `RerunsResume` because none of the conditions
of `Refused` can hold.

**`ReleaseHealthProofs`.** Decisions are made at times of their own
(`HistoryOrdered`), a power loss records what it takes back, and so a chain that
was once active begins the history or is in `lost` (`StandingStays`). A record
was made while the decision it names was the newest one and before the next was
taken (`Recorded`): `BaselineIsFinal` follows, because a later record names the
active release, which no release the observer has read is ahead of. For
`ArchiveVerifies`, `Sound` follows a report from `Begin` to `Finish` and shows
that the candidates the review lists and the advice it ends with are what the
validator of the archive asks for; that the review picks the newest remaining
generation needs a largest element of a bounded set, from the well-foundedness
of the naturals. The remaining properties are about the evaluator of the alerts.
They need that no two reports that were begun carry the same time (`TimesOwn`),
so that "the last n samples" names a set; with it `OkMeansAssessed` follows from
what a check that is "ok" rests on (`OkRestsOnAssessment`), and
`ReplayReproducesLive` because the same window looked at later, for the same
release, gives the same checks except for the age of its newest sample
(`SameWindowLater`). `LooseningAddsNoAlert` holds
check by check, because each limit is only compared with a quantity that the
policy does not change (`LooserAlertsNoMore`); that a drift is an integer at all
needs the sum of a finite set, which `AlertRulesProofs` gets from a smallest set
without one.

**`IncrementalEtlProofs`.** Unless an output file is opened twice (`reused`),
every run that has a file has it for itself, empty or with all it transformed
(`OwnFiles`); files then only grow (`FilesGrow`), which gives
`SkippedIsWritten` for the checkpoint and for what runs have loaded from it, and
`ManifestIsTrue` because a finished file is not written again. Both hold with
runs overlapping. `DuplicatesNeedFaults` is about runs that do not overlap and
allows reuse; it counts: an event that the next checkpoint will not make runs
skip has at most as many copies as there were faults, one that it will has at
most one more (`CopiesBounded`), and a kill pays for the copy it leaves behind. A
run that cannot sort its ids would leave one that nothing pays for: the proof
shows that every id a run or the checkpoint holds is that of an accepted line of
the input (`FitOnly`), so that with ids of one type sorting never raises. A run
that an odd line stops has written nothing.

**`BatchJobsProofs`.** A loop over an input is a recursive function on `0 .. n`;
`Upward` and `LoopRuns` show by a smallest counterexample that it has a value for
every n that follows from the one before, and `LoopStays` that what a step keeps
holds of all of them. For `process_stream` this gives a closed form
(`Judgement`): the accepted lines are the first valid ones of their keys, the
watermark is the latest of them, and a late line is behind the watermark of the
lines before it; `JudgedAgainstPast` is that form read at the end. For the
warehouse `Staged` says what each script has brought about: a dimension that was
loaded again has keys to which no fact refers yet (`FreshCustomers`,
`FreshProducts`), and the facts loaded after it are joined exactly once
(`OrdersOnce`, `ItemsOnce`). Facts of earlier runs keep keys that no dimension
row carries any more, which is why `CountedOnce` holds after any number of runs. `SuccessIsWhole` needs `Whole`, one part for each
kind of program. Common to all (`Plan`, `Writing`, `ManifestSays`) is that a file
of the run is either still on its list or on disk as this run wrote it, so that
a list that has become empty leaves nothing of an earlier run behind, and that a
manifest of success is written last. `Streamed` ties the files to the outcome of
the loop, `Fetched` says that the pages read are a prefix of what the API holds
while it does not change, `Merging` that a merge that succeeded had a directory
of the instance before it (that its rows fit the header and are all different is
`UniqueIsClean`, from the loop that merges them), and `Stepping` which steps of a
pipeline have finished and what they had written when a later one starts.

**Only model-checked.** The liveness properties `EventuallyAcknowledged`,
`WaiterAnswered` and `EventuallyRecorded`, which rest on fairness and on ENABLED,
both out of the provers' reach. Every other property of a passing run is stated
by a theorem; the runs that expect a violation check statements that are false.

## 5. What is not modelled

The components with status `not_modelled` in `PROJECT.json`, each with its
reason: read-only views, pure functions and predicates, reports, timings,
command lines and demos. In the modelled components the data is abstracted: SQL
expressions, Parquet, JSON and digests are taken to work, and a digest
identifies its contents. The JavaScript twins of the storage adapters are not
used by anything concurrent in that language.

## 6. Plan

In this order:

1. **Directory durability** in `ReleaseStore` (new directories and their
   parents), with the proofs that go with it.
2. **The JavaScript variant of `IncrementalEtl`**: output names with
   milliseconds, deduplication after the checkpoint.
3. **Comparison of vintages** (`serving/ons_pay_compare.py`) as operators whose
   verdict replaces the constant `Passes`, and the snapshot diff.
4. **Proofs**: the safety properties are done. What is left are the proofs that
   items 1 to 3 will need, and that the decisions of `ReleaseHealth` are steps of
   `ReleaseLedger`, which the model states by construction.

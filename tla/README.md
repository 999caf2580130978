# Verification of the UrbanView backend

TLA+ modules of the parts of UrbanView whose correctness depends on the order in which processes,
transactions and messages meet: the job queue, the publish pipeline, the way of a planning value from an
extraction run through the review queue to the served map, the geometry staged beside it, the expert orders, sign-in and its mail, the
market figures and their dated versions, the register of documents, the panel's cache, the geocoder's use of its provider and the feasibility
figures a visitor recalculates. TLC checks them on
small instances (`tlc -workers 2 -config X.cfg MCModule.tla`), TLAPS proves the central invariants for
every value of the constants (`tlapm XProofs.tla`). `PROJECT.json` lists the runs, the mutants that show
each property can be broken by a plausible bug, the source lines of every definition, the hazards and the
findings.

## The system

UrbanView (Podgorica, proof of concept) shows what the planning documents allow on a parcel. A FastAPI
backend (`src/backend/api`) serves the map client and an admin console; Celery workers
(`src/backend/jobs`) read documents, prepare geometry and publish; PostgreSQL/PostGIS holds all state,
an S3 bucket the files and tile archives, Redis is the broker and the panel's cache.

| Component | State | Operations | Interacts through |
|---|---|---|---|
| Job queue (`jobs/enqueue.py`, `jobs/base.py`, `api/services/jobs.py`) | `pipeline_jobs` rows; broker messages | enqueue, dispatch, run, retry, fail, manual retry | every other background part runs as a job |
| Extraction runs (`jobs/extraction_runner.py`, `core/extraction/runs.py`) | `extraction_runs`, checkpoints, staged items | queue, start, steps, write items, fail | job queue; the review queue reads the items |
| Review (`api/services/review.py`) | `review_state`, `superseded_at` of items | approve, amend, reject | publish reads what is approved |
| Geometry staging and review (`core/gis/georef/stage.py`, `api/services/geometry_review.py`) | `georef_datasets`, `geometry_batches` and their features | stage, approve, reject | publish applies the approved batches |
| Publish (`jobs/publish_pipeline.py`, `api/services/publish.py`) | `publish_versions`, serving values, archives in the bucket, `choropleth_cells` | publish, refresh heatmaps, prune | the panel and the map read the current version |
| Assumptions (`core/assumptions.py`, `api/services/admin_config.py`) | effective-dated versions | create, update, retire, look up by date | heatmaps and feasibility; market review |
| Market review (`api/services/market.py`) | imported figures under review | approve, amend, reject | writes assumptions versions |
| Documents and files (`api/services/admin.py`) | stored files, document versions, file links | upload, register, attach, detach | extraction, panel citations |
| Orders (`api/services/orders.py`) | `orders.status`, payment, report | create, payment, assign, deliver, refund | mail |
| Mail (`api/services/email.py`, `jobs/tasks/email.py`) | `email_log` | queue, deliver, mark | job queue, SMTP |
| Sign-in (`api/services/auth.py`) | magic links, sessions | request, exchange, sign out | mail |
| Panel and cache (`api/services/panel*.py`) | Redis entries keyed by a version stamp | serve | publish |
| Feasibility engine (`core/engine/shared.py`, `packages/feasibility-engine`) and sandbox (`frontend/src/lib/assumptions.ts`) | none; the visitor's edits in the browser | compute, recalculate; edit, reset | the panel gives the inputs and the server's figures |
| Geocoder (`api/services/geocode.py`) | Redis keys for slot and backoff; a lock and a time per process | search | the provider; Redis |
| Extraction contract, GIS, imports, the rest of the frontend | none, or written by one operator at a time | | |

### What is hard in it

* The broker acknowledges late (`jobs/celery_app.py:42`): the message of a worker that dies, or that is
  slower than the visibility timeout, is delivered again. Jobs are therefore executed at least once,
  sometimes twice at the same time, and every job body has to cope.
* Most transitions are a `SELECT`, a decision in Python and an unconditional `UPDATE` in READ COMMITTED
  transactions. Where they must exclude each other the code uses a unique index
  (`uq_pipeline_jobs_active_dedupe`, `uq_publish_versions_version_no`, the unique indexes over serving
  values) or `FOR UPDATE`, each with its own way of failing.
* A publish spans two systems that do not share a transaction: the archive is uploaded before the commit
  and deleted on failure, an old archive is deleted before its row says so, a refresh replaces the object
  the map is reading.
* Review decisions are taken while runs and publishes work on the same rows.
* Model calls are paid for, letters are sent, a link is good once: the worker may die between such an
  effect and the row that records it.
* A staging copies what other plans have staged into its own batch, a publish replaces a whole layer by one batch: whoever
  reads before the other commits may leave something out.
* The geocoder keeps its provider's policy with keys that expire in a Redis that may stop answering, and the visitor's edits outlive the
  parcel they were made on.
* The cache has no invalidation; whether an entry is right depends on what the stamp reads, and when.

For each component, what makes it correct: a target has one active job and a job always ends (job
queue); a run's readings are staged once (extraction); nothing unreviewed or rejected is served, and a
newer reading is not undone by the one it replaced (review, publish); what was published stays published,
the map's archive exists, a failure leaves nothing behind (publish); an order follows its table of
transitions and pays, delivers and mails once (orders); a mail that was queued is sent, once (mail); a
link signs in once (sign-in); a document has one current version, and what was read from a detached file is
not up for review (documents); a figure of an assumptions version is an approved one (market); a cached panel
was the data during the request (panel); calls to the geocoding provider keep their distance (geocoder); a range on screen
holds every result its rates allow, and an edit moves what depends on it (feasibility).

## Modules

### JobQueue: rows, messages, workers

`JobQueue.tla` models `enqueue_job`, `redispatch`, `JobService.retry`, `run_job_async` and
`JobTask.execute`. State: the columns `status`, `dedupe_key`, `attempts` and `manual_retries` of each job
(`status`, `key`, `attempts`, `manual`), the number of messages of each job in the broker, where each API
request is (`caller`) and where each worker is (`pc`, `task`, `seen`, `holds`).

An action is one transaction or one broker call; everything between two of them is local to a process.
So `EnqueueCheck` (the look-up of an active job) and `EnqueueInsert` are two actions with everything in
between, and `Load` (fetch a message, read the row, compare with the final statuses) is separate from
`MarkRunning`. `Load` merges the broker's hand-over with the read, which follows at once and concerns the
process only. `Requeue` is one action because `REQUEUE_SQL` runs under `FOR UPDATE`. `EnqueueConflict` is
the `IntegrityError` of the partial unique index and its re-read; `IndexRefuses` the same index met by a
late verdict. Not in the state: `task_id` and the progress, cost and log columns (written, never read to decide) and
the status `cancelled` (no code sets it).

Faults are counted and bounded by `FaultBudget`: a worker host dies (`Crash`, the message comes back), the
visibility timeout restores a message (`Restore`), publishing a message reports an error although it
arrived or really fails, and a process gives up between two steps with nobody to redeliver
(`CallerAbandons`, `WorkerAbandons`: the API process dies after its commit; a pool child is killed, which
Celery acknowledges, since `task_reject_on_worker_lost` is not set).

`JobLifecycle.tla` is the abstract specification, the life of a row as the docstrings promise it: one
active job per key, counted attempts, finitely many retries, a finished job only restarted by hand.
`LifecycleKept` states that JobQueue implements it until a message is duplicated; the variables map to
themselves.

| Run | Instance | Shows |
|---|---|---|
| `jobqueue_faults` | 2 jobs of one key, 2 requests, 2 workers, 2 attempts, 1 manual retry; one crash, one restored message, one abandoned process | `TypeOK`; `OneActivePerKey`; `NeverStranded`: an active job has a message or a process that will act on it unless a fault took the last one; until a fault duplicates a message: refinement of JobLifecycle, `OneBodyPerJob` |
| `jobqueue_live` | two requests, two workers, a crash, an ambiguous and a refused publication | `EventuallyFinal` under weak fairness |

Two jobs, requests and workers are enough for every pairwise race; a third party of any kind would only
repeat one of the two. Two attempts are the smallest number with a retry. `OneBodyPerJob` and the lifecycle
are promised without duplicate deliveries only, so both properties say "until a fault duplicates a message"
(`Duplicated`): a crash between re-sending the message of the next attempt and acknowledging the old one
leaves two messages, after which two workers may run one body. That is the documented at-least-once delivery, not a finding. It goes
further than the docstring (`base.py:14`, a message "for a job that already finished is ignored"): the status is compared when the
message is loaded and written later, so a second worker that loaded a running job puts it back to running after the first has finished it.

Fairness: a request that began goes on and a worker that is idle or busy goes on (`WF` on their next
steps). Nothing forces requests to arrive or faults to happen. Symmetry (jobs, requests, workers) is used
in the safety runs only. Deadlock is not checked because a system without requests left is simply idle.

### Publish: the publish pipeline

`Publish.tla` models `PublishPipeline.run` and `.refresh` with the row locks, the unique index over
version numbers, the object store and the operator who moves `is_current` by hand (README.md of the
repository, line 93). A run is the sequence `Preflight`, `BeginLock`/`GetLock` (`SELECT ... FOR UPDATE`
of the current row), `InsertVersion`/`InsertWaits`/`InsertRefused` (the insert waits for a concurrent
insert of the same number and fails when that one commits), `PublishValues`, `ComputeCells`, `Upload`,
`CommitVersion`, `ReportFlip`, the prune in three steps, `Succeed`; a failure goes through `RecordFailure`
and `DeleteArchive`. What matters of the lock: a transaction that waited for the row another one has
changed looks at that row again, and the row that became current meanwhile is not in its snapshot. It is
told "no current version".

Abstractions: review items and staged batches are one set `Items` with a slot of their own each (several
items of one slot are Review's subject); items that are not eligible for other reasons are left out;
the tile archive is the assumptions version its heatmap was computed with; a conflict of labels is merged
with that of version numbers (both fail the insert); a refresh may start at any time, a superset of "when
a pointer read finds the price stale" (`api/services/publish.py:222`). Bounded events: a failing step, a
commit or upload that takes effect but reports an error, a progress write that fails, a refused deletion,
a crash, a hand-moved pointer, changed assumptions.

| Run | Instance | Shows |
|---|---|---|
| `publish_serial`, part `values` | 1 run process and 1 refresh, 2 items, 3 versions, two failing steps and a crash | `PublishedStaysServed`; `FailureLeavesNothing` |
| `publish_overlap` | 2 processes and 1 refresh, 4 versions, retention of 2, every trouble once, without lost answers | `ServedArchiveExists`, `RetainedArchivesExist` |
| `publish_heatmaps` | 2 publishes and a refresh, 2 assumptions versions that change twice, one hand-moved pointer, one commit or upload that loses its answer | `HeatmapRight` until an answer is lost; `RunsEnd` under strong fairness |
| `publish_twice` | two processes, one item | violation of `PublishedStaysServed` |

Versions: retention of two needs four versions to prune one that is neither current nor previous. Fairness is strong (`SF`) for
a process's next step because PostgreSQL serves the waiters of a lock in order: a
wait that ends again and again ends for this process too; a deadlock is resolved by the victim's error
(`DeadlockVictim`), which is part of the step.

### Review: from a reading to the served value

`Review.tla` follows the items of one slot (one target and field of one document version).
Extraction runs over one file stage items (`WriteItems`: what `_write` inserts and supersedes in its one
transaction); reviewers decide (`Approve`, for amendments too, with `RETIRE_PREVIOUS_SQL`; `Reject`); the
publish's values step is split where its READ COMMITTED statements can see different data: `CarryForward`,
`SelectEligible`, `CloseItem`, `CommitPublish`. State per item: `review_state`, `run_id`,
`previous_item_id`, `superseded_at`, `published_value_id`, and the number of the decision for
`reviewed_at`. Item 0 is "none". Executions of a run crash, fail, and overlap when a message is delivered
twice.

| Run | Instance | Shows |
|---|---|---|
| `review` | 2 runs that read the slot up to twice, 2 executions, 3 items, 3 decisions at any step of a publish; one failure, one crash, one message delivered twice | `TypeOK`; `RunReadsOnce` until two executions overlap; `ReplacedStaysOut`; `ValueKept` and `RejectedKeptOut`, each but for one rejection between two statements |
| `review_latest` | 1 execution, 3 runs, 3 items, 3 decisions | violation of `LatestDecisionWins` |

Two runs that read twice and three decisions give the shortest chains (a reading replaced by a replaced reading, an
item decided on twice); 4 million states. No lock of the code keeps reviewers out while a publish runs, so decisions come at any step of it. The
history variable `revoked` names what two properties except: `ValueKept` an approved item rejected between the statement that
carries and the one that selects, `RejectedKeptOut` the item that was rejected after the publish had selected it. Left out: the items of other files and of other document versions, the
flags that make an item ineligible; the model calls and checkpoints inside a run are Extraction's.

### Geometry: stagings, decisions, publishes

`Geometry.tla` models `stage_document`, the decisions of `geometry_review.py` and the geometry step of a publish. A staging is
one transaction, cut where its statements may see what others have committed: a label is taken that no dataset of the plan has
(`TakeLabel`), the plan's earlier run and its batches are superseded (`Clear`), where `SUPERSEDE_SQL` may have to wait for a row
and does not see what is inserted meanwhile (`WaitForRun`), the newest staged land-use batch is looked for
(`FindNewest`), its features or those of the current version are copied without the plan's own (`Carry`), and the dataset is
inserted and committed (`CommitStaging`, or `RecordInvalid`). A publish is cut between the preflight, the choice of the approved batches, their
application and the commit. What a transaction has changed and not committed is in the record of its process (`stager`,
`publisher`), and whoever wants to change the same row waits (`BatchFree`, `DatasetFree`).

Abstractions: one layer that is replaced as a whole (`landUse`; a plan's buildings, the other generic layer, go the same way) and one that stands for those
upserted plan by plan (`own`); a plan's features are known by the batch they were first staged in; one publish at a time,
whose overlaps are Publish's. A label is a date and a count (`next_label`) or what the operator gives (`--label`), so two stagings of a plan under way
may have one label or two: a label is any number that the plan's datasets do not have, that of another staging included. A batch that fails its checks is one nobody approves. The history variables `refused`,
`hasty`, `overlooked` and `parallel` name the exceptions: rejected batches, those rejected while a publish or a staging was using them, the land use
of stagings that did not see each other, and pairs of runs of one plan, the later staged under another label without seeing the earlier.

| Run | Instance | Shows |
|---|---|---|
| `publish_serial`, part `geometry` | 2 plans, 2 stagings at a time of one layer each, 3 datasets, 3 batches | `LandUseKept`: other plans' stagings carry a plan's land use along through every order of stagings, decisions and publishes; `RejectedStaysOut`; `OneRunUnderReview`: of two runs of a plan under review together, the second had another label and did not see the first |
| `geometry_lost` | 2 plans, 2 stagings of one layer or both, 2 datasets, 2 batches | violation of `PublishedIsApplied` |

`MCServing.tla` puts the two parts of that run side by side as `MCDesk` does (3.3 million states together). Three batches are a chain in which what
is carried was itself carried; publishes are not bounded. Nobody has to stage or decide, so no liveness is claimed.

### Extraction: from the request to the staged items

`Extraction.tla` follows one PDF of a document's current version. Administrators queue runs (`AskExtraction`,
`QueueRun`: `enqueue_extract` looks for a run that has read the file in one transaction and inserts in another),
attach and detach it (`CheckDetach`, `Detach`, split where other requests can act, with the row lock that makes
inserts wait), retry a failed job, accept what was read. Workers go through `extraction_runner.py`: `TakeRun`,
`StartRun` (a failed run forgets its failed steps), `CheckFile` (the link again, and the saved steps), `ReadStep`
and `SaveStep` (the paid answer, then its checkpoint, which keeps an answer that is there), `WriteItems` (one
transaction for items, supersession and status), `FailRun`. What JobQueue does in several steps is one here.

Faults happen at most once each: a worker dies, a message is delivered while its worker works, an outage, a retry
by hand, a release that changes the prompt; the run's `FaultPairs` says which pairs are tried together. Three history
variables mark the exceptions of the properties: `trouble`, `recalled` (a job retried inside a detach), `reread` (a run asked for
although the file was read, or while it was being finished).

### Orders: staff requests on one order

`Orders.tla` models `set_status`, `record_payment` (received, refunded, not received), `assign` and
`upload_report` of `api/services/orders.py` on one row. None of them locks it: each reads the row, checks
the transition, the report, the refund or the owner on what it read (the `Ask` actions), and later updates
the row whatever it is by then (`SetStatus`, `Receive`, `Refund`, `NotReceived`, `Assign`, `Report`). What
the code decides after the guard (is the order paid, is this a replacement) it also decides on the old
row: `read`. The commit is one action because the `UPDATE` holds the row lock until then and nothing is
read after it; the e-mail is queued in a step of its own (`Tell`), which a dying process omits (`GiveUp`). State: the columns that decide something
(`row`), the status in the newest audit row, the newest refund, the e-mails queued. `overtaken` is a history
variable: some request wrote over a row that had changed since it was read.

`OrderLifecycle.tla` is the order as the docstring and `TRANSITIONS` promise it, each request one step.

| Run | Instance | Shows |
|---|---|---|
| `desk`, part `orders` | 2 requests at a time, any number of them one after the other, 2 experts, 1 report file, sums 100 and 150 | whatever interleaves: `RowBacksClaims`: a delivered order has its report, one worked on was paid, a queued e-mail finds its subject; until a request overtakes another: `AuditTellsStatus`, `DeliveredByAssignee`, refinement of OrderLifecycle (`LifecycleKept`) |
| `desk`, part `extraction` | 2 workers, 2 administrators, 2 runs of 2 steps and 2 attempts, pairs of faults | `StepPaidOnce`, `ReadOnce`, `DetachedIsQuiet` |

`MCDesk.tla` puts the two modules, which share no row, side by side: a behaviour chooses one of them (`part`) and moves
that one only. The run therefore visits every state of each (2.3 million together) and nothing of their
product, which would show nothing more.

Two requests make every race of a read with a commit, and each of them starts again when it is done. Two
sums give a refund above and below the payment; the second expert is the one the order is taken from. No
liveness is claimed: the staff may stop at any time, and a refunded order is the end (no deadlock check).
Left out: placing and pricing orders, notes and bank references; what becomes of a queued e-mail is Mail's. An order
whose row says paid through `set_status` has no amount, and a refund of it is compared with nothing: that
is how the code reads, and the abstract `Refund` says so.

### Mail: letters, links and sessions

`Mail.tla` is sign-in by e-mailed link for one user, and with it the life every letter leads: the request that looks
for a pending link (`AskLink`) and later writes the row (`WriteLetter`), enqueues the job (`Enqueue`, `Refuse`,
`QueueFailed`), the worker that resolves the recipient and mints a token (`Mint`), sends and marks (`Send`,
`MarkSent`), the exchange of a link in two steps around its row lock (`OpenLink`, `Enter`), sign-out, the
account's switch, time (`Age`, `Lapse`). Of the letter's job it keeps the message, the attempts and whether it is
final. Faults, each at most once: the broker refuses a message or only seems to, a process dies with or without
its message coming back, a message restored early, a time-out that hides a delivery, a retry by hand, a `mark_sent` that fails after the letter has gone out. Not every error of
the body marks the letter: `deliver` marks it where rendering or the mail server fails, but `load_log`, `build_mime`, `mark_suppressed`,
an error of `transport.send` that is no mail error, and the marks themselves may raise (`BodyRaises`, `MarkRaises`, part of `SendFails`). Such an
error (`Escapes`) is retried if it is one of the job's transient errors and attempts are left; else `run_job_async` fails the job, and the letter
stays queued. It needs no fault and is not bounded. So the comment at `jobs/tasks/email.py:210`, that a message that will never go
out must not stay queued, holds for the errors it stands beside and not for these, and `NotForgotten` says what is true of all: a queued letter
is carried, or a fault took its last carrier, or such an error failed its job, and then the job is there, failed, for an administrator to
retry. History variables: `lost` (letters whose last carrier a fault took), `escaped` (letters whose job such an error failed), `unmarked`
(letters that may have gone out without the log knowing), `raced`, `overtaken`.

### Market: approved figures and dated versions

`Market.tla` follows one zone: the decisions of `api/services/market.py` and the versions of
`api/services/admin_config.py` on the timeline of `core/assumptions.py`. An action is a statement of a READ COMMITTED
transaction, or several between which nobody else can matter: `SELECT ... FOR UPDATE` is its snapshot (`ReadReady`,
`PickLatest`) and, later, its locks with a second look at the locked rows (`LockReady`, `LockLatest`), which is how a
row that became the newest meanwhile stays unseen. `Insert` is refused by the unique index over the current row.
A figure is the item it came from, so that `Provenance` can tell whose it is.

### PanelCache: stamps, entries, copies

`PanelCache.tla` models `PanelCache.serve` over a set of facts that change under it: some are read by `STAMP_SQL`,
some are not; some never take an earlier value again (ids, times), others may come back (a switch). A request
reads the stamp, revalidates, hits, misses, builds from a snapshot and stores under the stamp it has; entries expire,
Redis may be off at any call.

### Documents: the register

`Documents.tla` has the requests that write `planning_documents`: register a document or a version, edit the short
code (under a row lock), switch the coverage on (read without a lock, written by id) and off, and the publish
that draws a coverage. History variables name the two races the code leaves open: `clashed` (a code two requests checked side by side), `outlived` (a
version replaced while a request was switching it on).

### Feasibility: ranges and the visitor's edits

`Feasibility.tla` has the engine (`_compute` of `core/engine/shared.py`, which `engine.ts` repeats), what the server does around it
(`Payload`: unusable FAR or coverage, renamed reasons) and the browser's sandbox: panels are opened (`openPanel`), a slider is
moved (`setAssumptionEdit`), edits are reset, and edits made on one parcel stay for the next, where they may be out of bounds (`Valid`,
`InUse`). What is shown is the server's payload without edits in use and the browser's recalculation with them (`Shown`). Numbers are
exact: three numerators over one denominator (`Triple`), rounded half away from zero to hundredths at the end, as the code does; shares, FAR and coverage
count in parts of `Whole`. What doubles lose before the rounding is left out.

### Geocode: slots, waits, the circuit breaker

`Geocode.tla` follows searches through `GeocodeService.search`: the cache and backoff look-ups (`Search`), the `SET NX PX` of a slot
(`Acquire`), waiting for the key (`Nap`, `Wake`) or giving up (`Throttled`), the turn to the process's own slots when Redis does not answer
(`TurnLocal`, with the key set or not), the lock that is held while a search sleeps (`Doze`, `AcquireLocal`, `TooLate`), the provider's
answer (`ProviderAnswers`) and a process that starts anew (`Restart`), which forgets its next slot. `slots` records who gave which
slot when. All clocks agree; the backoff key is written and read at once.

### The six together

| Run | Instance | Shows |
|---|---|---|
| `office`, part `market` | 2 metrics, 3 items (two of one metric), 2 requests, 3 versions, 3 decisions, 2 days | `Provenance`, `CarriedOver`, `AppliedIsClosed`; `FirstVersionArrives` until two requests cross |
| `office`, part `mail` | 2 letters, 2 requests, 2 workers, 2 browsers, 2 attempts, 2 tokens each, 1 switch, 1 fault with one letter | `NotForgotten`, `SentAsLogged`; `SignInSafe`: a link opens one session, and an inactive user has none unless the exchange overtook the switch; with its exception `OneLinkAtATime` |
| `office`, part `panel` | 2 requests, 3 facts (one outside the stamp, one that only advances), 2 changes | `FreshUnlessRecurred` |
| `office`, part `register` | 2 requests, 3 rows, 1 code | `RegisterKept`: one current version, the last; live coverage is a current version's; a code names one document |
| `office`, part `sandbox` | 9 panels: multipliers and absolute bounds, defaults below, on and above the sliders, unusable or missing figures; sliders of two steps | `RangesCover`: whatever the rates are within the bounds in use, the figure they give is in the range on screen; `OnlyDependents`: a slider moves only the figures that `FIELD_DEPENDENCIES` names |
| `office`, part `geocode` | 1 process started twice, 2 searches, 3 slots of 2 ticks, 2 failed Redis calls | `SlotsSpaced`: two slots closer than the interval come from two sources, and only after a failed Redis call |
| `panel_stale` | 2 requests, 3 changes | violation of `NothingStale` |

`MCOffice.tla` composes them like `MCDesk`: one part moves in a behaviour (1.5 million states together). Bounds: an administrator acts
beside a reviewer, one at a time and only while there are fewer than two versions (`AdminsByVersions`; a third version is a reviewer's), and midnight passes between requests.
A fault happens while one letter is written (`FaultsByLetters`); with two letters the runs are about what two
letters do to each other. The theorems lift the bounds on faults, requests and letters. Three rows are a document with
two versions beside another, or one with three. In the sandbox `Whole` is 2, the smallest that has a share, a multiplier
and a FAR between the whole ones, and rates go up to 5; the theorem is for all numbers. The geocoder's process and its restart stand for two processes, which
share no more than Redis. No liveness is claimed here: staff may stop at any time, and
what the code promises of a queued letter is `NotForgotten`, a state property.

## Proofs

The theorems hold for any number of processes, items, versions, runs and any budget of events; they rest
on the named assumptions of the modules (bounds are natural numbers, `None` is not an id, at least two
archives are kept) and nothing else.

* `JobQueueProofs`: `TypeCorrect`; `KeyExclusive` (`OneActivePerKey` is inductive: every action that makes
  a row active is refused while another active row has the key); `NotStranded` (inductive together with
  the type invariant: an action that consumes the last carrier of a job makes it final, hands it on, or is
  a fault). `BodyExclusive` and `QueueKeepsLifecycle` need `CarrierInv`: until a message is duplicated an active job is either one
  message, or one request that publishes it, or one worker, never two of these, and a worker that carries a job knows
  what its row says (`OneCarrier`, in three parts). The refinement is then a case per action: each is the
  action of `JobLifecycle` that its name suggests, or a stutter.
* `PublishProofs`: `TypeCorrect`; `ServedArchive`, `RetainedArchives`, `FailureClean`, `HeatmapCorrect`. Each says
  `[](Troubled \/ Property)`: the property holds in every state up to the first trouble that the code cannot survive
  (`Disturbed`: a lost answer or a hand-moved pointer; `Unreported`: a lost answer, a failed report or refused deletion;
  `Interrupted`: a failing step, a crash, a hand-moved pointer), and the limits below show that each trouble is needed. All rest on `DraftsFresh`
  (drafts are distinct ids not yet committed). `ServedArchive` adds `DeletionsSafe` (what a process is about to delete is not, and
  will not become, the current version's archive); `RetainedArchives` adds `OnlyOldDoomed` (a row whose archive is deleted or
  chosen for it has enough newer rows, and stays so: rows are only added); `FailureClean` adds that an object
  exists for a draft only once it is uploaded and that a failing run remembers what to clean up (`DraftsApart`, `ObjectsKnown`, `FailuresClean`);
  `HeatmapCorrect` adds that a refresh owns the current row from its lock to its commit and that a
  draft is recorded with the heatmap it was uploaded with (`HeatmapsMatch`).
  `PublishedServed` for one publishing process and no hand-moved pointer, with `DraftComplete` (the
  draft of a process past the values step carries everything published so far). With two processes it is
  false (`publish_twice`).
* `ReviewProofs`: `TypeCorrect` together with `Numbering` (decisions are numbered upwards, an item has one
  exactly when it was approved or rejected); `ReplacedOut`, an action property. Its invariant has three
  parts: `Serving` (what is served was published, and what is carried forward is what is served),
  `ReplacedOpen` (an approved item that is still open although its approved replacement exists was
  decided on after it; this is what `RETIRE_PREVIOUS_SQL` achieves) and `ChosenLater` (the same for what
  a publish in progress has chosen, since decisions go on meanwhile). No bound on duplicates or crashes
  is needed. `ValueNotDropped` and `OnlyApprovedServed` hold with decisions at any step of a publish. Their invariant `Settled` says that
  what the carry-forward left to the selection is still there to be selected, and what was selected is still approved, or an item the
  publish relied on was rejected since (`revoked`): a run that stages readings meanwhile takes no approved item away (`EligibleStays`), an approval only adds one
  (`ApprovalSettles`), and a rejection that takes one away is recorded (`RejectionSettles`). `ReadsOnce` needs no hypothesis: until two executions overlap a run is in one hand (`OneHand`)
  and has no items before its end (`StagedOnce`).
* `GeometryProofs`: the three properties of Geometry, for any number of plans, stagings, datasets, batches and publishes. `Shape` says what the rows
  and the records of transactions in progress refer to (a staging's ids are its own, a land-use batch belongs to one dataset, what a
  batch holds was committed, two transactions never supersede the same batch). `OneRun` adds `RunInv`: a staging that has
  looked for the runs of its plan supersedes every staged one that was not committed since its look, with their own batches (`RunsSeen`), and a
  publish closes no run whose batch stays under review (`ClosingApplied`); an overlooked run has another label, or the unique index refuses the commit. `RejectedOut` adds `RejectInv`: what is rejected while nobody uses
  it is in no staging's copy, not in the batch it copies from and not among what the publish has chosen (`RejectedUnused`), and what another batch carries
  is no longer staged, so nobody rejects it later (`CarriedClosed`). `LandKept` adds `KeptInv`: every
  staged land-use batch has what each other one, the map and the publish in progress have (`StagedAlike`), and so has every copy in
  progress together with what it has missed and what is of its own plan (`CarriesLand`), except what is excused (rejected, overlooked or
  replaced by a run of its own plan).
* `OrdersProofs`: the type invariant and all properties of the orders part of `desk`. The question is what a request may still rely on when
  it writes, and the invariant answers it: what was asked held of the row that was read (`Asked`), that
  row was itself right (`RowRight`), and every report, payment and refund it had is still there
  (`ReadRight`; `Grows` says that no commit takes one off). So `ClaimsBacked` needs no lock. Status and assignee do change under a request, therefore `AuditTells`,
  `AssigneeDelivers` and the refinement `Lifecycle` end with the first request that overtakes another;
  until then `read[s] = row` at the commit, and each commit is a step of OrderLifecycle (`PromisedStep`).

* `ExtractionProofs`: `Step_Paid_Once`, `Read_Once` and `Detached_Is_Quiet`, for any number of workers, runs, steps and
  any set of faults. `Solo` is what a message delivered twice breaks: a run has one worker and, while it has, no
  message; the worker's tally has every step whose answer is saved; one run of a key has an active job. `Reads`: of two runs of
  one key, one ready and the other ready or still active, one was asked for although the file was read or being finished.
  `Quiet` carries the worker's second look at the link: while the file is detached, no worker past that look is
  about the latest run, and its items are neither pending nor accepted.
* `MailProofs`: `ShapeKept`; `LinksHold` from `Links` (a token whose row is locked has opened nothing yet, two
  browsers never lock the same, an account that is switched off has neither sessions nor links being opened);
  `Not_Forgotten` from `Relay` (a queued letter has a carrier and a job that is not final, unless an escaped error failed the job; a worker that ends
  its job for good has taken the letter out of "queued", or ends it failed by such an error); `Sent_As_Logged` from `Trail` = `Honest` (what is logged as sent was sent), `OneCarrier` (the request, a message, a worker,
  a message again: never two at once) and `Told` (what was sent is logged, or its worker is about to);
  `One_Link_At_A_Time` from `Calm` and `Rationed` (without faults a letter on its way is queued, so it counts for the next
  request's look; at most one letter counts, and none while a request has looked and not written).
* `OfficeProofs`, panel: `DataTyped`; `NeverStale`. Its invariant `Sound` says that every stored pair of a stamp and a body is
  `Harmless`: under the present stamp it is the present data, and every request under way with that stamp has seen the
  data be that body, although the body may be newer than the stamp.
* `OfficeProofs`, register: `Register_Kept`. What a request has read stays true enough until it writes: the version it
  switches on is current or known to be replaced (`AsRead`), a code that no other request has checked is still free
  (`CodeStillFree`).
* `OfficeProofs`, market: `AppliedClosed`, `FiguresReviewed`, `RestCarried`, `NobodyWaits`, all four properties of Market, from one
  invariant, `MarketInv`. `ItemsLocked`: what a request decides on or will write is locked by it alone and not applied, so no other
  commit can apply it; `DecisionsNumbered` and `ReadyPicked`: decisions have numbers of their own, so of the items of a
  metric exactly one is chosen (`OneChosen`), and a request without a version to carry over has one for every metric; `Figures`: items and
  versions name each other; `BasedOnTop`: a save that saw the last version, while that one was on top of the timeline, is based on
  it (`LastApplies`: the order of `top_versions_sql` has one greatest element); `WaitInv`: until two requests cross, some metric has no item waiting, and
  who has read the waiting items and is not late has seen them all. The last is more than `FirstVersionArrives` asks.

* `OfficeProofs`, sandbox: `RangesHold` by the monotony of each step: bounds are ordered (`BoundsOrdered`, also after an edit
  that rescales absolute ones, `EditedOrdered`), products and sums of ordered triples are, a difference is when the low of one meets the high of
  the other (`ProfitCovers`), a quotient falls when its divisor grows, for a profit of either sign (`RoiMonotone`: ROI is
  revenue over cost, less one), and rounding half away from zero is monotone (`RoundedMonotone`). `EditsMoveDependents` follows the reasons, the areas and
  the rates an edit leaves alone; `ShownIsRecalculated` says that the server's renamed reasons change no number.
* `OfficeProofs`, geocoder: `SlotsKeepTheirDistance` from `Remembered` (an interval after each slot of Redis its key is still there; after each
  slot of a process's present life, its next slot), `SleepersHold` (a search that sleeps for its process's next slot holds the lock, so nobody moves it) and
  `PassedBy` (Redis is passed by only after a call has failed).
* Type theorems: `TypeCorrect` (JobQueue, Publish, Review, Orders), `ExtractionTypes`, `MailTypes`, `GeometryTypes`, `MarketTypes`,
  `PanelTyped`, `RegisterTyped`, `SandboxTypes`, `GeocodeTypes`: every module's type invariant, for all values of its constants. In the
  composed runs (`publish_serial`, `desk`, `office`) TLC therefore checks no type invariant any more.

The newest batch, the top of the timeline, the newest version and the item decided last are each the greatest of
a bounded set of numbers. That there is one is proved from the library's theorem that `<` is well-founded on the
naturals (`HighestIsIn`, `LargestThere`, `TopThere`, `NewestIsVersion`), since induction over data is out of the prover's reach.

Every invariant was checked by TLC, as an invariant of its module's run, before it was proved. Two things the proofs asked for: `BatchFree` names the stagings it looks at (a decision looks at all of them, a staging at the
others), and `MarketAssumption` says that there are metrics and that an item's id is not the number of a version.

Only model-checked: the liveness properties (`EventuallyFinal`, `RunsEnd`), since the prover does not reason about fairness. Every other
property of a passing run is the conclusion of a theorem. The instances of the runs go beyond a theorem in one point: `publish_heatmaps` allows a
hand-moved pointer as long as nothing is pruned, `HeatmapCorrect` does not.

## Findings

Each is shown by a run that expects a violation; the quoted texts are in `PROJECT.json`.

1. A second, overlapping publish finds no current version and serves nothing of what was published before
   (`publish_twice`).
2. An approved item that a publish passed over is served by the next one over a later decision
   (`review_latest`).
3. An administrator corrects the adoption date or the source of a document; neither is part of the stamp, so the panel
   goes on showing the old one until the entry expires (`panel_stale`).
4. One plan's staging carries another plan's land use and is rejected; the next publish marks the other plan's dataset as published
   although its land use is neither served nor staged (`geometry_lost`).

The preconditions of the passing runs are limits of the code of the same kind. Each is lifted by changing
one constant of a run or by dropping the exception from the property:

* `review` without the exceptions for `revoked`: an item rejected after the publish selected it is served
  (`CLOSE_ITEM_SQL` does not look at the state again), and one rejected between the carry-forward and the
  selection leaves the new version without a value for the slot. `RunReadsOnce` without its
  exception: two executions of one run that overlap both stage its items.
* `publish_serial`, values, with a `report` event: a progress write that fails after the commit ends the job failed
  with its version current; one that fails while a failure is handled leaves the archive in the bucket.
* `publish_heatmaps` without the exception for a lost answer, or with a `step` event: a refresh that fails between replacing the archive and its commit
  leaves the map, once the assumptions change back, with a heatmap nothing marks as stale.
* `publish_serial`, geometry: a batch rejected after a publish has chosen it is published all the same, and one rejected after a staging
  has found it is carried along. Two stagings of different plans that look before the other commits each leave out the other's land use, and the
  one with the higher number replaces the layer. Two stagings of
  one plan side by side, one before and one after midnight or one with `--label`, have different labels, so neither sees the other and both runs stay up for review,
  although "a newer run of the document supersedes its staged one" (`core/gis/georef/stage.py:692`).
* `desk`, orders, without the exception for `overtaken`: two requests that read the same row are both carried out.
  A refund and an upload leave an order delivered that was refunded, two `set_status` take it through a
  transition the table forbids (the docstring says "anything else is 409"), `received` and `not_received`
  on a failed payment leave the order paid with `payment_failed` as its newest audited status, and an
  expert from whom the order was taken during the upload delivers it.
* `publish_overlap` with an `operator` event: an operator may point at an archive the retention is about
  to prune, and after a publish from an older version that one is pruned although it is the previous one
  (the candidates are picked by id). With a `lostAnswer` the archive of a version that was committed after
  all is deleted.
* `desk`, extraction: `detach_file` looks at the latest run only, so an older one that is still being read
  stages items of a file that has left; so does a run whose message was delivered twice, or whose job was retried
  after the detach had looked. An approval between the look and `SUPERSEDE_FILE_ITEMS_SQL` is superseded although
  accepted. A failed run retried after another has read the file reads it again, and an older run that finishes later
  supersedes the newer one's pending items. A job that is failed because its worker was lost leaves its run
  "extracting".
* `office`, market: two saves that cross lose a rate and may share a version number
  (the comment at `admin_config.py:139` says they "meet on the head's partial unique index", which they do only while the head
  is current), and two simultaneous last approvals of a zone's first version both find the other's figure missing and wait until somebody decides again. A scheduled version
  takes over, on its day, figures that were current when it was saved, also where others have been approved
  since; items that wait are applied over what an administrator saved meanwhile.
* `office`, mail: an exchange that has read the account as active opens a session after the deactivation has revoked
  the others.
* `office`, geocode: without its exceptions `SlotsSpaced` fails where Redis stops or comes back between two slots (a process counts its
  own slots only, and Redis does not know them), where two processes count side by side, and over a restart. The backoff is looked up before the slot is
  waited for, so the searches that wait when a provider fails still call it once their slot comes: the docstring's "one call per `failure_backoff_seconds`
  across all replicas" (`geocode.py:7`) holds for those that arrive later.
* `office`, register: a version replaced while its coverage is switched on is on the map beside its successor;
  a code checked by two requests at once is taken twice, no index forbids it.

## Not modelled

* Pure computation: parsing, validation and normalisation of readings, chunking,
  fitting and snapping of drawings, cadastre and zone imports, QGIS exports. They keep no state between calls and make up most of
  the lines of the repository, which is why the modules cover a small share of it: what
  can go wrong there is a number or a text, which the corpus tests compare, not an order of steps.
* Read-only SQL and the texts of panel, orders and documents. The panel's statement enters as one snapshot of a set of
  facts, a tile archive as the version of its heatmap.
* Placing, pricing and looking up orders, uploads and file roles, the market import (one file read by one
  operator's job), counters, audit rows, rate limits, tiles, migrations, deployment and the web client beyond the
  sandbox, the selection of geocoding hits.
  `components` in `PROJECT.json` gives the reason of each part.

Every property has a mutant that breaks it. A new question about a modelled component best joins its run through a history variable,
as `overtaken`, `reread` and `unmarked` do. What would come next: placing an order and its public page in Orders; `market_imports` in front of Market (its status is
compared without a lock, hazard at `core/market/pipeline.py:247`); the cadastral and zone datasets, which a publish closes as it does Geometry's; a theorem for `HeatmapRight` beside a
hand-moved pointer.

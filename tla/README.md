# A verification project for starcat-weekly-api

TLA+ models of the service in `src/`, checked with TLC on small instances, and
theorems about them checked with TLAPS. Paths are relative to `src/`.

## 1. The system

One Go process (`server/server.go`, `New`) around one SQLite file. The pool
holds **one connection** (`internal/store/sqlite.go:32`), so every statement or
transaction runs alone; what happens *between* two transactions of a goroutine
is open to all others. That is where the hard behaviours are.

| Component | State | Operations | Talks to |
|---|---|---|---|
| candidate queue (`internal/ingest`, `internal/store/ingest*.go`) | `ingest_batches`, `ingest_items`, wake channel | `Service.Enqueue`; `Worker.Run`: claim, resolve, complete, fail | GitHub, bulk cache, source events |
| source events and aggregates (`internal/store/sqlite.go`) | `github_repos`, `repo_source_events` | upserts, `recomputeAggregateTx`, `RebuildAggregates` | written by the queue, read by all lists |
| bulk payload (`internal/handler/bulk*.go`) | `BulkCache.entry` | `Get`, `Set`, `Invalidate`, `HandleBulkV1` | store; invalidated by queue, pins, rebuild |
| weekly pins (`internal/store/pins.go`, `internal/handler/pins.go`) | `weekly_pins` | replace the ordered list | bulk cache |
| daily radar (`internal/dailyradar`, `internal/store/daily_radar.go`) | `daily_radar_*` tables, snapshot in memory | import, worker, publication, readers, repair | GitHub |
| HelloGitHub backfill (`internal/source/hellogithub_backfill.go`) | backfill batch and checkpoint | start, process next, record failure | `Service.Enqueue` |
| collectors and scheduler (`internal/scheduler`, `internal/discovery`, `internal/source`) | locks by name, the working copy, `weekly_issues` | cron jobs, admin syncs, reconcile, first start | `Service.Enqueue`, GitHub, zread, Hacker News, HelloGitHub |
| migrations (`internal/store/migrations.go`) | `schema_migrations`, all tables | run at start | the process, which serves only after them |
| server assembly (`server/server.go`) | context, closing order | `New`, `Close` | everything |
| clients, parsers, middleware, notifier, scripts | none | input and output | |

**What must be right.** *Queue*: an accepted batch is there, whole and once; each
candidate is settled once; the batch report agrees with its items; the work is
found without waiting for luck; everything settles. *Radar*: what is shown is the
preferred source at its newest sequence, never goes back, and a client that pages
through it sees one catalogue. *Bulk*: stale payloads are dropped or end; the one
connection comes back. *Collectors and backfill*: what they remember as done was
queued; what upstream publishes is queued in the end, through failed requests and
restarts; rivals keep apart. *Catalogue*: no old fact is lost by the upgrade, a
half-made one never counts; the aggregates the list is ordered by cover the facts;
paging through a quiet catalogue lists everything once. The full list of hazards, each at its line, is in
`PROJECT.json` ("hazards").

**What is hard.** Two callers under one idempotency key; a wake that races with
the end of a drain; a lease that runs out during a GitHub call; a completing
transaction that fails; crashes and shutdowns (`Server.Close` waits for the radar
worker but not for the ingest worker, whose store is closed under it); editions
that are published out of order; a payload built from several queries around an
invalidation; a nested use of the single connection; two weekly syncs over one
working copy, without a lock; a file that is hashed and then read again; a
checkpoint that moves one transaction after the work it stands for; a migration
cut short between two `CREATE TABLE`; pages whose order ties.

## 2. Modules

| Module | Models | Lines of the code |
|---|---|---|
| `Ingest` | the candidate queue with its callers, worker, clock, GitHub, bulk requests, shutdown, crash, restart | `ingest/service.go`, `wake.go`, `worker.go`, `store/ingest.go`, `ingest_worker.go` |
| `CandidateLedger` | what the queue promises: accept whole and once, settle once, verdict in the same step | (abstract) |
| `Ingest_proofs` | proofs: types, leases, the batch report, finality, the refinement of `CandidateLedger`, successes, wakes, accepted requests, the cache | |
| `DailyRadar` | import, worker, publication, repair, readers, shutdown, crash, restart, failing statements | `dailyradar/*.go`, `store/daily_radar.go` |
| `DailyRadar_proofs` | proofs: types, what is published and shown, its order, walks, the copy in memory, attempts | |
| `BulkCatalog` | `HandleBulkV1` query by query, the cache entry, its writers, the rebuild, the connection | `handler/bulk*.go`, `store/sqlite.go` |
| `BulkCatalog_proofs` | proofs: types, current answers, the returned connection, the stuck rebuild | |
| `WeeklySync` | the weekly's issues: pull, hash, look up, parse, queue, record; any number of goroutines | `scheduler/cron.go`, `fetcher/git.go`, `parser/markdown.go`, `store/sqlite.go` |
| `Collectors` | zread, Show HN, HelloGitHub's featured list and reconciliation, under the scheduler's locks | `scheduler/cron.go`, `source/hellogithub*.go`, `discovery/*.go`, `spider/zread.go` |
| `Backfill` | HelloGitHub's old volumes: requests, control batches, the goroutine that works on them | `source/hellogithub_backfill.go`, `store/hellogithub.go`, `handler/hellogithub.go` |
| `Migrations` | the three migrations, statement by statement, with crashes | `store/migrations.go`, `store/daily_radar.go`, `store/sqlite.go` |
| `Catalog` (extends `Migrations`) | facts and aggregates, pins, the paged list | `store/sqlite.go`, `pins.go`, `ingest_worker.go`, `handler/repos.go` |
| `Backfill_proofs` | proofs: the checkpoint and the limit of attempts | |
| `WeeklySync_proofs` | proofs: types, what is recorded was queued, the order of the queue | |
| `Collectors_proofs` | proofs: types, the locks | |
| `MCSources_proofs` | proofs: the same of the three feeds in one process | |
| `Catalog_proofs` | proofs: types, the upgrade, the aggregates, the quiet walk | |
| `MCIngest`, `MCDailyRadar`, `MCSources`, `MCCatalog` | the instances TLC checks | |

### Ingest

Every database transaction is one action; the steps between them are separate:
`Lookup`, `Insert` / `InsertRefused`, `Reread`, `Notify` for a caller of
`Service.Enqueue`, and `CallerError`, as every statement of `Enqueue` may fail in a
running process: before the commit nothing is left of the request; the read-back that
follows the commit is a statement of its own, and when it fails the batch is queued,
the caller has an error and no signal is sent. `CheckContext`, `Claim`, `ReuseStored` / `AskGitHub`,
`Complete` / `Fail` / `SettleError`, `Invalidate` for the worker, whose control
point is `worker.pc`. `items` and `batches` are the tables; the three counters of
a batch are kept as the sets of items they count. Time is a countdown in ticks of
15 minutes (back-off 15 and 30 minutes, lease 30 minutes), so no clock grows; the
back-off counts from the claim, as `now` is read before the GitHub call. `catalog`
and `upstream` hold the GitHub id behind a name; another id under a stored name
is what `UNIQUE(owner, name)` refuses. `mode` follows `Server.Close`: context
cancelled, store closed, process gone. A worker's step that fails because the store is
closed is an action of its own; in an open store its statements succeed, but for the
name collision. Two history variables speak of callers: `accepted` has the answers
given so far and survives the process that gave them; `unsignalled` has the batches
whose caller got an error after the commit, until the worker finds nothing to claim
or the process ends. The manual kind of batch deduplicates and
identifies its facts by repository, the others by external key. The contents of a
candidate, renames (a repository is known by its present name), the check that the
source is enabled and the error texts are left out. The bulk cache is here only
to relate invalidation to the settling of batches; its races are in `BulkCatalog`.

### DailyRadar

A slot is a report id in a language; a revision is the record its hash covers.
`Publish`, `PublishLate` and `PublishConflict` are the three ways of
`PublishRadar`, each one transaction; `Verify` / `VerifyFails` stand for the
GitHub calls, with any subset of the links found; `StatementFails` is a store
error at each place where the worker handles one: also a failure that cannot be recorded,
which leaves the job in `processing` with nobody to hold it, and a recovery that fails,
which ends the worker for the rest of the process. A reader pages with a page size
of one: `ReadCatalog` is the transaction of `RadarSnapshot`, `ServePage` the rest of
the request, in which the copy in memory is replaced. `Repair` is the admin
endpoint. Time runs in minutes. Field validation and Markdown are left out: the
requests are valid ones, an article is its body and the repositories behind its
links. `ExtractRepositories` drops links to the two generators by name; they
still get into articles behind a former name (GitHub redirects) and from earlier
versions of the program, which is what the repair is for.

### BulkCatalog

The contents of the catalogue is a version number; a payload is known by the
version its first query saw. `conn` says who keeps the single connection between
two steps: a request that has rows open, or the rebuild's cursor. `promised` is a
history variable: the newest version whose invalidation has returned. A tick is
three hours, the TTL two ticks.

### WeeklySync

A content of an issue stands for its hash. `history` is what the authors wrote,
`clone` the working copy, which *all* goroutines share: a pull by one changes the
file between another's `ReadHash` and its `Parse`. `issues` is
`weekly_issues.content_hash`, with `NoRow` and `NoHash` (rows from before the
column). A batch keeps its key (the hash) apart from what the parser read, as the
two may differ. The sync takes no lock, so `Trigger` asks only that the
goroutine be free. `NoRepos` are texts without a link, `Refused` texts of which
`Enqueue` refuses a name and with it the whole batch. `Fetch` takes git as atomic: a
pull brings the published texts or fails and leaves the working copy as it was. An
`index.lock` that a killed git leaves behind would make every later pull fail; that
is outside the model, and against the assumption on pulls made in section 3. The wiki
notification is left out.

### Collectors

A look is what the fingerprint of a page tells apart. `running` holds lock names;
the featured list and the reconciliation use one name. A run of the featured list
queues page by page, so a later page that fails takes nothing back; the
reconciliation asks the first volume which one is the newest. `Broken` looks
have an item the client or `Enqueue` does not accept, which loses the whole page
and ends the run. zread and Show HN have keys made from the clock: nothing of
theirs can be known already, and only their locks and their course are modelled.

### Backfill

A control batch is a row with a cursor; the goroutine works on the copy it claimed
(`manager.row`) and writes the whole row back, in `Advance` or `RecordFailure`,
one transaction after the volume was queued. An open range (`to = 0`) is
closed by the first volume fetched. `misses` is a history variable: how often the
volume a backfill stands at has failed. `due` abstracts `next_attempt_at`. The two
requests of one key meet in `Insert`, where the unique key decides.

### Migrations and Catalog

`db` is what is committed, `work` what the process sees; between `Begin` and
`CommitVersion` they differ, and a crash or an error gives `work` up. A fact is a
source and an external key; it has a repository and a time. `unjoined` are rows of
`weekly_extras` without their issue: the copy joins them away, and the validation
then refuses the upgrade, at every start. `Catalog` goes on from the migrated
database. `Publish` is the part of `CompleteIngestItem` that touches repositories,
events and aggregates, for a name that may lead to another repository than before;
`ReplacePins` is one transaction; the reader runs `QueryRepos` statement by
statement, with writers in between, and follows `NextPage`. Only the default order
is modelled; the four statements by which `feedItem` reads the facts of a
repository are one step. A page may have repositories whose fact has gone since,
which no document rules out: the property about walks is about quiet ones.

### MCSources

`WeeklySync`, `Collectors` and `Backfill` share nothing but the process and a queue
in which each has keys of its own, so their product would only multiply states.
`MCSources` extends `Backfill`, has an instance of each of the others, and lets one
of the three move in a behaviour (`feed`); the others rest in a single initial state.

## 3. Runs

All bounds are constants in the `.cfg` files.

| Run | Question | Bounds |
|---|---|---|
| `ingest_safety` | do the safety properties hold, and is the ledger implemented? | one caller, a batch of two candidates of one repository, two GitHub ids, one stop |
| `ingest_live` | do the answers stay true, is work left without a signal, does everything settle? | two callers, a manual import with a duplicate and a refused request, failing statements of `Enqueue`, two stops, one GitHub id |
| `ingest_poison` | *violated*: does everything settle when a repository is recreated? | two GitHub ids, no stop |
| `radar_order` | is the shown revision always the right one? | two upstream editions and a self-made one for one slot, one stop, one failing statement |
| `radar_readers` | does a walk see one catalogue, is the snapshot honest, do the types hold? | two readers (symmetric), two slots, an import of both and a later one of the second |
| `radar_live` | does every job settle, how often is it tried? | a conflict of sequences, two slots, two stops, one failing statement, articles without links |
| `radar_repair` | *violated*: does a repair stick? | one slot, a self-made and an upstream import, no stop, no readers |
| `bulk` | current payloads, returned connection, answered requests, no eternal stale entry | two requests, one repository, two commits |
| `bulk_stale` | *violated*: is the payload after an invalidation always new? | the same |
| `rebuild` | *violated*: does the rebuild end? | the same |
| `sources` | is what the collectors remember queued, is upstream followed, does every backfill end? | two goroutines; two issues, four texts; two pages, three looks; one backfill with two requests, two volumes; one change upstream, one failure or stop |
| `catalog` | is the upgrade safe, do aggregates cover facts, is a quiet walk complete? | two old rows, one new fact, three repositories, two times, pages of two, two pins, two transactions while serving, one crash |

**Why the bounds are enough.** The worker is a single consumer and looks at one
item at a time, so two items of one batch give every combination of verdicts, a
lease that expires while another item is due, and a batch that outlives the
settling of one item. `AttemptCap` is the attempt limit: no guard tells larger
counts apart. One stop puts a crash at every step; two put one into the recovery
of the first. In `radar_live` a statement may fail before, between or after the stops;
which links GitHub finds decides what an article shows, not whether its job ends, so
its articles have none. Two readers are needed for an old snapshot to be stored over a newer
one, and two GitHub ids for a name to change hands. Two goroutines are what a
cron job and an admin make; one change upstream lets a text move on, or become
empty or refused, between any two steps of a sync (two would let it return: section 4); a volume that fails for good takes its three attempts
whatever `MaxTroubles`, as `FetchFails` is not bounded. Three repositories and a
page of two give a second page, a tie inside a page and one across it; two old
rows let the copy lose one and keep one; two transactions let a fact be published
and then move, or a list be pinned and replaced.

**Deadlock** is checked except in `radar_order` and `radar_live` (a failing recovery
ends the worker, and when no stop is left nothing starts it again) and in the `BulkCatalog` runs (the rebuild really blocks everyone).
In `catalog` a database that cannot be upgraded does not deadlock: it is tried for
ever.

**Fairness.** *Ingest*: weak fairness of the worker (one goroutine in a loop with a
ticker; GitHub calls return), of time, of the exit of a stopping process and of
the restart (process manager). Nothing is asked of the callers. *DailyRadar*: the
same; a job has a deadline of two minutes. *BulkCatalog*: strong fairness of each
request and of the rebuild, because a free connection is handed to one of the
waiters and none is passed over for ever (`database/sql` wakes a waiter on every
release); time passes; nothing is asked of the writers. *WeeklySync*, *Collectors*:
goroutines go on, as their requests return (the HTTP clients have timeouts); cron
comes round; a stopped process is started again. Strong fairness is asked of
two things: of a pull (tried every week, it succeeds now and then) and of the
triggers of the two jobs with one lock (cron does not always come while the other
one runs). *Backfill*: the goroutine, its ticker, time, the end of a process that
closes, the restart. *Migrations*: the process is started until it serves.

## 4. Disagreements found

1. **An item that never settles** (`ingest_poison`). Completion errors have no attempt
   limit; `upsertGitHubRepo` cannot store a repository recreated under its name, so
   its item is claimed, fails and keeps its lease, for ever.
2. **A repair is taken back** (`radar_repair`). `PublishRadar` recomputes the shown
   revision from source rows the repair left uncorrected.
3. **Old data after an invalidation** (`bulk_stale`). A payload read before the commit is
   stored after the invalidation.
4. **The rebuild blocks the service** (`rebuild`). It begins a transaction while its own
   cursor holds the only connection.

A fifth one has no run of its own. **A text that returns is not queued again.** An issue
edited from A to B and back to A has the batch key `weekly:n:hash(A)` it had before:
`Enqueue` answers with the old batch and the hash is recorded as done. `README.md:102`
says that after the baseline "later content changes are queued normally". `WeeklySync`
has the behaviour; `QueueIsNotBehind` excepts issues with such a history (`Returned`), and
`EveryIssueIsRecorded` is about the record only, so neither property says anything of it.

**What the properties leave open on purpose.** `NoIdleWork` does not promise a signal for
every batch: `EnqueueIngestBatch` may fail after its commit (`store/ingest.go:81`), and the
item then waits for the fallback ticker. The property says that this, told to a caller as an
error, is the only way; `EveryItemSettles` covers such an item. `EveryJobSettles`
promises nothing of a job whose worker or whose record was lost to a failing statement
until the next restart. A look of HelloGitHub that returns counts as queued
(`HelloGitHubIsFollowed`), and a walk through the list that a commit falls into, the
replacement of the pins among them, is not a quiet one.

## 5. Proofs

Every invariant and every action property of the passing runs, and the refinement, is
proved for all values of the constants, under the assumptions named with each module
below. They say what the code requires of its inputs, or that a bound is a number;
TLC evaluates them on every run. A proof has one step per action; record updates, which
the provers are slow at, are lemmas of their own.

### Ingest_proofs

For every set of keys, repositories, candidates, callers and requests and every bound
(`FactsAssumption`: finitely many candidates, each with a repository;
`RequestsAssumption`: well-formed, non-empty requests; `BoundsAssumption`):

| Theorem | States |
|---|---|
| `LeaseIsHeld`, `QueueIsTyped` | `TypeOK`, `LeaseHeld` |
| `ReportsAreTrue` | `BatchMatchesItems` |
| `SettledIsForever` | `SettledForever` |
| `QueueImplementsLedger` | `LedgerSpec`, with the mapping stated in `Ingest` |
| `SuccessHasItsEvent` | `SuccessIsPublished` |
| `WakesAreNotLost` | `NoIdleWork` |
| `AcceptedHolds` | `AcceptedIsDurable` |
| `QuietCacheHolds` | `QuietCacheIsCurrent` |

`TypeOK /\ LeaseHeld` is inductive: the item the worker carries is in `processing` with
the worker's attempt count, because the recovery of leases and the claim run only in the
worker's own scan, and ticks touch neither status nor attempts. So the "without active
lease" guards of `CompleteIngestItem` and `FailIngestItem` never fire.

`ThreeKinds` shows that every step is quiet (no item moves between active and
settled), accepts a batch, or is the settling transaction of an item in
`processing`; this is where `LeaseHeld` is needed. The next three results are
proved once per kind. `BatchMatchesItems` is inductive only together with
`NoOrphans` (every item has an accepted batch): otherwise a new batch could find
rows of its key that it did not count.

`SuccessIsPublished` needs `AnswerIsThere`: a worker on its way to `CompleteIngestItem`
has a repository, the stored one or GitHub's. Only that transaction publishes
(`OnlyCompletePublishes`), and the key of an item's event never changes (`KeysKept`).
`NoIdleWork` is inductive with the types: a worker comes to rest without an error only by
finding nothing to claim, and from there `WakeStep` follows each pending item (`Announced`,
`Owed`): it appears with a caller that has committed, who sends the signal or gets the
error. `AcceptedIsDurable` is seen as a promise (`PromisesKept`) that also holds what is
still to come: each batch that exists is `Whole` for one request, each answer names such a
batch, and a caller between commit and answer owns the batch it is about to call created
(`CreatedWhole`). Only `Insert` makes rows of a key (`OnlyInsertCreates`), all at
once; nothing after it takes one away (`WholeKept`), the end of the process included, as the
promise is about the tables and the answers, not about callers.
`QuietCacheIsCurrent` is not inductive, as it speaks only of a worker at its select.
`PayloadsFollow` speaks of every moment but the one between the commit that closes a
batch and the invalidation that follows: the stored payload is current unless it is
late, what a builder has read is current unless it missed an invalidation.

### DailyRadar_proofs

For every set of slots, repositories, article bodies, requests and readers and every
number of stops and failing statements (`SlotsAssumption`, `LinksAssumption`,
`RequestsAssumption`, `NullAssumption`, `BoundsAssumption`):

| Theorem | States |
|---|---|
| `TypesHold` | `TypeOK` |
| `PublicationsCover` | `PublishedIsCovered` |
| `PreferredIsShown` | `ShownIsCanonical` |
| `ArticlesAdvance` | `ShownOnlyAdvances` |
| `CopyIsCurrent` | `SnapshotIsCurrent` |
| `WalksHaveOneCatalog` | `WalkIsOneCatalog` |
| `AttemptsArePaidFor` | `AttemptsAreBounded` |

`IInv` is `Base /\ Shown /\ Walks /\ AttemptsAreCounted`.
`TypeOK` includes the copy in memory, the worker and the clients with what they have
been shown; that job ids have no gap it says by a cardinality, `Numbered` by a number. `Base` adds to the types that the job in hand is in `processing` with the worker's
attempts, and that the candidate on its way to `PublishRadar` is made of that job
(`WorkIsSound`). `Shown` needs `SourcesAreSound`: a source row and the revision it points
at are one document of one slot. The repair leaves these rows alone: what is shown then is
the correction of the source's revision, which `ShownIsCanonical` allows and
`PublishRadar` takes back (section 4).
`OneContents` is the reason why readers are safe: whatever copies of the catalogue exist
(database, memory, requests under way, first pages of clients), those with the same
revision have the same list; a step changes the publications only with a new revision
(`CatalogMoves`). `WalksAreSound` says that a client has a first part of the list its
first page was cut from; `NthArticle` and `NextArticle` show that serving by position
gives the least article that is missing. `AttemptsAreCounted` keeps one attempt in
reserve for every job that waits or has been abandoned: a stop or a fault pays for
it.

### BulkCatalog_proofs

For every set of clients (`ClientsAssumption`: no client is named as the rebuild or as
the free connection), every set of repositories and every bound on the commits
(`BoundAssumption`):

* `TypesHold`, `AnswersAreCurrent`, `ConnectionHolds`: `TypeOK`, `BuiltAnswerIsCurrent`,
  `ConnectionIsReturned`. The invariant adds that nothing is announced before it is
  committed, and that a payload was begun no earlier than its request came in.
* `RebuildWedges`: once the rebuild has a row to go through, no step moves it, the
  connection or the catalogue.

### Backfill_proofs

For every set of backfills, admins and looks, all requests that
are well formed (`RequestsAssumption`, `LooksAssumption`, `BoundsAssumption`,
`RowsAssumption`: the absent row is not a row) and every bound:

* `CheckpointHolds`: `Spec => [](TypeOK /\ CheckpointIsCovered)`;
* `GivesUpHolds`: `Spec => []GivesUpAfterThree`.

The goroutine reads a row, works for minutes on a copy, and writes the copy back
whole. The invariant `IInv` says why that loses nothing. `WorkIsSound`: the row in hand
is open, due and, but for the end of an open range, equal to the stored one, from the
claim to the write; only requests for other keys, the clock and this goroutine write
rows, and the clock only those that are not due. Its parts for each `pc` carry what
the next step needs: the look that was read, the end that was published, the key that
was queued, the failure that was counted. `RowsAreSound` adds to the two properties
that an open row has attempts left and has not gone past its end. The lemmas
`RowsKept`, `WorkKept` and `LetGo` state once what a step of somebody else leaves alone.

### WeeklySync_proofs

Under `ConstantsAssumption`, for any number of issues and of syncs that overlap:

* `RecordedHolds`: `Spec => []RecordedWasQueued`. Two
  things are carried through the steps of one goroutine while others pull and queue: a text
  without repositories is in the working copy only if the weekly published it, and whoever
  is about to record a hash has that hash among the batches, or such a text in the history
  (`RecordIsBacked`). Histories and queues only grow (`Grows`), so no other goroutine takes
  this away. That the issue in hand exists needs the least element of a set of numbers, from
  the well-foundedness of `<`.
* `QueueFollows`: `Spec => []QueueIsNotBehind`. As long as no syncs overlapped, one goroutine
  runs at most (`OneAtATime`), so what it hashed and parsed is the file that is still there
  (`HandsAreOfOneFile`); every file was once the issue's text (`FilesWere`), and the batches
  were queued in the order of the history, the working copy not behind them
  (`BatchesAreInOrder`).
* `TypesHold`.

### Collectors_proofs

Under `ConstantsAssumption`: `TypesHold`, and `CollectorsTakeTheirTurns`:
`Spec => []CollectorsTakeTurns`. `LocksAreHeld` says it of locks instead of jobs: whoever is
inside has the lock of its job, no two have the same, and no lock is taken without one.
`WorkStep` shows that nothing between lock and unlock changes who is inside.

### MCSources_proofs

The runs check the three feeds in one process (`SourcesSpec`), the theorems above speak of
each alone. `SourcesAreTyped`, `RememberedWasQueued`, `QueueKeepsUp` and `TurnsAreTaken` carry
them over, for any goroutines, texts, looks and bounds (the issues `{1, 2}` and the two pages
are the instance's): the `Same` lemmas relate the actions of `MCSources` with those the
proofs speak of; when one feed moves, the `Untouched` lemmas of the other two are the
frame; `Resting` says that a feed that has not the turn has no goroutine, so that the end
of the process takes nothing from it.

### Catalog_proofs

From `FactsAssumption` of `Migrations` (finitely many old rows, whose keys no new fact has,
each of a source), `NumbersAssumption`, `PagesAssumption` and `BoundsAssumption`:

* `LegacyIsKept`: `Spec => []LegacyIsCarried`. The
  heart is `NothingMissing`: a count that is not smaller, source by source, means that no
  row was left out, because what was copied is a part of a finite set. From the validation
  to the commit the transaction carries the rows (`WorkCarries`), a crash falls back on the
  database before, and what is published later has other keys.
* `AggregatesCover`: `Spec => []AggregatesCoverEvents`. `AggregatesHold` is stated of a
  database and the repositories that lost a fact, so that it can be said of the committed
  one and, from the statement that computes the aggregates on, of the open transaction
  (`WorkHolds`). `AggregatedIsExact` is the recomputation; it needs that times are bounded
  (`TimesAreBounded`), which holds as there are finitely many old facts and new ones come
  one by one.
* `QuietWalks`: `Spec => []QuietWalkListsEachOnce`. `OneListing`: a database has one
  listing in the order of the list, as two would have a first place where they differ. A
  walk that nothing disturbs follows it (`WalkHolds`, `At`: how far, for each `pc`); there
  is one lemma per statement of the reader (`CountWalk`, `RowsWalk`, `EntriesWalk`,
  `PinWalk`, `EndWalk`), about any database, so that a writer elsewhere does not matter.
* `TypesHold`.

### What stays with TLC

Liveness under fairness and `ENABLED` are out of the prover's reach: `EveryItemSettles`,
`EveryJobSettles`, `EveryRequestIsAnswered`, `StaleEntryEnds`, `EveryIssueIsRecorded`,
`HelloGitHubIsFollowed`, `EveryBackfillEnds`, `UpgradeFinishes`. So are induction over data
and recursive operators; no module uses the latter. The four disagreements of section 4
are TLC's counterexamples; of `RebuildEnds`, `RebuildWedges` proves the step that counts.

## 6. Not modelled, and the plan

Not modelled because they only move data: HTTP clients and parsers (what an answer
leads to is modelled, the texts are not), middleware, tokens, metrics, notifier,
the history import command, the scripts. Of the store, the reads that no property
is about: detail, search, languages, the source catalogue, the other orders of the
list. `EnsureGitHubRepo`, `UpsertSourceEvent`, the `Attach` functions and
`MarkGitHubRepoUnavailable` have no caller in the service; repositories that are
not available exist only in databases from before, and `Migrations` starts from them.

Two behaviours are known, modelled and held against nothing, as no document
promises otherwise: a shutdown that cancels a request costs an attempt (queue and
backfill), and a look of HelloGitHub that returns to an earlier one is not queued anew.
The migrated facts of the weekly and of zread have keys made of the repository's id,
new ones of its name: a candidate that is collected again after the upgrade is a
second fact of its issue or week. `Catalog` treats them as different facts, as the
database does.

Left to do: abstract specifications of other components than the queue, with their
refinements (the radar's slot as a register that only advances, the bulk payload as a
read of the catalogue at some moment of the request); `MCSources_proofs` for any issues
and pages, which the modules it joins already allow.

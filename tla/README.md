# Verification of jira-connector

jira-connector copies projects from Jira to PostgreSQL. A gRPC call starts a
sync, a detached goroutine copies the project page by page, and callers poll
for its state. This directory holds TLA+ models of that core, the TLC
configurations that check them on small instances, and TLAPS proofs for
unbounded instances. `PROJECT.json` lists the runs, the mutants, the mapping of
definitions to source lines, the findings, the hazards and the theorems.

## 1. The system

| Component | Source | State | Operations |
|---|---|---|---|
| Job registry | `internal/service/sync/manager.go` | maps `byID`, `byKey`, the job structs, a mutex, atomic counters | Start, Status, SetTotal, IncrProcessed, Complete, Fail, eviction |
| Sync service | `internal/service/sync/sync.go` | locals of one goroutine per sync | SyncProject, ensureProject, runSync, processPage, commitPage |
| Page fetch | `sync.go`, fetchPageIssues | producer, collector, errgroup, one pool | one per page |
| Worker pool | `internal/workerpool/workerpool.go` | two bounded channels, stopped flag, once, statistics | Submit, Stop, worker, watcher |
| Jira client | `internal/client/jira/jira.go` | delay and last error of one call; a shared rate limiter | GetIssue, SearchIssues, GetProjects over `do` |
| Repository | `internal/repository/postgres` | one transaction per page, rows of four tables | NewTx, Commit, Rollback, WithTransaction, inserts, one delete |
| gRPC handler | `internal/handler/grpc/handler.go` | none | GetAvailableProjects, DownloadProject, GetSyncStatus |
| Metrics | `internal/metrics/metrics.go` | counters, one gauge | one call per event |
| Mapper | `internal/mapper/jira_to_raw.go` | none | Jira values to rows, HashID |
| Server | `cmd/internal/cli/server` | listener, gRPC server, database pool, diagnostic servers | start, shutdown hook, Close |
| CLI sync | `cmd/internal/cli/run.go`, `cmd/internal/app` | one App, its error channel | Run, waitForSync, Close |
| Configuration | `internal/config` | none | Load: file, defaults, environment, validation |
| Database connection | `internal/database` | pool; schema version in the database | NewConnection, runMigrations |
| Observability | `internal/observability` | up to two HTTP servers | start, Shutdown |

How they interact. A handler goroutine runs `ensureProject` (Jira, then one
insert), registers a job with `Manager.Start` and, if it was new, launches the
goroutine and returns. The goroutine searches Jira, runs a worker pool per page
whose workers call Jira, writes the page in one transaction while counting each
issue in the registry and in the metrics, and finally calls `Fail` or
`Complete`. Other handlers poll the registry meanwhile, and any `Start` sweeps
expired jobs from it. The goroutine has its own context with a timeout of four
hours; neither the caller nor the shutdown of the server ends it. Around all
this lies the process: configuration, database and migrations, diagnostic
servers and the gRPC server are brought up in turn, and a signal takes them
down from a goroutine of its own. The `run` command wires the same service
without a server and polls the registry itself.

What is hard here: the registry is read and swept while goroutines write
through pointers they looked up before unlocking; the pool has five kinds of
goroutines around two bounded channels and two contexts; a page that lost
issues to the timeout is returned without an error; progress is counted before
it is committed; Jira changes between two pages; the retry loop has no bound of
its own on the attempts; pages of two syncs lock shared rows in opposite
orders, and an error of one statement is swallowed inside a transaction; the
registry dies with the process while the rows stay; and the shutdown hook races
with `main`. Section 4 of this document and the hazards of `PROJECT.json` say
which property covers which of these.

What makes each component correct: the registry keeps at most one running job
per project and never shows a torn or lost one; the pool answers for each
accepted task exactly once and always closes its results; a page fetch returns
and leaves nothing behind; a completed sync has stored what it promises and the
counters say so; a Jira call ends and waits no longer than it is allowed to; a
page is stored as a whole, with every row's author, or not at all; a process
that cannot start leaves nothing open, one that is told to stop does, and
nobody is told that a sync completed whose rows are not there.

## 2. The modules

| Module | Models |
|---|---|
| `Manager` | the registry's state and one operator per method, without any assumption on callers |
| `ManagerSpec` | the registry under its callers' contract; properties; refinement mapping to `SyncJobs` |
| `SyncJobs` | abstract: a request starts or joins a job, a job ends once, only ended jobs are forgotten |
| `ManagerProofs` | proofs about `ManagerSpec` |
| `WorkerPool` | the pool's state, one operator per step, and the properties that hold whoever calls it |
| `PoolSpec` | the pool under arbitrary callers; liveness; refinement mapping to `TaskLedger` |
| `TaskLedger` | abstract: a task is rejected, or accepted and brought to one result; only cancelling loses tasks |
| `PoolLemmas`, `PoolProofs` | proofs about `WorkerPool`'s operators, and about `PoolSpec` |
| `PageFetch` | abstract: what fetchPageIssues may answer for a page |
| `FetchPage` | fetchPageIssues: producer, collector and errgroup around the operators of `WorkerPool` |
| `FetchPageProofs` | proofs about `FetchPage` |
| `SyncService` | handlers and sync goroutines driving the operators of `Manager`; Jira, database, metrics |
| `SyncServiceProofs` | proofs about `SyncService`: its state, what a completed sync has copied, and the contract of the registry |
| `Int64` | 64-bit integers that wrap around, for `Mapper`, `JiraClient` and `Config` |
| `Mapper` | from a fetched issue to rows: HashID, collectAuthors, the mappings |
| `PageStore` | abstract: what commitPage promises runSync |
| `PageTx` | commitPage statement by statement in several syncs at once, with PostgreSQL's locks and foreign keys; refinement mapping to `PageStore` |
| `PageTxProofs` | proofs about `Mapper`'s operators and about `PageTx` |
| `Config` | Load of the configuration and New of the Jira client, with its milliseconds to durations, as operators |
| `Lifecycle` | a process from start to end and restart, server or command line, around the registry of `Manager` |
| `LifecycleProofs` | proofs about `Lifecycle` and `Config` |
| `JiraClient` | one call of the Jira client |
| `JiraClientProofs` | proofs about `JiraClient` |
| `MC*` | constants, symmetry sets and initial data for TLC |

How they compose. `SyncService` and `ManagerSpec` both EXTEND `Manager`; the
property `KeepsManagerContract`, checked and proved, says that `SyncService`
implements `ManagerSpec`, so what is proved of the registry under its contract
holds in the service. `FetchPage` and `PoolSpec` both EXTEND `WorkerPool`. `FetchPage`
shows (`FetchContract`) that the pool, producer and collector give one of the
answers `PageFetch!PageResults` allows, and the step `FetchPageIssues` of
`SyncService` takes any of those answers. `PageTx` EXTENDS `Mapper` and
implements `PageStore` (`ImplementsPageStore`), which is the view of a page's
transaction that `SyncService` takes: committed as a whole, refused, or
committed with an error for an answer. `Lifecycle` EXTENDS `Manager` and
`Config`, and reduces a sync to the pages it commits.

Correspondence of steps to code:

* `Manager`. A method that runs from Lock to Unlock is one step. SetTotal and
  IncrProcessed write after Unlock: a lookup step and a store step. Status
  copies state, processed and total one by one while the counters move: one
  step each, holding `mu`. The clock starts at `JobTTL`, so that the zero
  `finishedAt` of a running job lies further back than the TTL, as it does in
  the program.
* `WorkerPool`. Each case of a select is a step, and so are the two halves of
  Stop (flag, close) and of the watcher (flag, close). A channel is the set of
  tasks in it and a closed flag; its order matters to no property. Process
  succeeds or fails freely.
* `FetchPage`. The collector's branch for a result of an unexpected type is
  left out: Process returns nothing else.
* `SyncService`. One step per call of another component. A search may answer
  with any prefix of the requested page, also an empty one; issues may be
  created anywhere in the search order and deleted; every statement may fail,
  fails once the context is done, and a commit may fail after it took effect.
  `hist` is a history variable: what was in Jira from the first search on,
  which fetches failed, how many rows were committed. Jira answers
  `GetProjects` with all its projects as a bare list, or with the first page of
  them; both forms are parsed by the client. A call of the metrics is one step:
  a scrape between the counter and the gauge of SyncJobStarted or
  SyncJobFinished may see one without the other, which is not modelled.
* `Mapper`. A user name is a sequence of code points, HashID is computed in
  integers of width `HalfRange` and masked to `IntRange`. collectAuthors and
  MapChangelogToRaw yield what the code appends to its lists as functions of the
  place it was met at. Text and time columns stand for themselves.
* `PageTx`. `todo` is the set of statements left of the two nested loops of
  commitPage and insertProcessedIssue. Each carries its place in the loops
  (issue, part of insertProcessedIssue, author or history and item), and they
  are executed in the order of these places (`Executing`). `tx` holds the
  uncommitted rows of a writer. A statement that needs a key an open transaction has
  written is not enabled until that transaction ends; a cycle of such waits is
  broken by failing one of its statements. A failing status change is passed
  over, and leaves an aborted transaction that has released its locks; any
  other failure rolls back. After the timeout every statement fails, and
  database/sql rolls back on its own. `by` tells apart rows written by
  different runs of insertProcessedIssue, since raw.status_changes has no key.
* `Lifecycle`. `proc` has the main goroutine's program counter, the exit
  status, the resources that are open and the hook's progress, one step per
  call that can fail or that another goroutine can interleave with. A crash
  loses all of it and the registry; `rows`, `schema` and the ids handed out
  survive. A client remembers the id it was given, and polls for it after a
  restart. The exit status is main's: 0 also for a `run` that was interrupted.
* `Config`. An entry of the file is a text or an integer of `Int64s`; a
  `DB_PORT` parses or does not (Sscanf takes a leading number). New multiplies
  milliseconds by `Millisecond` in wrapping integers.
* `JiraClient`. One step per call of limiter, HTTP client and timer. Durations
  are integers of a finite width that wrap around, Retry-After may be any
  number of `Hints`. A response body is open, closed or read: on 429 and 503
  the code closes it before it reads it, so the error it wraps is a read error.

Definitions marked "Variant" are the mutants of `PROJECT.json`: the same
definition with a plausible bug. No specification uses them.

## 3. The runs

| Run | Instance | Shows |
|---|---|---|
| `manager` | 2 keys, 3 ids, 1 poller, TTL of 2 ticks, clock up to 4 | deduplication, eviction, counters, snapshots, frozen ended jobs, refinement of `SyncJobs` |
| `pool` | 2 workers, 3 tasks, queues of 1 | exactly-once, no send on a closed channel, refinement of `TaskLedger`, results get closed, Submit returns |
| `fetch_page` | 2 workers, 4 tasks, queues of 1 | contract, no goroutine left, no panic in Submit, always returns |
| `sync_churn` | 1 project and 1 unknown key, 3 of 4 issues, pages of 2, 1 deletion | coverage, counts, whole pages only, every sync ends |
| `sync_dedup` | 2 callers, 2 projects, 2 ids | one sync per project, metrics, contract of the registry |
| `jira_client` | delays 1 to 9, hints -1, 0, 1, 3, 9, 20, width 64 | no overflow by doubling, backoff bounded, cause known, bodies released, call ends |
| `page_tx` | 2 syncs, 7 pages of up to 2 issues, hashes of 3 bits | authors resolve, status changes match, refinement of `PageStore`, no page hangs |
| `lifecycle` | 2 clients, 1 project, 2 ids, 2 starts, 5 configurations | nobody is told what is not stored, shutdown and start-up in order, configuration |
| `deletion_skips` | violation | a deletion between two searches makes a completed sync miss an issue |
| `counts_persisted` | violation | issues_processed counts rows that were rolled back |
| `project_limit` | violation | a project beyond the first page of the list is "not found" |
| `shutdown_cut` | violation | the process may end before the diagnostic servers are stopped |

Why the bounds are enough. Three ids for two keys allow a job to end, its key
to be taken by a successor and the sweep to remove the first; with a TTL of 2
there are ticks before, at and after the expiry. Three tasks with queues of one
and two workers leave one more task than the workers hold, and four fill both
channels while every worker holds one. A
project of three issues in pages of two has a page boundary to shift, and the
fourth issue can be created on either side of it. Two callers and two ids make
join, restart and overlap of two projects possible. In `jira_client` a hint can
be ignored, obeyed, refused, non-positive and overflowing, and the unhinted
delay doubles past its limit in four rounds. The pages of `page_tx` hold the
same issue in two versions, the same authors in opposite orders, two names with
one hash, a name that hashes to 0 and one that overflows on the way, an
anonymous creator and changelog author, an undated history, an id that is no
number, and nothing. Two starts are what a restart needs; the configurations
are the environment alone, the environment without a server, a file with a
port of its own with and without a bad `DB_PORT`, and a malformed file. The
file's longest delay overflows a duration (a millisecond is 4 and durations have
19 bits), and its shortest is negative. Counters that would otherwise grow
are bounded by `MaxTime`, `MaxTotal`, `MaxProcessed`, `MaxDeletes`,
`MaxCounted`, `MaxStarts`, by the finite set of ids (`IdsLeft`) and by the
finite set of tasks.

Symmetry is used in safety runs only, on ids, keys, callers, tasks and workers
that the initial state does not tell apart. Deadlock is checked in every run
but those of `Lifecycle`, where a process that has ended for the last time
rightly stays so; `Terminated` and `Returned` steps mark the states in which a
pool, a page fetch, a call or all pages are rightly over.

Fairness.

* `PoolSpec`: weak fairness of each Submit, each worker, the second half of
  Stop, the watcher and the consumer. The Go scheduler runs what can run;
  Process returns because its HTTP calls carry a context and a client timeout;
  Run's comment obliges callers to drain the results, and `FetchPage` does.
  Nobody is obliged to submit, stop or cancel.
* `FetchPage`: the same for its goroutines, and the errgroup's context follows
  the job's. The timeout is not obliged to fire.
* `SyncService`: handlers and goroutines run, and `context.WithTimeout` fires.
  Jira and PostgreSQL may fail for ever.
* `JiraClient`: the call takes its next step; its context need not end.
  `EndsWithContext` is about the calls whose context does.
* `PageTx`: each writer takes its next step unless it waits for a lock,
  PostgreSQL's deadlock detector and the rollback of database/sql run. A
  waiting statement need not fail by itself, and the timeout need not fire.
* `Lifecycle`: the main goroutine, the hook, some call and some sync go on.
  Nobody is obliged to start the process, to signal it or to crash it. Two
  waits get no fairness: for PostgreSQL while connecting (`Connect`: PingContext
  and the migrations have no deadline), and for ensureProject
  (`EnsureProject`), which runs on the RPC's context or on
  `context.Background()` and calls a client that may be told to retry for ever.
  `ShutdownCompletes` names what it needs of them as hypotheses. A sync is
  ended by its own timeout.

## 4. What the checks show

* No interleaving of requests, finishing goroutines and sweeps runs two syncs
  of a project at once, loses a running job or frees the key of a successor
  (`ByKeyExactlyRunning`, `ImplementsSyncJobs`, `OneSyncPerProject`).
* Writing through a pointer after unlocking is harmless, because only the job's
  own goroutine does so and it ends the job last (`NoLostProgress`,
  `TerminalIsFinal`, with `KeepsManagerContract` for the assumption).
* The order of the loads in `snapshot` matters: processed before total keeps
  progress from being shown without a total (`SnapshotNotTorn`).
* A page truncated by the timeout is returned without an error, but never
  committed: BeginTx and the statements carry the same context
  (`FetchContract`, `WholePagesOnly`, `CompletedCovers`).
* A sync that completes has counted exactly what it committed; a failed one may
  have counted more (`ProcessedMatchesCommits`), which is where the metric
  disagrees with its description (`CountsPersistedIssues`).
* Creations between pages cost nothing but duplicates; deletions lose issues
  (`CompletedCovers`, `FetchesAllIssues`).
* An endless series of empty pages is ended by the timeout alone
  (`EverySyncEnds`).
* Every author a row refers to is inserted before it, also when the insert did
  nothing because of a collision or a concurrent sync, with one exception: an
  issue without a named creator, or a status change without a named author,
  refers to the id 0, which nobody inserts, and its page fails on every sync
  (`AuthorsResolve`).
* The upsert of the issue serialises two syncs of it, so that replacing the
  status changes afterwards never mixes or doubles them (`ChangesMatchIssue`);
  deleting first would.
* Swallowing the error of a status change never stores a page without it: the
  transaction is aborted, and the commit fails (`ImplementsPageStore`). Two
  pages that lock authors in opposite orders deadlock, and PostgreSQL fails one
  of them: the sync fails, but ends (`PageEnds`).
* Whatever crashes and restarts lie in between, a caller told "completed", and
  a command line that exits with 0 without having been interrupted, find all
  pages stored; an id from before a restart is unknown, never somebody else's
  (`ToldTheTruth`). A sync cut off by shutdown is never reported as completed.
  An interrupted `run` exits with 0 as well, whatever it has stored: the status
  alone does not tell the two apart.
* A dirty schema is never served, a start that fails leaves nothing open
  (`StartupSound`).
* A signal ends the server in every phase of its start and while it serves,
  provided that no RPC hangs in ensureProject: GracefulStop has no deadline, so
  a Jira that keeps asking for another attempt keeps the server from stopping.
  It ends a `run` whatever Jira does, once the database is connected; without a
  signal a `run` ends by itself unless its ensureProject hangs
  (`ShutdownCompletes`).
* Text settings follow environment, file and default, a base URL in the
  environment alone is accepted, and the Jira client gets the file's rate, its
  page size cut to 50..1000 and its delays (`ConfigPrecedence`). The exceptions
  are part of the property: a `DB_PORT` that is no number replaces even a port
  from the file by the default, `DB_PORT=0` is taken literally, and a delay that
  overflows a duration (292 years in milliseconds) is used as it comes out,
  which may be negative.
* `NotFound` may mean that the project is beyond the first
  `defaultProjectsLimit` ones (`NotFoundMeansAbsent`), and the last steps of
  `Close` may be cut off by the end of `main` (`DiagnosticServersStopped`).
* Met on the way and not the subject of a run: `tests/e2e/connector_test.go`
  (line 136) expects DownloadProject to answer "completed", while it answers
  "running"; the help text of retries_total (`internal/metrics/metrics.go`,
  line 173) speaks of 5xx, while only 429 and 503 are retried.
* The retry loop is bounded by its delay unless Jira sends Retry-After, and by
  the context always (`EndsUnaided`, `EndsWithContext`, `BackoffBudget`).

## 5. What is proved

`ManagerProofs`, for every set of keys, ids and clients, every TTL and all
bounds, from `ManagerAssumption` and `BoundsAssumption`: `TypeOK`,
`ByKeyExactlyRunning`, `FindableUntilTTL`, `NoLostProgress`, `SnapshotNotTorn`
are invariants of `ManagerSpec!Spec`, `TerminalIsFinal` holds, and the registry
implements `SyncJobs`. None of the invariants is inductive alone. The inductive
`IInv` adds:

* `JobsInv`: a job's state agrees with its goroutine, its presence in `byID`,
  its key and its error text;
* `CountersInv`: nothing is counted before the total is positive;
* `LockInv`: a client in the middle of `snapshot` holds the lock, and what it
  has copied so far agrees with the job: the state cannot change under the
  lock, a counter can only have grown.

`ByKeyExactlyRunning` says which entry Complete and Fail delete,
`FindableUntilTTL` that the goroutine's lookup succeeds, `LockInv` carries the
partial snapshot to its last load. The refinement maps a job's state, together
with its presence in `byID`, to the life cycle of `SyncJobs`; the sweep is the
set of jobs forgotten along with a request.

`JiraClientProofs`, for all delays, hints and widths, from `DelayAssumption`,
`HintAssumption` and `CallAssumption`: `TypeOK`, `BackoffBudget`, `CauseKnown`
and `BodyReleased`. The strengthening `Grown` says that before any hint the
time slept is what the delay has grown by, and that the delay was doubled only
from within the limit; `FailedBefore` that without an earlier error the delay
has not passed the limit; `BodyInv` that a backoff or a network error holds no
open body. `Grown` also keeps the unhinted delay from ever falling below
`MinRetry`: the doubling stops before it overflows. `DelayAssumption` leaves out
a limit whose double overflows 63 bits, and delays that `Config!New` has wrapped.

`PoolLemmas`, `PoolProofs`, for all workers, finite sets of tasks and
capacities, from `PoolAssumption`: `TypeOK`, `ExactlyOnce`, `NoSendOnClosed`,
and the pool implements `TaskLedger`. `PoolInv` adds to the types that a worker
holds a task exactly while it processes or sends it and no two hold the same
(`HoldInv`), that a task is in one place and vanishes only by cancellation
(`PlaceInv`), that nothing is sent before Process has returned (`OutcomeInv`),
and who stopped the pool, who closed which channel and why a worker left
(`StopInv`): a worker leaves only when the context is done or the closed channel
is drained, which is why no accepted task is forgotten. There is one lemma per
operator of `WorkerPool`, without any assumption on who calls it; the pool under
arbitrary callers and the page fetch both rest on them.

`FetchPageProofs`, for pages of any length: `FetchContract`, `NoGoroutineLeft`
and `NoSubmitPanic`. `FetchInv` adds to `PoolInv` that the producer has one
Submit under way and alone stops the pool, that whatever went wrong on the way
to the pool, the job's context is done, and that the collector has kept exactly
the results it received without an error.

`SyncServiceProofs`, for any callers, projects, ids, issues, page size and
bounds, from `ManagerAssumption` and `SyncAssumption` (the issues are a finite
set, and a search lists an issue once): `OneSyncPerProject`,
`ProcessedMatchesCommits`, `MetricsAgree` and the action property
`WholePagesOnly`. `SyncInv` ties together, per sync, the registry and the
goroutine (`JobInv`: a sync is registered under its key exactly while its
goroutine works, and its error decides its final state), a call and the one sync
it will launch (`CallInv`), the page, what was fetched of it and what the
transaction holds (`PageInv`), and the count (`CountInv`: what was committed
plus what the open transaction holds, but for the issue just being counted).
`MetricsInv` states the metrics as cardinalities of sets of goroutines.

The same module proves `CompletedCovers` and `KeepsManagerContract`, with the
stronger `ContractInv`.

* Completeness is an argument about places in the search order. As long as
  nothing is deleted, the issues that were there at the first search only move
  to the right, so those at or before `startAt` have been on a page
  (`CoverInv`). That nothing lay behind the last page is true when that page is
  read and cannot be told from places later, when issues have been created in
  front of it; so it is a conjunct of its own, attached to `LastPage`.
* The contract of the registry needs that the goroutine finds its job (a
  running job is not evicted), that it counts only after a positive total was
  stored, and that it never counts more than there are issues (`LoopInv`: what
  was committed lies before `startAt`, and `startAt` plus the page does not
  exceed the issues). The refinement maps a program counter to the stage of
  the runner in `ManagerSpec`, and the count to the calls of IncrProcessed;
  searching, fetching and committing are stuttering steps.

`LifecycleProofs`, for any pages, clients, restarts and any configuration files
and environments (`Inputs` is any set of `Config!Sources`), from
`LifecycleAssumption`, `ManagerAssumption` and `DurationAssumption` (the default
delays fit a duration): `ToldTheTruth`, `DrainedBeforeClose`, `StartupSound` and
`ConfigPrecedence`. What a caller is
told concerns the past. `LifeInv` ties the present to it: a job of this process
was started by it under an id no earlier process has used (`IdentityInv`), and
its goroutine has committed the pages before the one it is at (`PagesInv`). How
far the main goroutine has come tells what is open and migrated (`StageInv`), and
past GracefulStop there is no RPC (`DrainInv`).

`PageTxProofs`, for any number of syncs, pages of any length, changelogs of any
length, names of any length and any widths, from `WidthAssumption` (the id
column's range divides that of the integers) and `PagesAssumption` (a page is a
sequence of issues as Jira may send them): `TypeOK`, `AuthorsResolve`,
`ChangesMatchIssue`, and `PageTx` implements `PageStore`.

* Of the mapper it is proved that HashID stays within the column, whatever
  overflowed before the mask (`HashIDRange`), and that collectAuthors forgets
  no name (`CollectsAuthors`). Both hold for sequences of any
  length and rest on `NatMin`: every non-empty set of naturals has a least
  element, which follows from the library's fact that finite sets are
  well-founded under inclusion. For HashID it is the first round that would
  leave the integers, for collectAuthors the first place a name is met at.
* `IInv` follows each writer through its loops. The statements executed are an
  initial part of the page's in the order of places (`OrderedOf`). As long as
  the transaction can commit, each author executed has a row, its own or one
  somebody else inserted (`AuthorsOf`); the transaction holds the last executed
  version of each issue (`IssuesOf`), and from the delete on it sees exactly
  the status changes inserted so far for it (`ChangesOf`). A transaction that
  cannot commit holds nothing (`TxOf`), and an issue without a number is never
  passed (`InvalidOf`).
* `Exclusive`, that no two transactions hold the same issue, is what the upsert
  of the issue before the delete provides. It keeps a commit of one writer from
  touching status changes another one has deleted or inserted, and without it
  `ChangesOf` is not preserved by a commit.
* The refinement: at a commit nothing is left to execute, so the transaction
  holds the last version of every issue of the page and a row for every author
  mentioned, which is what `PageStore!Store` adds. Every other step of a writer
  that ends its page is a refusal, and the rest stutter.

The inductive invariants were checked with TLC on the runs' instances before
they were proved. The safety theorems about `SyncService` and the pool's
invariant are stated for `Safety`, the specification without its fairness,
which `Spec` implies.

Only model-checked:

* Liveness, all of which rests on fairness: `ResultsGetClosed`,
  `SubmitReturns`, `FetchReturns`, `EverySyncEnds`, `EndsUnaided`,
  `EndsWithContext`, `PageEnds`, `ShutdownCompletes`.
* That the registry's theorems carry over to the service by
  `KeepsManagerContract` is the usual step from a refinement, and is not
  repeated as theorems about `SyncService`.

No RECURSIVE operator is used.

## 6. What is not modelled

* GetAvailableProjects: forwards its arguments to the Jira client and the
  answer back; the client's paging and parsing are in `JiraClient` and
  `SyncService!GetProjects`.
* The gRPC client command (`cmd/internal/cli/client`): prints what the RPCs
  return, and no command registers it.
* Generated code (`gen/proto`), the interceptors, log lines, metrics other than
  the sync and retry counters: no state of their own that anything reads.
* The text of queries, URLs and error messages.
* The rate limiter beyond what `do` sees of it; PostgreSQL and golang-migrate
  beyond what the statements meet; a panic in a goroutine.

## 7. Plan

Done: `Manager`, `ManagerSpec`, `SyncJobs`; `WorkerPool`,
`PoolSpec`, `TaskLedger`; `FetchPage`, `PageFetch`; `SyncService`;
`JiraClient`; `Mapper`, `PageStore`, `PageTx`; `Config`, `Lifecycle`; and the
proof modules.

Proved: the safety properties and refinements of the registry, the pool, the
page fetch, the sync service, the Jira client, the page transactions and the
lifecycle: every invariant, action property and refinement that a passing run
checks is also a theorem.

Left to TLC: the liveness properties of section 5. Open: whether an assignee
whose name hashes to 0 should be stored as NULL, as `int64Ptr` does now; no
property decides this.

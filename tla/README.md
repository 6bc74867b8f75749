# sceneweave: a verification project

TLA+ modules of sceneweave's server, the TLC configurations that check them, and
TLAPS proofs about them. sceneweave turns scripts into storyboards and videos: a
FastAPI server keeps projects as JSON files, puts generation work into a queue
in a database, runs it with an asyncio worker against external providers, and
hosts chat sessions with an agent that edits the projects. There are threads only
where files are read and written; the hard parts are what asyncio tasks, those
threads, several server processes and the database do to each other between two
awaits, and what is left when one step of several fails.

Paths below are relative to `src/`. Every definition that stands for code is
mapped to its lines in `PROJECT.json`.

    tlc -workers 2 -config Generation.cfg MCGenerationWorker.tla
    tlapm GenerationWorker_proofs.tla

## 1. Inventory

| component | code | state | operations | modules |
|---|---|---|---|---|
| Task queue | `lib/db/repositories/task_repo.py`, `lib/generation_queue.py` | tables `tasks`, `task_events`, `worker_lease` | enqueue, claim, succeed, fail, cancel (one, all), requeue, lease | `TaskQueue`, `TaskLifecycle` |
| Generation worker | `lib/generation_worker.py` | lease flag, provider pools, in-flight asyncio tasks | poll loop, claim, execute, put back, recover, reload, stop | `GenerationWorker` |
| Queue client | `lib/generation_queue_client.py`, `lib/storyboard_sequence.py` | what it waits for | enqueue and wait, batch with dependencies | `BatchClient` on `TaskQueue` |
| Grids | `server/routers/grids.py`, `lib/grid_manager.py`, `lib/grid/layout.py` | grid records | generate, regenerate, clean up, run | `GridRequests` |
| Generation services | `server/services/generation_tasks.py`, `lib/media_generator.py` | files, thumbnails | body of a task | `GenerationTasks` |
| Version manager | `lib/version_manager.py`, `server/routers/versions.py` | `versions.json`, files | add, track, restore | `VersionManager` |
| Project store | `lib/project_manager.py`, `server/routers/projects.py`, `files.py` | `project.json`, scripts | load, save, locked update, sync of the index | `ProjectStore` |
| Provider calls | `lib/*_backends/`, `lib/retry.py`, `lib/usage_tracker.py` | row of a call, job of a provider | request, poll, fetch, save, record | `ProviderCalls` |
| Rate limiter | `lib/gemini_shared.py` | log of a window, settings | acquire, refresh | `RateLimiter` |
| Credentials | `server/routers/providers.py`, `lib/db/repositories/credential_repository.py` | rows, key files, cache of backends | create, upload, update, activate, delete, configure, build | `CredentialStore` |
| Custom providers | `server/routers/custom_providers.py`, `lib/config/resolver.py`, `lib/custom_provider/` | providers, models, settings | create, replace models, delete, resolve | `CustomProviders` |
| Library of assets | `server/routers/assets.py` | table, pictures | create, replace, take over, rename, delete, apply | `AssetLibrary` |
| Source texts | `lib/source_loader/`, `server/routers/files.py` | texts, originals | upload, edit, delete, convert at start | `SourceFiles` |
| Session actor | `server/agent_runtime/session_actor.py` | command queue, command driven, command set aside | connect, query, interrupt, disconnect, cancel | `SessionActor` |
| Session manager | `server/agent_runtime/session_manager.py` | registry, status, locks, timers | create, connect, send, interrupt, evict, patrol, delete | `SessionManager` |
| Stream of a session | `session_manager.py`, `service.py` | buffer, queues, cache | publish, subscribe, prune, snapshot | `SessionFeed` |
| Turns | `turn_grouper.py`, `stream_projector.py` | turns, patches | group, attach, patch | `TurnProjection` |
| Transcript | `lib/agent_session_store/store.py` | rows, summary | append | `AgentSessionStore` |
| Project events | `server/services/project_events.py` | channels, snapshots, queues | subscribe, watch, emit, unsubscribe | `ProjectEvents` |
| Migration | `lib/project_migrations/` | files | migrate | `ProjectMigrations` |
| Archive | `server/services/project_archive.py` | files | export, repair, import, install | `ProjectArchive`, `ProjectInstall` |
| Prompts and scripts; HTTP API; status; frontend | `lib/prompt_builders.py`, `server/auth.py`, `lib/status_calculator.py`, `frontend/` | none, or their own | text, validation, read-only computations, a client | not modelled |

The worker claims rows of the queue and runs the generation services, which call a
provider through the limiter with a backend built from credentials or a custom
provider, and write files, history and documents; requests write the same files;
the project events read them. A session manager drives one actor per session,
whose messages go to the feed, from there as turns to the viewers, and later to
the transcript.

What is hard in each, and what makes it correct:

* **Task queue.** Claim, fail, cancel and recovery SELECT first and UPDATE
  later. Correct: one active row per dedupe key; an outcome is final; a task that
  dies takes the queued tasks behind it along; nothing runs before its dependency.
* **Generation worker.** A lease that can run out, recovery that must happen
  after a crash and must not happen otherwise, executions that outlive the loop,
  limits that change under running tasks. Correct: one execution per task, which
  owns its row and its slot; nothing is forgotten; every task settles.
* **Queue client, grids.** A worker that goes offline in the middle of a batch; lists
  read before records change. Correct: what a batch is told of an item is true, a retry
  shares what is still to be generated; every scene is in one grid, a task finds its record.
* **Generation services, versions, project store.** A run awaits a provider without
  a lock; documents are loaded and saved under separate locks. Correct: the current file is
  the current version, no content is overwritten without a copy, no sheet is lost.
* **Provider calls, limiter.** What is retried, and what a retry pays for again; sleeping on what was
  read of the window. Correct: one job, one token per request, a row that says how it ended.
* **Credentials, custom providers.** Rows read before another's commit; caches; ids that are
  given again. Correct: the backend kept is the one in force, one credential is in use, no
  reference outlives its provider.
* **Assets, source texts.** Two stores that are written one after the other without a lock.
* **Session actor.** A message of the response, its end or its failure, and
  a command can arrive in one wakeup. Correct: no command is lost, every caller is
  answered, a prompt goes out once.
* **Session manager.** Several awaits between looking at the registry, the
  status or the number of sessions and using what was seen. Correct: one actor
  per session; the limit holds but for the requests in flight; the row follows the status.
* **Stream, turns, transcript.** Bounded queues, pruning and late writes. Correct: a viewer
  lacks nothing, patches give the turns a reader gets, appends are neither lost nor repeated.
* **Project events.** Subscribers join and leave while the watcher scans.
* **Migration, archive.** Stopped half way and started again; repaired twice.

`PROJECT.json` lists these hazards with their lines, and for each the properties that
would catch it going wrong.

## 2. Runs

Components that share no state are run by one configuration: a variable `part` of `MCBackends`,
`MCFiles`, `MCStreams` and `MCServices` is chosen at the start and says which of them moves,
the others stay as they begin, in one of their initial states. In `MCFiles` it also says which
kinds of tasks run.

| run | instance | what it asks |
|---|---|---|
| `Generation` | 1 worker, 2 rows (image, video), 2 executions of each, 2 providers of which one may be removed, 1 restart or 1 fault; fairness | `TypeOK`, `AtMostOneExecution`, `ExecutionOwnsTask`, `DependencyFirst`, `NobodyForgotten`, `ResultsStick`, `NeverOverLimit`, `ImplementsLifecycle`, `EveryTaskSettles` |
| `Backends` | 3 requests for tokens in 7 ticks; one call; 2 requests for grids of 11 scenes; 3 requests on 3 credentials; 3 on custom providers; 2 on 2 assets of the library | `Paced`, `CallAccounted`, `GridsHonest`, `CredentialsHonest`, `ProvidersHonest`, `LibraryHonest` |
| `WorkerOverlap` | 2 workers (symmetric), 2 rows in one lane, no restart, no fault | `UniqueActive`, `TerminalNeverReopens`, `SettlesDependents` |
| `SingleActiveLease` | 2 workers, 1 row | violated: see the findings |
| `StreamFailure` | a query and an interrupt; the stream may raise | `Released`, violated |
| `Sessions` | 2 sessions, 2 requests at a time, limit 1; 3 requests in all, or 2 and a fault | `OneActor`, `RowFollows`, `BoundedExcess` |
| `StuckRunning` | the same | `ClosedIsSettled`, violated |
| `Files` | a storyboard beside a video or a grid, or a unit beside a sheet: 2 runs, a request, a fault, 3 of them at most; or 2 batches on 3 items and 3 rows, a worker that leaves once | `ShownTrue`, `DocumentsKept`, `OldFileKept`, `BatchHonest` |
| `LostSheet` | the resources of `Files`, with 2 runs, a request and a fault in any mixture | `SheetsShown`, violated |
| `Streams` | the actor with every exception and cancellation; a viewer or the history of 2 turns; 2 clients of the events; fairness | `SentOnce`, `ViewsComplete`, `StreamsClose`, `SnapshotTold`, `ChangesReach` |
| `Services` | 3 queries, an interrupt and a disconnect, where connect, query and interrupt may raise, under fairness; 5 messages; 3 appends; a migration cut off twice; a project through an archive; 3 imports; 2 requests on source texts | `NoneMislaid`, `Released`, `NobodyHangs`, `ControlsWork`, `LiveView`, `TranscriptKept`, `MigrationWhole`, `RoundTrip`, `ProjectKept`, `SourcesHonest` |
| `MigrationCrash` | 2 clues, one cut | `NothingStranded`, violated |

A property that is the conjunction of several (`ShownTrue`, `BatchHonest`, ...) is one
because they are about one piece of state. Requests of a kind that differ in nothing come in the order of
their numbers (`InOrder`), which loses no behaviour but renamings of others. These
restrictions lose some. `Little`: in `Generation` a fault comes alone, without a crash or a
removed provider (an action constraint beside `FairSpec`, which stops requests, crashes, faults and
reloads only: no fairness condition is about them, so what is fair can always go on); in
`Files` of two runs, a request and a fault, and in `Sessions` of three requests and a fault, only
three come together. `OneBatch`: two clients of the events meet one
batch at a time, which announces the second change (several batches, and changes nobody
announces, are for one client alone, in a part of its own); in `Files` the second batch
comes only to a script that is cut. `Deltas`: a viewer may meet transient messages in the first
turn, the history none. The theorems of section 10 have none of these bounds.

`CHECK_DEADLOCK FALSE` stands where requests, calls, appends or imports are finite and
the component may rest for good.

## 3. The generation queue

### State and actions

`TaskQueue` has the rows as functions on their number (`status`, `key`, `dep`)
and the lease row. Rows are numbered by `queued_at`, so "oldest" is "least". Each
operator is one transaction **from its first write to its commit**: SQLite
takes the write lock with the first UPDATE, INSERT or DELETE, so nothing
interleaves after that, while a SELECT before it reads a state that may be gone
when the write happens. That is why `claim_next`, `mark_failed`, `cancel_task`
and `requeue_running` are two actions each in `GenerationWorker`, with what the
SELECT returned in between (`seen`, `cancelling`, an execution's phase
`"failing"`), and `mark_succeeded`, which only writes, is one. The statements
keep their WHERE clauses: `TakeRow` and `RequeueRows` are guarded by the status,
`SucceedRow` and `FailRow` write by id alone. The cascade of `_mark_failed_internal`
and `cancel_task` is the least set closed under "depends on" (`Dependents`).

`GenerationWorker` has one loop per worker. `pc[w]` is the await at which the loop
resumes, and what lies between two awaits is one action:

| label | code (`lib/generation_worker.py`) | actions |
|---|---|---|
| `renew` | top of `_run_loop`: lease, drain of finished tasks, what to do next | `RenewLease`, `Stop` |
| `recover`, `requeue` | `requeue_running_tasks` | `RecoverSelect`, `RecoverUpdate` |
| `select`, `take` | `claim_next_task` | `ClaimSelect`, `ClaimUpdate` |
| `route` | provider, pool and slot of the claimed task | `Route` = `Refuse`, `PoolFull` or `Dispatch` |
| `refuse`, `refuseWrite` | `mark_task_failed` in the claim loop | `RefuseSelect`, `RefuseUpdate` |
| `putback` | `_requeue_single_task` | `PutBack` |
| `draining` | `stop`, `_wait_inflight_completion`, release of the lease | `FinishStop` |
| `dead` | an exception escaped `_run_loop`; nobody starts it again | `LoopDies`, `ExitDead` |
| `off` | the process is not there | `Start`, `Crash` |

An execution is an asyncio task of its own (`execs`), told apart from earlier ones
of the same row by `try`. It succeeds, fails in two steps, or is lost
(`Abort`: an exception before the `try` block of `_process_task`, or out of
`mark_task_failed`). An entry of a pool's in-flight dict keeps its slot after its
execution ended, until the loop drains it. `ReloadLimits` may happen at any
await. Requests (`EnqueueRequest`, `CancelSelect`, `CancelUpdate`, `CancelAll`)
come from the server's routers at any time, and the lease may run out at any
time, however recently it was renewed: the model has no clock, which covers a
slow event loop and a drain that does not renew.

The provider of a claimed task comes from project and global settings, so
`Route` admits any. A row's dependency is any existing row of the same project,
in whatever status it is by then: that is what the batch client can pass.

### Bounds and fairness

Bounds. `MaxTasks` is the number of rows that are ever created: two rows give
every pair of races between a row and its dependent and let a dedupe key be
enqueued again. `MaxTries` bounds the executions per row; 2 is the least that lets a
lost execution be followed by a second one while the first may still be alive.
`MaxRestarts` and `MaxFaults` bound crashes and shutdowns, and escaping
exceptions, of which `Generation` has one or the other. At the bound on executions
`Route` has no dispatch to do, and that is the only place where a bound stops a
worker: `EveryTaskSettles` needs and gets `MaxTries` one above `MaxRestarts`. The
runs of the worker alone check deadlock: its loop can always take a step.

Two rows matter for lanes and dependencies, two providers and a pool that
disappears for reloads: `MCConfigs` holds the configuration that removes the provider
another one can stand in for. (One that lowers a lane to 0 leaves its tasks queued until it
is raised again, so `EveryTaskSettles` does not hold with it; `NeverOverLimit` is proved for
any configurations.)

Fairness (`FairSpec`): the loop of a worker goes on, including the restart of a
server that ended, because its awaits are database calls and a sleep;
executions end, because providers return or raise (they have timeouts of their
own); a lease whose owner is gone runs out, because time passes. Requests,
shutdowns, crashes and reloads are not fair. There is no strong fairness. The
fairness per row (`\E x \in execs : x.task = t /\ ...`) is that of the asyncio
tasks, of which a single worker has one per row.

### What holds of one worker, and what of several

`app.py` starts one worker in each server process, and nothing but the lease
keeps two apart. With a single worker everything in `Generation` holds. With two
it does not (see the findings), and `WorkerOverlap` shows what the guards of the
statements still buy: no two active rows of a key, no settled row reopened, no
dependent left behind.

`NobodyForgotten` and `EveryTaskSettles` hold until an exception escapes
(`faults = 0`). After one, a row may stay `running` until the server is
restarted, because recovery runs only when the lease is newly acquired; the
code accepts that. A worker that is stopped is no exception: while it drains, what it
executed is remembered, and once it has given the lease back whoever takes it recovers.
`EveryTaskSettles` leaves out `Stranded` rows: a row that is
enqueued behind a dependency which is already dead is never claimable, and no
step of the code settles it.

## 4. The session actor

### State and actions

`SessionActor` is one actor task with its command queue. `apc` is the await it is
suspended at; `cur`, `aside`, `got` are the local variables `cmd`,
`pending_query` and the result of `cmd_task`; `msg` is the result of `msg_task`.
A command's two events are the sets `sent` and `done`, and `Mark` is `complete()`
and its siblings. `Wake` is one round of the drive after `asyncio.wait` returned,
with a message, a command or both; `EndOfStream`, `StreamError` are the rounds in which
the message task had ended. `Unwind` is an exception on its way out through the
`except` of `_drive_query` and the `async with` of the client; `End` is the
`finally` of `_run` with its drain. `Cancelled` is `cancel_and_wait`, which can
come out of every await. The SDK client is the environment: it delivers messages,
ends the stream, or raises where `Raises` says so.

`Cmd` is finite because each command is an object of its own, enqueued once.

### Bounds and fairness

Three queries are one to drive, one to set aside and one to refuse; with an
interrupt and a disconnect each branch of the drive meets each other. Nothing
else is bounded: the response may have any number of messages. `Services` runs the actor with
the exceptions after which it releases what it holds, for what its callers may rely on;
`Streams` with all of them and with cancellation, for what holds whatever raises.

Fairness: the actor's task and the task that gets a command are run by the
event loop, and SDK calls return or raise (`WF_vars(Step)`, `WF_vars(Get)`).
`NobodyHangs` assumes in addition that a response which may end at any moment
does not stream forever (`StreamsEnd`); `ControlsWork` does not: an interrupt
or a disconnect must get through to a response that never ends.

## 5. The session manager

`SessionManager` numbers the `ManagedSession` objects in the order they are made; its
actor is reduced to what `SessionActor` promises (a query is sent when it is free, an
interrupt and a disconnect are heard at once, it may die). `req[r].pc` is the await a request
is suspended at, an element of `disconnecting` an eviction under way with its step,
`managed[c].proc` the inbox processor. Every write to the table `agent_sessions` is an action of
its own, because it is awaited; what lies between two awaits is one action. A connect lock is
per id and made on demand; `_evict_one` throws it away (`locks` counts how often), and a
request that waits for a lock that was thrown away goes on beside one that holds the
new one.

`overlap` are the ids that a request set out to connect while they were being disconnected,
or under a lock thrown away: there the code loses track, and `OneActor` and `RowFollows` leave
them out. It has also the numbers of new sessions that got their id in the middle of an eviction
under the number (`session_manager.py:1442-1502` and `:1896-1938`): the eviction then removes
nothing from the registry, and `BoundedExcess` allows one session more for each. Not modelled: the options of an agent, its prompt, the path rules of its tools, the
hooks that validate its edits. The model has no clock, so the least recently used session is
any of those that may be evicted, and a timer may go off at any time.

Bounds: two tasks serve requests, three in all, or two and a fault (an actor that
dies, a connect that raises, a disconnect that times out, the patrol, a restart): enough for a second request inside the awaits of a first and a third that
finds what they left.

## 6. The files of a project

`ProjectStore` has the documents as sets of facts: what a writer loses is what was shown before and
is not after, although its edit did not take it away (`stale`). `VersionManager` has the
contents of files as numbers in the order they were made. `GenerationTasks` extends both with
the runs of the executors (`execute_*_task`): `Generate` is the provider's answer over the
current file; the version, the thumbnail and the documents follow in steps of their own, with a
failure or a crash possible after each; and with the requests that restore, upload, edit and delete.
Every run, also that of a grid (`generation_tasks.py:1205`), begins with `load_project`, which may
write the document back and waits for the project's lock. `anew` says that the asset of a sheet was
deleted and added again since its run began: the new entry need not show the sheet of the old one.
`strays` are the files that came in without a version (uploads, cells of a grid, failed
recordings); `robbed` says that somebody wrote the file of a run under way.

`AssetLibrary` and `SourceFiles` are two more stores of files, with the same shape: a request is a
record with the step it has reached, a transaction or a call on the file system is a step,
and a request may raise, or end with the server, at each. Their properties name what they leave
out by history variables: `botched`, `orphaned`, `contested` (an overlap or an end of the server in
between), `mixed` (requests overlapped on a stem, or one failed). At the start the texts have
contents of their own; the assets differ in names and pictures, and the pictures
there are are theirs (`LibraryAssumption`).

What the models leave out: the format of documents; a user who names an asset like a numbered
copy; markdown sources; the extraction of text; the entries of a project's sheet with another
extension.

## 7. Sessions as they are seen, events, migration, archive

* `SessionFeed`: a message is its round and kind; `early` are those that the buffer let go before
  the transcript had them. A viewer's queue has room for what the buffer keeps (`BufferFits`; in the
  code both sizes are 100), so replaying the buffer does not overflow it.
* `TurnProjection`: grouping is done anew from the beginning at each message, as in the code
  (`Grouped` folds over the messages), and the patch is computed from the turns before and after.
* `AgentSessionStore`: an append reads the next number, inserts, folds its entries into the
  summary and commits, and begins again when another one took its numbers. From the insert
  to the commit it is alone (`writing`): SQLite has one writer, and PostgreSQL makes an insert of
  a taken number wait.
* `ProjectEvents`: a read of the project is a step of a thread, everything else runs on the event loop.
* `ProjectMigrations`, `ProjectInstall`: a call on the file system is a step that may fail, and the
  server may stop before any. `ProjectArchive`: export, repair and import are functions of a
  project, checked over the projects of `MCProjects`.

Fairness (`EventsFairness`, `FeedFairness`): a thread that reads returns, the event loop
goes on, queues are read by their streams. Requests, changes, batches and departures are not fair.

## 8. Around the worker

* `BatchClient`, on the tables of `TaskQueue`: the plan of dependencies of a batch, its enqueueing
  item by item, its polling, the grace for an offline worker and the time limit; the worker is reduced
  to its transactions. A row behind a dependency that was dead when it was enqueued stays queued; the
  batch hears `gave up`. The scripts that run batches are outside `src`; their use of the plan is external.
* `GridRequests`: what a request does between two awaits is one step. `uprooted` and `adrift` name the
  grids whose record was removed on an old list, and whose task was never enqueued or was cancelled.
  `BreakSets` and `OldGrids` may be any segments and any earlier records, with overlapping scenes too.
* `RateLimiter`: the window is a log of times; `taken` is the history of tokens with the limit and gap that
  their request had read.
* `ProviderCalls`: one call, of a backend that is a record saying which phases it has, how often each
  is tried and whether it is paced. Errors are `passing` or `lasting`, as the retries tell them apart.
* `CredentialStore`, `CustomProviders`: a request reads, then writes in a transaction of its own;
  a key is the number of the write that made it; ids are given again as SQLite does. `torn`, `misread`,
  `swept`, `littered` are histories of the orders in which the code goes wrong by design of
  the property: a backend built during a change, a write on the word of an old table, a file taken along,
  a clean-up that failed.

## 9. Findings

1. `SingleActiveLease`. `lib/generation_worker.py:198` calls the lease
   "single-active". A worker that loses it stops claiming but lets its executions
   go on, and the worker that takes it over requeues every running row
   (`:374` looks at its own in-flight work only). Both then execute, possibly the
   same task, and the last one to finish decides its outcome.
2. `StreamFailure`. `session_actor.py:88` says that leftover commands are drained
   on normal and abnormal exit so that callers do not hang. When the stream
   raises in the wakeup in which a command had been dequeued, that command is in no
   queue and nobody completes it: `send_interrupt` or `send_disconnect` hangs.
3. `StuckRunning`. `session_manager.py:1490` says that a session still marked running when it is
   closed is given a final status. `send_disconnect` has set the status to closed by then, so the
   branch is not reached, and a row written `running` meanwhile stays so.
4. `LostSheet`. `project_manager.py:1158` says that `update_project` avoids the lost update between
   concurrent tasks. Requests that load and save (`projects.py:722`) do not use it, and overwrite a sheet.
5. `MigrationCrash`. The docstring at `v0_to_v1_clues_to_scenes_props.py:140` says that the next start tries
   again. A start cut off after the folder `clues` was removed leaves the version files in
   `versions/clues`, and the next one raises the schema.

Met while modelling, and written into the exceptions of the properties rather than into
a run: the comment "1. 若已存在，确保旧文件被记录" of `media_generator.py` is not true of uploads and
cells over an existing history (`strays`); the clearing of the cache after a change
(`providers.py:312`) leaves a backend that a task was building (`torn`); the docstring of
`loader.py` asks its callers to exclude each other, and the router does not (`mixed`); the
docstrings of `grids.py` ask for four scenes where the code asks for one.

## 10. Proofs

Every invariant and action property of the passing runs is also a theorem, for any values
of the constants, but `RoundTrip`. The modules:

| module | about | theorems |
|---|---|---|
| `TaskQueue_proofs`, `Numbers_proofs` | lemmas: the tables, `Dependents`, the least and the next number, cardinalities | |
| `GenerationWorker_proofs` | worker, life cycle | `TypeCorrect`, `Dedupe`, `NeverReopened`, `CascadesAreComplete`, `SingleWorkerSafety`, `OutcomesAreFinal`, `ExecutionsOwnTheirTask`, `DependenciesFirst`, `NoneForgotten`, `LimitsRespected`, `WorkerImplementsLifecycle` |
| `Backends_proofs` | calls, credentials, custom providers, limiter, grids | `CallsAccountedFor`, `CredentialsStayHonest`, `ProvidersStayHonest`, `TokensPaced`, `GridsStayHonest` |
| `Services_proofs` | actor, stream, turns, transcript, events, migration, install | `TypeCorrect`, `DoneWakesSenders`, `PromptsGoOutOnce`, `NothingMislaid`, `NobodyLeftBehind`, `NobodyLacks`, `ViewIsLive`, `TranscriptIsKept`, `SubscribersAreTold`, `MigrationIsWhole`, `ProjectIsKept` |
| `SessionManager_proofs` | session manager | `SessionTypes`, `ActorsAreOne`, `ExcessIsBounded`, `RowsFollow` |
| `Files_proofs` | source texts, library, batches | `SourcesStayHonest`, `LibraryStaysHonest`, `BatchesStayHonest` |
| `GenerationTasks_proofs` | files and documents of a project | `FilesStayTrue`, `OldFilesAreKept`, `DocumentsStayKept` |

What they assume of the constants is the named `ASSUME` of each module: types and finiteness, that
the marks for "nobody" and "nothing" are no members of what they stand beside, and bounds that are
natural numbers. Those that say more:
`BufferFits` (a queue has room for the buffer: both are 100 in the code),
`LibraryAssumption` (the assets there are differ in name and picture: the table has a unique
index, a picture gets a name of its own), `NamesBegin` (a name begins with itself),
`TableAssumption` (a key belongs to one project and medium), `BatchAssumption` (the items of a
script are numbered). Three theorems have a hypothesis of their own: `OneWorker`, `Gentle`, and the
gap of `TokensPaced`; below it is said why.

### The worker

For any number of workers `TypeOK` is inductive: it says, with the types, that the loop holds
exactly one existing row from the claim to the dispatch. `UniqueActive` is inductive with
it; the step that needs thought is the requeue of stale ids, where the guard
`status = 'running'` keeps a row whose key was enqueued anew from coming back.
`SettlesDependents` rests on lemmas about `Dependents` (it is closed, and stays so
after the cascade).

The rest holds of a single worker (`OneWorker`; with two it is false, see the findings), and none
of it is inductive alone. The strengthening, `Solo`, adds what the loop knows at each await: what it
holds after a claim is running and not executed; nothing is executed while
recovery runs (so recovery returns no row to the queue under an execution); a row
between SELECT and UPDATE of the claim has a dependency that succeeded. One more
conjunct is needed, that a row and its dependency belong to one project
(`SameProject`): `cancel_all_queued` cancels by project, and a dependent could
otherwise survive it.

`NoneForgotten` adds `Remembers`: the worker owns the lease from its recovery on, executes only while
it owns it, recovers before it first claims, and the row it is about to claim is not running. It holds
until an exception escapes. `LimitsRespected` adds `Counted` (executions and entries are finitely many, what
is held is of the lane it is in) and counts slots by cardinality.

`WorkerImplementsLifecycle` is the refinement: `Spec => ImplementsLifecycle`. A row is mapped to its
status and dependency, and the set of tasks in execution to those of the records in `execs`.
There is a lemma for each transition of the abstract machine that several actions
reach, and four for the groups of concrete actions that reach them (the loop, what disturbs
it, executions, requests). `Solo` gives the guards: a task begins only while running and not in
execution, recovery returns only tasks that nobody executes. `DependentsWait` is
the other half of the cascade: it settles no row but those that wait, directly or
not, for the one that died.

### Around the worker

* **Calls.** `CallInv`: a backend that fetches apart has at most the job of its last try, and none
  while it still tries; a paced one has a token in hand while it sends; the row is pending
  until the call has ended.
* **Credentials.** `CredentialInv`: at most one credential is in use, and none only if a request wrote on the
  word of an old table (`misread`).
* **Custom providers.** `ProviderInv` adds `RowsAccepted`: the rows of a provider, and those a request is
  about to put in their place, are a list that was accepted.
* **Limiter.** `PaceInv` has `LogOfTaken`: the log is the end of the history of tokens, and what was
  dropped was taken before the window. The hypothesis is that no gap exceeds the window by more
  than a tick: the code drops what is older than the window, also the last token
  (`gemini_shared.py:148`), and measures the gap from what is left (`:153`), so that a longer gap is
  not kept. It is 3.1 seconds by default, beside a window of 60.
* **Grids.** `GridInv`: what a request has made and what it has still to make are together its plan
  (`FollowsPlan`); it enqueues a record that is there; a task has its record; a run is a task's;
  a grid said to be cut has its picture; a pending one has a task to come, or a request about to
  enqueue it. A record is removed on a list that says it waits for nothing, so that whatever was
  removed is `uprooted` (the list was old, or the record itself said so). What the plan is (every wanted scene in exactly one grid, in their order, no grid
  across segments) is proved apart, by counting off its pieces in the order of their first scenes.
* **Batches.** `BatchInv`: a row is noted by the batch that inserted it and depends on what that batch had
  noted for the item before (`Rooted`); where a batch is says which items it has noted; a
  row runs once its dependency has succeeded (`InTurn`); what was heard does not change (`HeardTrue`).

### The actor

`DoneWakesSenders`, `PromptsGoOutOnce` hold whatever raises; `NothingMislaid` and `NobodyLeftBehind` on the
condition `Gentle` that the stream, the interrupt of a disconnect and the task itself raise
nothing: with them the two are false (finding 2). The inductive invariant is `ActorInv`, which is
`TypeOK /\ SentWhenDone /\ OnePlace`. `OnePlace` says that no command is in two places at once, and
that what is set aside, dequeued or queued has not been answered; without it, a
command released on one path could be found again, and its prompt sent, on
another.

### The session manager

`Inv` has fourteen parts, of which none is inductive without the others. The center is
`LockedOut`: whoever holds the connect lock of an id that is not in `overlap` has the id to itself,
from looking at the registry to the end of the connect. It needs `EvictionsMean` (an eviction is of what has the
id and works for one request at most), `Purposes` and `OneStarter` (what a request is about at each
await, and that an object has one request that starts it), `CommandsAnswered` (a command that waits has
its one sender waiting), `NewsInOrder` (the message that gives a session its id comes first and once)
and `Fresh` (that id is nobody's yet). `RoomCounted` is the limit with the evictions under way as room that
will be there; `EnoughNumbers` says that numbers suffice for the requests that were let in.

`RowsFollow` adds `RowInv`. `RowTold`: a row that says running is right, or somebody is about to write it
(an eviction, the inbox processor, a request between two awaits, the task an actor's death started).
It needs that what is registered and dead does not say that it runs, and that what an eviction
writes down is not "running" (`DeadSaySo`); that a disconnect waits only for what is being evicted or
has left the registry (`Parting`); that what began under a number has no stored session
(`Origins`). `RowsKept` reduces an action to how objects, registry, evictions, requests and one row may
change; `SwapMade`, where a session gets its id, and `ServerRestarts` are proved directly.

### Files

* **Project.** `FilesInv` keeps, of each resource: versions are numbered from 1 on (`InSequence`); what
  the provider gave is in the file until somebody else writes it, and in the run's version once
  there is one (`Mine`); where the current file comes from (`Copied`); that there is a copy of what
  will be overwritten (`Spared`). `DocumentsInv` keeps, of each thread: who changes the project under
  its lock will write what is there with the change (`HoldsProject`); who holds the lock of a script
  has written it (`HoldsScript`); the index to be saved knows the title (`Indexes`); and of each run,
  that its sheet is in the project or a stale save took it (`SheetIn`).
* **Library.** `LibraryInv`: each picture has one owner, an asset or the request that answers for it
  (`PictureInv`); a request copies to each entry once, and what it copied is there unless another
  one copies there too (`CopyInv`).
* **Source texts.** `SourceInv`: a content belongs to one stem (`ContentsOwned`), and of each stem that is not
  `mixed` it is known how far the one request at it has come (`StemsFollowed`). `LegacyInv`: a text that
  is yet to be converted is whole and has not been opened since.

### Streams, transcript, events, migration, imports

* **Stream.** `FeedInv`: every message of the conversation is in the transcript or in the buffer, or
  `early` (`Reachable`); a viewer who follows has all of them (`Follows`); a snapshot kept while nothing
  went on is kept only until a message is sent (`KeptWhole`).
* **Turns.** `TurnsInv`: what is shown are the turns as grouped from the beginning, and each call and each
  outcome has one block (`ToldOnce`); `BlockAt` and `Spots` name blocks by where they are.
* **Transcript.** `StoreInv`: one append is between insert and commit, its entries are new and its
  numbers free; a number that was read is above all rows unless another append was
  committed since (`ReadAbove`), whose conflict the code meets.
* **Events.** `EventsInv`: a channel whose fingerprint was given to a client keeps a snapshot (`SnapshotStays`).
* **Migration.** `MigrationInv`: how far the present start has come with pictures, histories and scripts, and
  what an earlier one must have done before the folder went.
* **Imports.** `InstallInv`: what is whole of an import is there because it moved it in; while one is about to
  remove what it renamed, there is a project elsewhere (`WholeElsewhere`).

### What failed proofs showed

Some attempts failed for a reason, and changed the model or a property:

* `NobodyForgotten` had to say what a worker that drains after a stop remembers.
* A gap longer than the window is not kept (see the limiter above).
* `BoundedExcess` did not count the session that gets its id while an eviction under its number goes on.
* A sheet deleted and added again during its run is not the sheet of the new asset: `anew`.
* Texts that share their contents at the start cannot be told apart: they have contents of their own.
* `GenerationTasks` let a grid's run begin without waiting for the lock of the project.

### Only model-checked

* The liveness properties (`EveryTaskSettles`, `NobodyHangs`, `ControlsWork`, `ChangesReach`,
  `StreamsClose`): the prover does not do fairness.
* `RoundTrip`: it compares projects that export, repair and import compute as nested functions over
  paths; there is no step to induct on, only many cases over data, which the run goes through.

## 11. Not modelled, and why

* `task_events`, the statistics, previews and read-only queries: no decision reads them.
* The limit of 1000 rows in one recovery, far beyond the instances.
* Prompts, scripts, the formats of documents and archives, prices: text and tables without a state
  of their own to interleave.
* HTTP validation, authentication, the frontend: clients of the components above.
* Reference videos' units (`server/routers/reference_videos.py`), whose requests are those of scripts.
* The parameters of provider requests, the choice among several API keys, the discovery of models.

# Verification of the production RAG system

TLA+ models, TLC runs and TLAPS proofs for `projects/09-production-rag`: a
multi-tenant retrieval service whose API instances and ingestion workers
coordinate through one metadata database (SQLite or PostgreSQL). The other
directories of the repository (`projects/01-…` to `08-…`, `notes`) are course
material and earlier, sequential versions of the same program; they are not
modelled.

Paths below are relative to `projects/09-production-rag`.

## 1. The system

### Components and their state

| Component | Code | State | Operations |
| --- | --- | --- | --- |
| Ingestion queue | `rag_core/ingestion_jobs.py`, `ingestion_worker.py`, table operations of `rag_core/sources.py` | `source_tasks` rows (status, lease owner and expiry, attempts, next attempt, dead letter), a thread pool and semaphores per process | submit, drain, claim, renew, report progress, complete, retry or fail, reap, shutdown |
| Upload admission | `rag_core/upload_admission.py`, handlers of `serve.py` | `upload_admission_slots`, count of active `source_tasks` | reserve, convert (upload, retry, redrive), release, expire |
| Query results | `rag_core/query_results.py`, `run_query` of `serve.py` | `query_result_cache`, `query_result_events` | claim, wait, take over, append event, complete, fail, renew, purge |
| Query admission | `rag_core/query_admission.py`, `query_stream` of `serve.py` | three local semaphores per process, `query_admission_slots` | acquire, renew, release, reject |
| Rate limits | `rag_core/query_rate_limits.py` | counters per window and scope | count, reject |
| Document versions | `rag_core/versioning.py` | `current_source_versions`, a legacy JSON file | publish, migrate, unpublish |
| Archive | `rag_core/object_store.py`, `rag_core/jsonl_store.py` | JSONL index of documents, tombstones | archive, tombstone, purge |
| Sources | `rag_core/sources.py` | catalog, list cache, everything a source has in the other stores | ingest, list, rename, delete |
| Sessions | `rag_core/user_auth.py` | users, sessions, token cache | log in, authenticate, log out, ban |
| Metadata database | `rag_core/database.py` | connection pool | acquire, release, commit or roll back |
| Model calls | `rag_core/model_api_retry.py` | concurrency slots, failover circuit | call, retry, open and close the circuit |
| Artifacts, conversations | `rag_core/artifacts.py`, `rag_core/conversations.py` | rows per tenant | save, list, delete |
| Retrieval, answering, parsing, prompts, embeddings | the rest of `rag_core` | none of their own | pure functions and calls of external services |

### How they interact

* An **upload** reserves a slot of the global backlog and one of its tenant's
  (`acquire_upload_admission_reservation`), saves the file, and converts the
  reservation into a `queued` row of `source_tasks` in one transaction.
* **Runners** (one `IngestionJobRunner` per process; API processes may have one
  too) claim due rows under a lease, run them on a thread pool and renew the
  lease from a second thread. A job writes guides and summaries, then vectors, then archive,
  published version and catalog, and removes its row. Each progress report between these stages is a
  conditional `UPDATE` that fails for a worker that has lost its row: a fence. Inside a stage there is none.
* What a source **is** lies in four stores that no transaction spans: vectors, an archive
  of documents with deletion tombstones (files, rewritten as a whole under a lock of the
  process), the registry of current versions, and the catalog. Ingestion, deletion, the
  listing and two command-line tools write them one after the other, in any process.
* A **streamed query** with a request id claims a row of `query_result_cache`.
  The first caller computes; others, on any instance, poll for the answer, replay the
  recorded stages, or take over from an owner whose lease ran out.
* Every streamed query first takes a **permit** of its process in each of its scopes
  (global, tenant, user), then a lease on one slot per scope in the database, which a guard
  thread renews. A job of the thread pool computes, and sends events through a bounded
  queue to the generator that feeds the client; its `finally` clause gives lease and
  permits back and ends the stream.
* Requests are **authenticated** from a cache of their process or from the database. A streamed query that
  has its permits is counted against the **rate limit**, if there is one, unless its request id is known already. Threads of a process share a pool of
  connections and the slots of the model services; recording the usage of a model call
  takes a connection while the slot is held.
* **Artifacts** are generated by background tasks after the request is answered;
  **conversations** are saved whole, under ids the client chooses. Both are
  migrated from files of earlier versions when somebody asks for them.
* Everything shared between processes is shared through the database or those files. Every
  table operation of the modelled components is one transaction
  (`connect_metadata_db` commits at the end of the `with` block and rolls back on
  an exception), so it is one step of a model where the statements lock what they change, and
  several where PostgreSQL's read-committed isolation lets others in between (section 5). What is left between
  transactions, threads and stores is where these models look.

### What is hard here

Leases that run out under a worker that is only slow; a clock that two
processes read differently; crashes between two stores; permits that are given
back twice or never; a reservation that expires while its file is being saved;
owners that finish after they were replaced; replays that race with the answer;
caches filled from what a logout has just revoked; deletions beside ingestions, over four
stores; rows that are read in one transaction and written back in another; waits for
one resource while another is held; tasks that must not wait for ever. `PROJECT.json` lists each such hazard at
the line where it bites, with the property that covers it or the reason why none
does yet.

## 2. Modules

| Module | What it is |
| --- | --- |
| `IngestionJobs` | the ingestion queue: table, runners, jobs, renewal, reaper, crashes |
| `DurableQueue` | what the queue promises; `IngestionJobs` implements it (`ImplementsQueue`) |
| `UploadAdmission` | reservations of the upload backlog and their conversion |
| `UploadPipeline` | composes the last one with `IngestionJobs`, over one table of tasks |
| `QueryResults` | one request id: its row, its events and the calls that carry it |
| `AnswerOnce` | what a request id promises; `QueryResults` implements it (`ImplementsAnswerOnce`) |
| `QueryStreams` | admission and delivery of streamed queries: permits, leases, guard, job, event queue, client |
| `Sources` | the stores of a tenant's knowledge base: ingestion, deletion, listing, search, two tools, old registry file |
| `MetadataPool` | the pool of database connections of each API server |
| `SessionTokens` | users, sessions and the token cache; extends `MetadataPool` |
| `ModelCalls` | model slots, attempts, fallback and circuit, usage records; extends `MetadataPool` |
| `ApiServers` | composes the last three: requests of both kinds compete for connections |
| `StoreCalls` | what the next three share: calls with a job, and the history of who overtook whom |
| `RateLimits`, `Artifacts`, `Conversations` | the operations on their tables and files |
| `ApiStores` | composes them: requests in the threads of any number of servers |
| `MCIngestionJobs`, `MCUploadAdmission`, `MCUploadPipeline`, `MCQueryResults`, `MCQueryStreams`, `MCSources`, `MCApiServers`, `MCApiStores` | values of the constants for TLC |
| `IngestionJobs_proofs`, `UploadAdmission_proofs`, `UploadPipeline_proofs`, `QueryResults_proofs`, `QueryStreams_proofs`, `Sources_proofs`, `ApiServers_proofs`, `ApiStores_proofs` | theorems |

A definition whose comment starts with "Mutant:" is a plausible mistake in the
definition that follows it. No specification uses it; replacing the
definition by it must break the property that `PROJECT.json` pairs it with,
which shows that the property depends on that piece of code.

### `IngestionJobs` and the code

| Model | Code |
| --- | --- |
| `rows` | table `source_tasks`; a removed row keeps the reason of its removal in `status` (`"completed"`, `"deleted"`) |
| `effects` | what ingestion has made durable: guides and summaries (`"summarized"`), vectors (`"indexed"`), `"archived"`, `"published"` and `"catalogued"` documents, resolution of the task's id (`"resolved"`) |
| `jobs[l]` | the executor task and renewal thread that use lease owner string `l`: where it stands (`phase`), `lease_valid` (`valid`) and, for the properties only, which changes it made outside the table without owning its row (`stale`) |
| `slots`, `tenantSlots` | `_slots` and `_tenant_slots`, free permits |
| `pool` | how many threads `_executor` has; `overdrawn` remembers, for the properties and the fairness, that a drain gave back the permit of a job the executor holds |
| `mode` | the process is up, in `shutdown(wait=True)`, or gone |
| `CreateTask`, `RetryTask`, `RedriveTask`, `DeleteSource` | `create_source_task`, `retry_failed_source_task` (user, administrator), the last statement of `delete_source` |
| `ClaimAndSchedule`, `SubmitClaimRaises`, `DrainClaimRaises`, `ScheduleRaises`, `ClaimDuringShutdown`, `RequeueStale` | `submit_upload` and `drain_pending` with each of their ways out; `ThreadPoolExecutor.submit` queues the job before it starts a thread |
| `StartJob`, `RenewalStartFails` … `CloseJob` | `_run_claimed_upload`, change by change; `ReportProgress` is the fence |
| `Renew`, `RenewRaises` | `_renew_lease_loop` |
| `LeaseExpires`, `BackoffElapses` | the comparisons of `lease_expires_at` and `next_attempt_at` with `now_ms()` |
| `StopRunner`, `ExitRunner`, `CrashRunner`, `RestartRunner` | `run_ingestion_worker`, and what happens to processes |

Time is reduced to the outcome of those comparisons and any live lease may
expire at any moment, so clock skew and stalled threads are covered, and the
safety results do not depend on any timing. `attempt_count` saturates at
`MaxAttempts`, the only number it is compared with. Several progress reports with no change
outside the table between them are one report.

### `UploadAdmission` and the code

`slots` is `upload_admission_slots` (scope and slot index to owner), `lease` the
expiry of a request's two rows, `task` the part of `source_tasks` that
`active_source_task_count` sees, `req` where each handler stands. `Acquire` is
`acquire_upload_admission_reservation`: it purges expired rows, then takes in
each scope the lowest free index below *limit − active tasks*. It and the
conversions take the `'upload'` row lock first, hence are one step. A rejected
acquisition rolls its transaction back. `CreateTask` and `RetryTask` are the
two conversions, `LoseReservation` and `Release` the handlers' error paths,
`Vanish` a crash or the exception that `retry_source_ingestion` does not
handle. What `IngestionJobs` does with an active task is `TaskLeaves` here.

### `UploadPipeline` and the code

`rows` is `source_tasks` for both components; the admission counts its queued and processing rows (`Backlog`). `Upload`,
`Retry` and `Redrive` are the transactions of `save_source_task_for_tenant` and `retry_failed_source_task`, which
change the row and delete the reservation together: one step of both components. Every other step is one
component's: those of a request (`Reserving`) leave the tasks alone, and those of runners,
reaper and deletions (`Ingesting`) neither take the `'upload'` lock nor look at reservations. `ImplementsAdmission` says
that the second kind does to the table only what `UploadAdmission` supposes (`TaskLeaves`).

### `QueryResults` and the code

`row` and `events` are the request id's row and stage events; `phase` is where each call
of `run_query` stands; `held` is the answer it holds, named by the call
that computed it; `cursor` is `last_sequence` of `wait_for_query_result`; `shown` is what it has
streamed. `purged`, `takenOver` and `late` are history. The claim is one transaction with
five outcomes (`ClaimNew`, `ClaimConflict`, `ClaimCached`, `ClaimTakeover`,
`ClaimWaits`). A waiting call alternates listings and claims, and lists once
more when the claim ends the wait (`ListEvents`). An owner saves (`Complete`) or fails (`Fail`), each a
conditional `UPDATE` fenced by `Owns`. It appends a stage in two steps, for on PostgreSQL `INSERT … SELECT … WHERE EXISTS` locks
no owner out: `ReportStage` is the snapshot of that statement, in which the call still owns the row and sees the highest
sequence; `AppendEvent` is the commit, which only the primary key and the reference to the row can refuse. For the same reason the
`DELETE` of a takeover sees any first part of the events (`EventsAfter`). A recorded event names its call and is numbered among what
that call has streamed, so that mixtures show. `Purge` is `expires_at`, which renewals do not extend: it
may come at any time. `ComputingRaises` includes the lease guard that reports a lost lease.

### `QueryStreams` and the code

| Model | Code |
| --- | --- |
| `phase` | the handler of `query_stream`, from its first permit to its response, then the generator `stream_events` |
| `permits` | the `BoundedSemaphore`s of each process; `taken` and `due` count those the handler and the job answer for |
| `lease` | a call's rows of `query_admission_slots`, which one transaction inserts, renews or deletes together |
| `guard` | `QueryAdmissionLeaseGuard`: renewing, lost (`valid` cleared), or stopped while a renewal may still be under way |
| `job` | `run_query`; `Answer`, `Raise`, `PutVerdict` are its `try` and `except`, `ReleaseLease`, `ReleasePermit`, `PutEnd` its `finally` |
| `queue`, `Put` | `event_queue` and `enqueue_event`, which blocks until there is room or the client is gone |
| `Pull`, `Resume`, `Disconnect` | `event_queue.get()`, the `yield`, and the closing of the generator there |
| `Abandon` | the client leaves before the generator was started, so that no `finally` clause runs |
| `SubmitFails`, `GuardStartFails`, `ResultGuardFails` | exceptions where a thread cannot be started. `ThreadPoolExecutor.submit` queues the job before it starts a thread, and `Thread.join` raises for a thread that was never started |

What the job computes under which row is `QueryResults`; the rate limit is a choice here
(`RateLimits` has its counters).
`starved` remembers that a thread could not be started; three properties are
restricted to executions in which that does not happen, because the code then
gives permits back twice or not at all (see the hazards in `PROJECT.json`).

### `Sources` and the code

| Model | Code |
| --- | --- |
| `vectors` | chunks in Milvus, as pairs of a document and a version |
| `archive`, `tombs` | `source_documents.jsonl`, `deleted_documents.jsonl` |
| `lock`, `buf` | `OBJECT_STORE_INDEX_LOCK` of each process, and what its holder has read |
| `published`, `migrated` | `current_source_versions` and the tenant's migration mark |
| `legacy`, `pending` | `current_versions.json` of earlier releases, and what a reader is about to copy from it |
| `catalog` | `source_catalog` |
| `Number` … `Catalog` | `ingest_uploaded_path`: version, `upsert_entities`, `archive_source_documents`, `publish_current_versions_db`, catalog |
| `FindSource` … `Uncatalog` | `delete_source`, with its tombstone and `purge_source_documents` |
| `Load`, `Migrate` | `load_current_versions_db`, which every one of these and a search calls |
| `List`, `Recatalog` | `list_sources`, which rebuilds an empty catalog from the vectors |
| `Search` | `build_filter_expr` and the search, after the registry was read |
| `EraseByTool`, `Delist`; `Collect` … `Relist` | `delete_document.py`; `rebuild_from_object_store.py` |
| `Fail` | an exception, or the end of the process, between any two writes |

Whether a property is due depends on what else ran. `clean[o]` remembers that no operation ran beside
or after `o` that was asked for the opposite (`Voids`, `Disturbs`), `base[o]` what there was when it
began, and `faults` five mishaps the code does not exclude: a file rewrite of one process lost to
another's (`torn`), a late copy of the old registry file (`rewound`), that file made void by
a publication before anyone copied it (`skipped`), vectors dropped by a rebuild (`dropped`), a
version published after its vectors were deleted (`hollow`). Each property names the mishaps it
excludes, so the runs and proofs also say that nothing else can break it. When a
document's lease was lost and two workers ingest it (`IngestionJobs`), they are two operations here.

### `ApiServers` and the code

`conn[t]` is where a thread stands in `PostgresConnectionPool.acquire`: it takes an idle connection, opens a
new one outside the lock (`opening`), or waits (`asleep`) until it is notified (`woken`)
or its time is over (`late`; a thread may be both notified and late). `idle`, `total` and `borrowed` are the pool's
counters, changed as the code changes them, `max(0, …)` included. `EndTransaction` is the end of
`connect_postgres_metadata_db`, which returns the connection or, when it is broken, closes it.

In `SessionTokens`, statements of one transaction are steps: under PostgreSQL's read-committed isolation
another logout may commit between the `SELECT` of `authenticate_token` and its
`cache_auth_token`. `Write` is the writing statements of login, refresh, logout, ban (`set_user_status`, and `bulk_update_users` for several users) with their commit;
`Invalidate` and `Store` are the cache's. `Clean` clears the cache before
`Expel` commits, as the code does. `"late"` marks entries a race or another process left. Every entry ends with its lifetime (`Expire`).

In `ModelCalls`, `free` is the `BoundedSemaphore` of model slots. `Answered` and `CallFails` are an attempt of
`call_model_api_with_retries`; `RecordUsage` and `UsageIsLost` are `record_response_model_usage`, which swallows the exception of a pool that has no connection to give;
`LeaveSlot`, `OpenCircuit`, `CloseCircuit` are `chat_completion_with_fallback`.

### `ApiStores` and the code

Each transaction is a step, and so is each look at a file. `overtaken[c]` collects the items that other calls
changed, or were deleting, since `c` began; it is history.

* `Count` is `acquire_query_rate_limit` as a whole: it purges, counts in all scopes, and
  rolls back if one is full. `Readings` are the windows that clocks of different machines may show.
* `Create` stores a `generating` row and answers; `Build`, `Save` and `SaveRaises` are the background task. `LoadArtifact` and `Save` are the
  rename, which writes the whole row back; `ReadFiles` and `Migrate` the listing with `migrate_legacy_artifacts`; `DeleteRow`, `DeleteFile` the deletion.
* `Look`, `Open`, `Ask`, `Check`, `Upsert`, `Update`, `Delete`, `Unlink` are the statements of `save_conversation`, `load_conversation`, `rename_conversation`,
  `delete_conversation` and `migrate_legacy_conversations`. `Check` and `Upsert` are one transaction
  in the code, whose `SELECT` locks nobody out on PostgreSQL. A conversation's messages go with its row.
* `Break` is the end of the process, or an exception, at any step.

## 3. What the runs check

| Run | Instance | Shows |
| --- | --- | --- |
| `jobs_safety` | 1 task, 2 runners, queue limit 2, 2 lease owners, 2 attempts | `StaleWithinOneStage`, `CompletedIsDurable`, `HandoverOnlyByRule`, `RetryBudgetKept`, the inductive invariant `IInv` (with `DeadLettersExhausted`) and the refinement `ImplementsQueue` |
| `upload_safety` | 4 requests and 3 tasks of 2 tenants, limits 2 and 1, fair | `IInv` (with `BacklogBounded`), `EveryRequestAdmitted`; `RejectedOnlyIfFull`: holes in the table and slots of dead requests turn nobody away |
| `pipeline_tasks` | 2 tasks of one tenant (one blank), 1 request, 1 runner, 1 worker, 2 lease owners, 1 attempt, limits 2, queue limits 1, fair | `PlacesAreReserved`, `ImplementsAdmission`; `EveryTaskSettles`; `CapacityKept`: no tenant exceeds its share, no more jobs run than threads, and the runner keeps to its permits unless a drain could not start a thread |
| `upload_limit` | 3 requests, limit 2 | **violated**: `BacklogLimitKept` (below) |
| `query_answers` | 2 calls with one question, 1 with another under the same request id, 2 stages, fair | `ReplayIsComplete`, `IInv` (with `AnswersAgree`, `AnswerFitsQuestion`, `StagesAreRecorded`, `StragglersLeaveOne`, `WaitersHaveAnOwner`), `ImplementsAnswerOnce`, `EveryWaiterServed` |
| `streams_safety` | 2 calls of one tenant in one process, tenant limit 1, global limit 2, 1 crash, failures of threads and of releases | `PermitsBalanced`, `SharedCapacityKept`, `OverHoldsNothing`, `LeaseNeverRevives`, `OneVerdictAtTheEnd` |
| `streams_live` | 2 calls, 1 worker thread, event queues of 1, fair | `EveryStreamEnds`, `EveryJobReturns`, `NoStreamIsStuck` |
| `streams_stuck` | 2 calls, event queues of 1, fair | **violated**: `FailuresAreTold` (below) |
| `sources_stores` | any 3 of 8 operations on 2 documents in 3 processes, 1 failure | `CompletedStaysWhole`, `DeletedStaysGone`, `SearchFindsPublished`, `VersionIsFresh`, `VersionsOnlyGrow`, `IInv` |
| `sources_published` | any 2 of two uploads and a search | **violated**: `OnlyPublishedAreFound` (below) |
| `servers_requests` | 3 threads in 2 servers, 1 connection and 1 slot each, 2 attempts, 2 tokens, fair | `OnlyRacersGoStale`, `AnswersAreKept`, `IInv`, `EveryRequestEnds`, `NoOneWaitsInVain` |
| `stores_requests` | any 3 calls about 2 artifacts, 1 conversation id, or 2 scopes | `GeneratingIsGenerated`, `TenantsApart`, `OnlyOvertakenUndo`, `IInv` (with `WindowsCountAdmissions`) |

### Bounds

The ingestion properties speak of one row at a time, except for permits. One
task with two runners and two lease owners has every interference the code
allows on a row: a stale job beside the owner, a claim beside a reaper, two
drains, a crash of either process. A third lease owner adds a second stale job,
which no guard distinguishes from the first. The queue limit of two lets a runner that failed to start a thread, and keeps the
permit of a job nobody runs, claim the row again; a tenant's limit of one is what its two jobs then compete for. `pipeline_tasks` adds
what only several tasks have: permits, threads and the request that admits or redrives them. Two attempts cover "retry" and "dead letter". In
`upload_safety` the limits differ, both scopes can be the one that rejects, a
slot with a low index can be freed while one with a higher index stays taken, and more
requests compete than there is room for.
In `pipeline_tasks` the one attempt makes every failure a dead letter, so that retries and redrives compete with the upload
for places; one worker and queue limits of one make the two tasks compete for permits and the thread. A second runner adds interference on a row, which
`jobs_safety` has, and a second request or tenant what `upload_safety` has; the theorems about the pipeline cover any number.
`ConversionIsPaid` and `TableBounded` are proved and in no run: `PlacesAreReserved` and `ImplementsAdmission` say the first of the
table's rows, and `upload_safety` has the bound, as `BacklogBounded`.
`query_answers` has an owner, one that takes over or waits, and a stranger with the same id;
two stages let a replay be partial. A takeover watched by a third call of the same question is
left to the proofs, which cover every number of calls. In `streams_safety` the second call can be refused at either of two scopes, locally by a
call of its process, and in the database by the lease of a call that died with the
previous process; an event queue of two events lets a failure and its end be told without a reader, and still
makes a job that follows them wait. `streams_live` has queues of one and a stage, so that a
job can meet a full queue both before and after its client has left, and one worker, so that a job waits behind another.
In `sources_stores` three operations are a victim, one that disturbs it and one that reads or restores what
either left; each operation runs once, at most one of them fails half-way, and only one of the documents may be there
before (empty, of this release, or of one that kept the registry in a file). The other document is ingested with an
explicit version by another process, so that rewrites of files can be lost.
In `servers_requests` one connection and one slot make every wait happen; the first thread signs in, refreshes or chats, the second
revokes or embeds, the third authenticates, in the same server or the other one. The
model services answer at most twice, once per model.
In `stores_requests` the calls of one behaviour are of one kind (`Alike`), because the three kinds share no rows; the
proofs need no such bound. Clocks differ by less than a window, and three windows pass.
Deadlock is checked except for the specifications whose requests are finitely many and end: `UploadAdmission`'s fair
run, `QueryResults`, `QueryStreams`, `ApiServers` and `ApiStores`.
The safety results are also proved for every value of the constants (section 4).

### Fairness, and why the code justifies it

* `IngestionJobs` (`Recovering`, assumed in `pipeline_tasks`): executor threads run, pollers poll and a database transaction
  ends, hence weak fairness of a job's steps, of the reaper and of the clock's comparisons. Of a runner's queued jobs, and of the due rows
  it lists, *some* one is taken (`TakeJob`, `Poll`), and nothing is said of which. Rows are listed by `next_attempt_at` and `created_at`,
  and a fresh upload has `next_attempt_at` 0, so uploads, retries and redrives that keep coming may stay in front of tasks that failed once: the
  property supposes that requests pause one day, and that the rows due then fit one listing (`queue_limit * 4`). It would be false otherwise.
  Faults (crashes, shutdowns, failing claims and renewals, threads that cannot be started, expiry of a
  lease that a running thread renews) stop one day; a lease nobody renews expires.
  Permits leaked by `SubmitClaimRaises`, `DrainClaimRaises`, `ScheduleRaises` and `RenewalStartFails` are never
  recovered by the code, and a permit given back twice may make a release raise in the poller and end it, so the property
  excludes the case that no runner is left able to take the task (`Starved`).
* `UploadAdmission`: handlers end, reservations expire, tasks leave the backlog;
  a rejected client calls again, and may meet a free slot at any of its calls: strong fairness of `Acquire`.
* `QueryResults`: threads go on (`Proceed`), and the lease of an owner that ended runs out.
* `QueryStreams`: the threads of a call run, and a client that was sent an event reads on or
  leaves (a response that is neither read nor closed for ever would hold its worker). The
  pool's work queue is first in, first out and the calls are finitely many: weak fairness suffices.
* `ApiServers`: threads run, and opening a connection ends. No timeout of a wait is assumed to happen
  (`TimeOut`, `WaitEnds`, `SlotTimesOut` are possible but not fair): requests end because connections and slots are
  given back and every release wakes a waiter.
* `Sources`, `ApiStores`: no fairness; their properties are about what may never happen.

### The findings

`upload_limit` refutes that a scope never has more active tasks than
`RAG_INGEST_BACKLOG_LIMIT` (or the tenant's limit). `README.md:98-100` says that the
upload interface first reserves a slot of the shared backlog and then
converts it atomically into a task. The code computes the room for
reservations as *limit − active tasks* (`upload_admission.py:54`) and takes the
lowest free *index* below it (`:115`), without counting reservations at higher
indexes. With a limit of two: R1 takes slot 0 and R2 slot 1; R1 is
converted (one task, slot 0 free, room for one); R3 takes slot 0; R2 and R3 are
converted: three tasks. What holds, and is proved, is `BacklogBounded`: tasks plus
reservations of a scope never exceed twice its limit minus one.

`streams_stuck` refutes that a stream whose job the executor refuses is told so. `serve.py:2779`
says "streamed API must serialize failures". The generator puts the error event and then the end marker
into the queue that only it reads, before it reads (`:2787-2789`). With
`RAG_QUERY_STREAM_EVENT_QUEUE_LIMIT=1`, which `env_int` admits and
`tests/smoke/smoke_runtime_metrics.py:213` uses, the second put retries for ever. With room for two events
the failure is told.

`sources_published` refutes that a search without a version finds published versions only, as
`docs/RELEASE_CHECKLIST.md:130` says. `build_filter_expr` writes a version clause when the registry it was given is
not empty (`milvus_store.py:264`), and none otherwise. For a tenant without
published versions, a search between the first upload's `upsert_entities` and its publication returns its chunks, and
so it does later if that ingestion fails there. Once something is published, versions that are being ingested are not found.

## 4. What is proved

All theorems hold for every value of the constants that satisfies the
assumptions named in the modules (`IngestionAssumption`, `AdmissionAssumption`, `QueryAssumption`, `StreamAssumption`, `PipelineAssumption`, `JobsAssumption`, `ServerAssumption`, `StoreAssumption`):
limits are positive naturals, sets are disjoint where the code's identifiers
are, and, for upload admission, the set of task ids is finite, since it counts them, as `QueryStreams` counts calls.

* **Ingestion queue.** `IInv` is inductive. `StaleWithinOneStage` alone is not: one
  needs that a job which still owns its row has never been stale
  (`OwnerNeverStale`, because owner strings are fresh and nobody takes a row from its
  owner and gives it back), and that a job which has just passed a fence has no stale
  effect (`FenceStopsStaleJobs`, with what each phase may have done since: up to three changes after the last but one report). `CompletedIsDurable` needs to know what each phase has
  already written (`StagesLeaveEffects`), and `DeadLettersExhausted` is inductive beside the types. The
  action properties `HandoverOnlyByRule` and `RetryBudgetKept` follow action by action.
  `CapacityKept`, whose bound on a runner's permits is stated while that runner is not `overdrawn`, needs
  `Staffed`: a runner has finitely many jobs (nothing bounds the lease owners), and none while its process
  is down, so that a restart, which makes new semaphores, finds none out.
  `IngestionImplementsQueue` maps initial states to initial states and every step to a
  step of `DurableQueue` or a stutter, under `IInv`.
* **Upload admission.** `IInv` is `TypeOK`, `PairedSlots`, `FreshRequests` (a call that has
  not reserved holds nothing) and `BacklogBounded`. The bound rests on a counting argument:
  a scope that accepts a reservation has at most *limit − 1* active tasks and at most *limit* slots,
  and a conversion replaces a slot by a task, because `PairedSlots` makes "two rows were deleted" mean one per scope.
  `RejectedOnlyIfFull` is a pigeonhole argument: in a scope that is not full, fewer indexes below *limit − active tasks* are kept by live leases
  than there are, so one is free once the expired ones are purged; the least such index (`LeastMember`, by
  well-founded induction on the naturals) is the one `claim_upload_slot` finds.
* **Upload pipeline.** Every step of the pipeline is a step of `IngestionJobs` or leaves it alone (`PipelineRunsTheQueue`), and, under
  `IngestionJobs!IInv`, a step of `UploadAdmission` or leaves it alone (`PipelineImplementsAdmission`): `KindsOfWork` says what runners and the
  reaper do to rows, and of these only a completion, a dead letter and a deletion change what counts as active. The theorems of both
  modules therefore hold of the pipeline. Those of `UploadAdmission` are cited through an instance of its proof module, whose
  assumption `PipelineConstants` discharges; `TableIsBounded` and `PlacesAreAlwaysReserved` translate them to the rows.
* **Query results.** `IInv` is `AnswersInv` and `WaitersHaveAnOwner`. `AnswersInv` joins `AnswersAgree`, `AnswerFitsQuestion`, `StagesAreRecorded` and
  `StragglersLeaveOne` with `RowIsConsistent` (the row's owner or answer and its fingerprint belong together), `HoldersHaveAnswers` and
  `RecordersAreFresh` (who is granted the row has nothing recorded yet, and a call has been late with no stage while it owns the row or is between the
  two steps of an insertion, because lost ownership does not come back). That no late commit takes the place of a stage rests on the primary key.
  The refinement follows: completing is `Decide`, reading the saved answer is `Learn`, a purge is `Forget`. `ReplayIsComplete` needs
  `ReplaysKeepUp`: until a purge or a takeover, what a waiting call has shown is a prefix of the events up to its cursor, and
  events are only appended by the one owner, who is then not waiting, under the number it has looked up. `WaitersHaveAnOwner` is the safety half of `EveryWaiterServed`:
  see below.
* **Streamed queries.** `SharedCapacityKept` and `LeaseNeverRevives` follow from one lemma (`LeaseEffect`): a step that
  is not the acquisition of a lease makes no lease live. `PermitsBalanced` needs `PermitsHeldOnce`: permits are with the
  handler until the job is submitted, and with the job afterwards, so that every step adds one holder to one scope or removes
  one (`OneMore`, `OneFewer`), and a crash removes all holders of a process with its semaphores. It also shows that giving back a permit never
  raises, on which `OverHoldsNothing` rests, beside `AllPlaced`, which tells where a call and its job stand when its lease is gone. `OneVerdictAtTheEnd`
  follows from `AllOrderly`: no verdict is under way while the sender is undecided, then one, and only the end behind it.

* **Sources.** `IInv` says, per operation, what it has written and still finds there (`Ingested`, `Removed`, `Findable`, `Unused`), as
  long as it is `clean` and the mishaps that could break it have not happened. The work is in the other operation's
  step: what a deletion, a copy of the old file, a rebuild or a recatalog has read of the stores must not bring back or
  take away what a clean operation relies on, which `Removed` says of their buffers and `Apart` of the operations themselves. `TornOnlyAcrossProcesses` rests on
  `LockHeld` and `ReadsAreCurrent`: inside one process, what the holder of the lock has read is what the file
  holds. `OneProcessLosesNothing` is the consequence.
* **API servers.** `NoWaiterForgotten` counts: while a thread sleeps, connections to be had are at most as many as
  threads that were roused to take them. Each action of the pool changes both sides together; a failed `open` and a broken connection must therefore
  notify. `TrustedIsValid` is what `OnlyRacersGoStale` needs: a thread that is about to store a token
  and was not overtaken holds a valid one. `AnswersInHand` places each answer with the phase of its thread.
* **API stores.** Everything a call has read (`DraftFits`, `CopyFits`) stands unless its item is in
  `overtaken`. A deletion overtakes everybody who runs beside it (`DeletionsOvertake`), and a file whose row was deleted or
  written is there only until that call has removed it, or under a row of its tenant (`FilesGo`, `ArchivesGo`); so a migration that begins later finds a row,
  or no file, and `OnlyOvertakenUndo` follows.

* **Nobody waits in vain.** The prover has no rules for fairness, but the part of each liveness property that is not about fairness, that no
  state is a dead end, is a state formula, and is proved. Its guards are written out, since `ENABLED` is out of the
  prover's reach too. `NoOneWaitsInVain` (`ApiServers`): a thread waits only while another one, which holds what it waits for, can
  go on; there is no cycle, although a model slot is held while its thread waits for a connection, because whoever holds a connection waits for nothing
  (`SomeoneGoesOn`). With idle or unopened connections somebody is roused, by `NoWaiterForgotten`. `NoStreamIsStuck` (`QueryStreams`): a
  generator that waits for an event has a job under way (`AllFed`: the job is there until the end is in the queue); a job with a thread that waits
  for room has a generator that reads, for it does not wait once the client has left; and a job without a thread waits for busy threads, each with a job that
  goes on or has a client that reads.
  `WaitersHaveAnOwner` (`QueryResults`): a row in progress has an owner that neither waits nor
  is about to claim, and a lease that is live, so that it can run out, or expired, so that a waiting call takes over.

Only model-checked: the liveness properties themselves. `ReplaysKeepUp`, `AllPlaced`, `AllOrderly` and `AllFed` were
model-checked on the instances of `query_answers`, `streams_safety` and `streams_live` before they were proved; the runs themselves check what follows from them.

## 5. Not modelled, and what is left

* Retrieval, reranking, rewriting, prompts, parsing, chunking, embeddings, citations, document scopes and summaries
  are functions of their arguments and of external services: no state is shared, and their correctness is a question of
  text, not of order. They, the front end and the course projects are most of the repository's lines.
* Schema creation and its migrations, start-up accounts, configuration, metrics, logs of operations with their retention.
* Registration, profile, password, announcements and their cache, whose race is that of the token cache; the cache of
  the source list, which `FindSource` allows to hold anything.
* The uploaded file itself; `ingest_*.py`, which write the stores in the order of an ingestion but the old registry file.
* The order and the bound of the page of `list_queued_source_tasks`: a claim may take any due row, and liveness supposes that requests pause.
* The metadata database's statements and, unless said otherwise, its transactions are taken as atomic and
  isolated. On PostgreSQL, with read-committed isolation, that is right for conditional updates of single rows, and for transactions under the
  `'upload'` row lock. `QueryResults` splits the insertion of events and lets the deletion in a takeover miss some;
  `SessionTokens` and `Conversations` split transactions as well. Two refinements are left out: a claim of a request id whose `INSERT` meets a
  row that is purged before its `SELECT` (`query_results.py:157`) waits for one more poll; and a ban's `DELETE` may miss the session that a refresh
  commits beside it, which `Ban` deletes. That session authenticates nobody while its user is banned, for `authenticate_token` looks at the user's
  status. A commit whose outcome is unknown is not modelled.
* In `ApiStores`, ids of messages are not shared between conversations, and ids of new artifacts are fresh (both are
  random). In `Sources` a document has one part, and the lock is per process, as in the code; more than one command-line tool at a time is not run.

What would come next: the dispatcher's page and fairness between tenants, the
upload's file, and the announcements.

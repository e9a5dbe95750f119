# CoreMasterKB: formal models of mining, serving and the LLM service

CoreMasterKB turns documents into searchable knowledge bases. It runs as one
container whose services are kept alive by supervisord. This directory holds
TLA+ models of the parts in which concurrency, failure and restart meet, the TLC
configurations that check them, and TLAPS proofs about all of them.

- [Inventory of the system](#inventory)
- [Modules and their correspondence to the code](#modules)
- [Runs](#runs): what is checked, bounds, fairness, assumptions
- [Proofs](#proofs)
- [Disagreements found](#disagreements)
- [Not modelled](#not-modelled)
- [Plan](#plan)

## Inventory

| Component | State it keeps | Operations | What is hard | What makes it correct |
|---|---|---|---|---|
| llm_service: task queue (`runtime/task_manager.py`, `worker.py`, `service.py`, `api/tasks.py`) | `agent_llm_tasks`, `_attempts`, `_results`, `_events` | submit, claim, execute, complete, fail, cancel, retry, lease recovery, requeue at start and stop | worker coroutines, lease expiry, statements that are separate transactions, crash between them | exclusive execution, retry budget, result behind success, every task settles |
| llm_service: submit idempotency (`idempotency.py`, `_submit_with_idempotency`) | idempotency keys, `_submit_lock` | submit | reads in several transactions next to the workers | one live task per request; an answer that fits what was asked |
| llm_service: synchronous calls, PersistWriter | bounded queue, batches held by writers | execute, enqueue, write, stop | full queue, stop during a batch, crash | every record is written once or accounted for |
| llm_service: cleanup | retention window | batch delete | a retry of a selected task | a task keeps its request |
| knowledge_mining: run queue (`api/domain_run_queue.py`, `infra/db.py`, `api/startup_recovery.py`, `api/routes/runs.py`) | `mining_runs` (status, lease), dispatcher threads and events | enqueue, kick, drain, claim, heartbeat, release, resume, cancel, recover, sweep | thread of the queue against thread of the resume, leases of dead processes, lost wake-ups | one executor per run, settled is final, no run is stranded |
| knowledge_mining: execution of a run (`jobs/run.py`, `workflow/`) | `mining_run_documents`, persist events | prepare, skip, parse, persist, reject, record, resume | crash between build and record, replay of old steps | a completed run is served; a rejected document is mined again |
| knowledge_mining: builds and publishing (`stages/publishing.py`, `_finalize_run`) | builds, selections, staging and final assets | classify, promote, assemble, validate | parent read again under the lock, carry-forward | what is served has assets; what was not mined stays |
| knowledge_mining: deletion and collection (`kb/services/purge_*.py`) | purge tasks, lifecycle of snapshots | delete documents or a KB, recover, deprecate, reclaim | snapshots shared by KBs, several transactions, crash | neighbours keep their assets, deletions end, nothing is kept for ever |
| agent_serving_java: ParadigmCompiler, ParadigmExecutor | slot values of a request | cycle check, waves, join | failures within a wave, parallel edges | order of operators, one answer, no stall |
| agent_serving_java: cache warm-up | a cell per database | inspect, warm, observe | probes outside the lock, failures, epochs | one warm-up at a time, a gate that opens, and only on a warm cache |
| main_control_service: restart | status file | restart, status | check, then write | one orchestrator |
| main_control_service (rest), mcp_server, kb-ui, onenet_query, tools, databases | configuration; access log; none | CRUD, forwarding, display | little | - |

**Interactions.** knowledge_mining and agent_serving_java call llm_service over
HTTP (asynchronous tasks by polling, synchronous calls by `/execute`). mcp_server
and kb-ui call the other services through nginx. Uploads call
`enqueue_auto_mining`, which inserts a `mining_runs` row and kicks the domain's
dispatcher thread; the resume route starts a thread of its own on the same rows.
Mining and deletion write the asset tables agent_serving_java searches. The
services share PostgreSQL and nothing else. All of them can be restarted by
supervisord, or by the one-click restart of main_control_service, at any moment.

## Modules

| Module | Role |
|---|---|
| `LlmTaskLifecycle` | abstract: the transition matrix of `llm_service/ARCHITECTURE.md` section 4.2, with retry and restart |
| `LlmTaskQueue` | the asynchronous queue of llm_service; implements `LlmTaskLifecycle` |
| `LlmTaskQueueProofs` | types, budget, exclusion and refinement of `LlmTaskQueue` |
| `LlmAttemptProofs` | the attempts and results of `LlmTaskQueue` |
| `LlmSubmission` | what surrounds the queue: submissions by key, synchronous calls and PersistWriter, cleanup |
| `LlmSubmissionProofs` | theorems about `LlmSubmission` |
| `MiningRunQueue` | the runs of one domain of knowledge_mining |
| `MiningRunQueueProofs` | theorems about `MiningRunQueue` |
| `KbServing` | abstract: what builds promise to whoever searches |
| `KbStore` | documents, snapshots, runs, builds, deletion, collection; implements `KbServing` |
| `KbStoreProofs` | the types of `KbStore` |
| `KbServingProofs` | what `KbStore` serves and records; the refinement of `KbServing` |
| `RetrievalCacheWarmup` | the cache gate of agent_serving_java |
| `ParadigmRun` | abstract: what a search request may count on |
| `AgentServing` | a search request: compiler, gate (extends `RetrievalCacheWarmup`), executor; implements `ParadigmRun` |
| `AgentServingProofs` | theorems about `AgentServing` and `RetrievalCacheWarmup` |
| `DataLemmas` | facts about bounded sets, functions and sequences that several proofs cite |
| `MC*` | TLC instances of `LlmTaskQueue`, `LlmSubmission`, `MiningRunQueue`, `KbStore`, `AgentServing` |

`MiningRunQueue` and `KbStore` are two views of the same runs. The first has the
threads, leases and statements on `mining_runs`, and a job is the step `work`; the
second has what the job does to documents and assets, and one executor, which is
what the first shows to be true of a run.

### LlmTaskQueue

`LlmRuntimeDB` sends each statement in a transaction of its own (`db.py:44`), so
one statement is one step. `pc[p]` is the statement process `p` sends next; a
process is a worker coroutine or the LeaseRecovery coroutine. `ctx[p]` is the
handler that would catch an exception there: the executor's own `except`, the
safety net of `_execute_task`, or the endless loop. `Raise` is that table of
handlers, written once.

| Variable | Code |
|---|---|
| `status`, `count` | columns `status`, `attempt_count` of `agent_llm_tasks` |
| `due`, `expired` | `available_at <= now`; `lease_expires_at < now` |
| `attempts`, `results` | rows of `agent_llm_attempts`, `agent_llm_results` |
| `cur`, `no`, `seen` | locals: the task, the attempt number, the count read by `fail` |
| `closing` | the lifespan has ended and its stops are under way |
| `batch` | the rows `_recover` has selected and not yet handled |
| `asked` | the task of a retry request whose status check has passed |

| Actions | Code |
|---|---|
| `Submit`, `Cancel`, `RetryCheck`, `RetryUpdate` | `service.py` submit; `task_manager.py:155`; `api/tasks.py:145-200` |
| `Claim`, `Dispatch` | `task_manager.py:94-116`, `worker.py:98-182` |
| `ReadAttemptNo`, `InsertAttempt`, `InsertRejected`, `ProviderAnswers`, `ProviderRaises`, `MarkSucceeded`, `StoreResult`, `Complete`, `MarkFailed` | `service.py:198-318` for chat, `worker.py:184-358` for embedding and rerank |
| `FailRead`, `FailWrite`, `Emit` | `task_manager.py:126-153`, `event_bus.py` |
| `RecoveryScan`, `RecoveryPick` | `worker.py:458-486` |
| `Crash`, `Start`, `StartRaises` | `main.py:90-103` |
| `StopRecovery`, `StopWorkers`, `StopRequeues`, `StopRequeueRaises` | the shutdown, `main.py:232-243`: `LeaseRecovery.stop`, `Worker.stop`, the requeue and its error, with anything in between |
| `StatementRaises`, `DispatchRaises` | any statement named in `FaultySteps` raises instead of committing |

Abstractions: a raised statement has not committed; backoff is the bit `due`;
priority and creation time are `Rank`; contents of requests, answers and events
are dropped, and an event is only a statement that may fail. A cancellation of
coroutines at shutdown falls between two statements. The three executors share
their actions; they differ in where the `try` begins, which is what `ChatTasks`
is for.

### LlmSubmission

Every transaction is a step, and every turn of the loop of `find_existing_task`. The
workers only move a row from one status to the next. A contract is all that a
caller asks for; `KeyOf` and `FingerprintOf` are what the code compares it by
(`SameRequest`), and the fingerprint of a chat request leaves out its model and
its output schema.

| Variable | Code |
|---|---|
| `task` | rows of `agent_llm_tasks` in creation order; `request`: its row in `agent_llm_requests`; `old`: older than the retention window; `by`: the synchronous call it records; `retried`: history, for the property |
| `lock`, `step`, `answer` | `_submit_lock`, where a submission is (the status it reads next), the id it returns |
| `asked`, `picked` | the task a retry has checked; the ids a cleanup batch has selected |
| `queue`, `batch`, `dropped` | `PersistWriter._queue`, the local `batch` of each writer and of `_flush_all`, `_dropped` |
| `called`, `lost`, `phase` | calls that have been answered, records that died with their coroutine or statement (history), the lifespan |

| Actions | Code |
|---|---|
| `Enter`, `Scan`, `Insert` | `service.py:339-392`, `idempotency.py:52-112` |
| `Claim`, `Settle`, `Cancel`, `RetryCheck`, `RetryUpdate` | `task_manager.py`, `api/tasks.py:145-200` |
| `Select`, `Delete` | `cleanup.py:88-141`, `182-224` |
| `Call`, `Take`, `Write`, `WriteFails` | `service.py:521-669`, `persist_writer.py:218-230`, `257-417` |
| `Shutdown`, `StopEnds`, `Crash`, `Start` | `main.py:75-250`, `persist_writer.py:234-253` |

Left out: the limit of candidates scanned per status, loop B of the cleanup, the
content of requests, and the moment at which a cancelled writer is inside a
transaction (it commits or not, which is written before or lost).

### MiningRunQueue

One domain, its dispatcher thread and the thread of the resume route. `pc[e]` is
the statement executor `e` sends next; both run `_execute_workflow_job`. The work
of a run (parsing, enrichment, building) is the step `work` and the publication
of its build the step `publish`; they end in any way the code lets them end.

| Variable | Code |
|---|---|
| `status`, `owner`, `leased`, `publishing` | `status`, `worker_id`, `lease_until >= NOW()`, `current_stage = 'publishing'` of `mining_runs` |
| `wakeup`, `closed`, `pc[Dispatcher] = "off"` | the `Event`, `_closed`, and no live thread in `_threads` |
| `resuming` | the executors whose action is resume |
| `lost` | `runtime_db._run_lease_lost` |
| `kicks` | requests between their INSERT and their `kick` |
| `sweep` | the task of `schedule_lease_expiry_sweep` has not run yet |

| Actions | Code |
|---|---|
| `Enqueue`, `KickQueue` | `domain_run_repository.py:31`, `auto_mine.py`, `domain_run_queue.py:84-104` |
| `Cancel`, `Resume`, `ResumeEnds`, `MarkResumeFailure` | `routes/runs.py:956-984`, `1110-1217` |
| `Clear`, `Pick`, `DrainEnds`, `Check`, `DispatcherRaises`, `RecordFailure` | `domain_run_queue.py:62-82`, `112-122`, `128-164` |
| `Claim`, `ClaimRefused`, `Heartbeat`, `Release`, `ReleaseRaises` | `infra/db.py:1107-1152`, `jobs/run.py:50-112` |
| `Begin`, `BeginMissed`, `Checkpoint`, `JobRaises`, `ClaimRaises` | `jobs/run.py:188-200`, `970-979`, `1379-1556` |
| `Publish`, `Finalize`, `FinalizeFails`, `FailAgain` | `jobs/run.py:2541-2556`, `2829-2862`, `runtime/__init__.py:32-64` |
| `Close`, `Stop`, `Start`, `Sweep` | `api/app.py:176-250`, `startup_recovery.py` |

The guard lock of the dispatcher makes `kick` and `Check` one step each. The
domain's advisory lock in `claim_run` makes the claim one step; that it can be
busy is the second disjunct of `ClaimRefused`. Left out: manual publishing (takes
no lease), `awaiting_review` (no operator in the catalogue asks for it), the
legacy engine, a failed startup scan of a domain, `attempt_no`, kicks beyond the
one that follows an INSERT, and `finished_at IS NULL` in the recovery
(`startup_recovery.py:50`), which every running row satisfies.

### KbStore

One domain with its executor, deletions and the collection of snapshots. An
action is one transaction, or a handler's statements on rows only the
executor writes. A snapshot is its fingerprint, so that documents of two KBs
with the same content share it.

| Variable | Code |
|---|---|
| `kbs`, `docs`, `rev` | `knowledge_bases`, `asset_documents`, `content_revision` |
| `snap`, `links` | `asset_document_snapshots.lifecycle_status` (`EXPIRED`: deprecated for seven days), `asset_document_snapshot_links` |
| `builds` | validated `asset_builds` of a KB with `asset_build_document_snapshots`; `made`: what its run decided |
| `staging`, `final` | staged assets of a snapshot (`poor`: not ready for the capabilities), snapshots with rows in the final tables |
| `rstat`, `row` | `mining_runs.status`; `mining_run_documents`: status, identity, the mark of a rejected row, builds when it began |
| `job` | locals of `_execute_workflow_job` and `_finalize_run` |
| `purge`, `task` | for each deletion under way: locals of the request and of `PurgeService`, `kb_purge_tasks.status` |
| `gc`, `doomed` | the list of `reclaim_deprecated_snapshots`; the snapshot it has found serving nobody and is about to delete |

| Actions | Code |
|---|---|
| `Upload`, `Edit`, `Enqueue` | `document_service.py:415`, `927`; `kb/routes/mining.py:74-185` |
| `Claim`, `Resume`, `Crash` | `jobs/run.py:1379-1470`, `api/routes/runs.py:1110`, `purge_tasks.py:159` |
| `Ingest`, with `Prepared`, `Unchanged`, `Signed`, `FailedSince` | `jobs/run.py:970-1285`, `kb_incremental.py:75-275` |
| `Parse`, `Persist`, `GiveUp` | `snapshot_store/repositories_pg.py:78`, `workflow/handlers/persist.py:40`, `document_executor.py:136` |
| `Index`, `EnterPublishing`, `Publish`, `Record`, `Settle` | `jobs/run.py:1676-1756`, `2546-2867`, `stages/publishing.py`, `infra/db.py:783-999` |
| `JobFails`, `Abort` | `jobs/run.py:1525-1573`, `188-200` |
| `DeleteKb`, `StartTask`, `DeleteDocs` | `kb/routes/kbs.py:198-246`, `purge_tasks.py:151`, `kb/routes/documents.py:424-482` |
| `PurgeCheck` to `PurgeRecord`, `DocsMissing` | `purge_service.py:131-398`, `purge_tasks.py:125-138` |
| `PurgeRaises`, `PurgeLost` | `purge_tasks.py:139-146`: a statement of a deletion raises; so does the record of it |
| `GcMark`, `GcList`, `Recheck`, `Reclaim` | `purge_service.py:481-566`, started by `api/app.py:146-160` |

Left out: `REMOVE` decisions (only `onenet/resync.py:204` deletes softly), a change
of paradigm, `document_ids` of a run, objects in MinIO, a crash between the persist
event and the identity of its row, the legacy engine. All rows of a run are
registered in one step, and a week passes only while nothing else runs.
`DeleteKb` looks for an active task and `StartTask` inserts one, in different
transactions, so that two deletions of one KB may meet; `DeleteDocs` does not look
for a deletion of the KB. `Valid` asks for the assets of the new selections, the
code for the raw segments of all active ones: the same, since raw segments live as
long as the row of their snapshot.

### RetrievalCacheWarmup and AgentServing

One cell, its clients (requests and the observer) and the tasks of the worker
threads; a probe is read in one step and judged under the cell's lock in another.

| Variable | Code |
|---|---|
| `on`, `token`, `hot` | the database: opt-in, epoch and relation identities, whether its cache is warm |
| `cell` | `State`: probe, ready, running, `retryAt` in the future |
| `pc`, `seen`, `task` | where clients and tasks are, and the probes they hold |
| `edges`, `wave`, `out` | the graph, the running wave, the results of `ParadigmExecutor.execute` |

| Actions | Code |
|---|---|
| `Inspect`, `InspectFails`, `Judge`, `Submit`, `Observe`, `Sleep` | `RetrievalCacheWarmupService.java:76-182` |
| `Before`, `Stale`, `Warm`, `Warmed`, `After`, `Finish`, `WarmFails`, `Rested` | `RetrievalCacheWarmupService.java:184-228`, `JdbcRetrievalCacheWarmupBackend.java` |
| `Compile` | `ParadigmCompiler.java:55-74`, `256-284` |
| `StartWave`, `RunNode`, `Join`, `Answer` | `ParadigmExecutor.java:64-187` |

Cells share only the two worker threads, so one stands for all. Left out: `status`
and `error` of a cell, the alias map behind the health display, parameters, slots
and types of a graph.

## Runs

The properties are in the modules, each with a comment. For every property of a
passing run, PROJECT.json names a mutant: an operator standing before the one it
replaces, with the mistake it makes in its comment.

| Run | Instance | States | Shows |
|---|---|---|---|
| `llm_faults` | 1 chat task, 2 workers, 1 client, 2 attempts, 2 failing statements anywhere but the closing event, 1 stop, 1 retry; fairness | 127,000 | `ExclusiveExecution`, `CallBudget`, `LatestResultUsable`, `OneSlotPerAttempt`, `NoOpenAttempt`, refinement of `LlmTaskLifecycle`, `EveryTaskSettles` |
| `llm_hostile` | 1 task, 2 workers, 1 failing statement anywhere, 1 stop; leases may expire under a worker | 1,850,000 | `TypeOK`, `BudgetLeft`, `SucceededHasResult`, `OneOwnerPerAttempt` |
| `llm_retry` | 1 task, 1 worker, 1 retry | - | violates `AttemptNumberFree` |
| `llm_submit` | 2 submissions under one key that differ in the chat model only, 2 calls, one of them with another fingerprint under that key, 1 writer, queue of 1, batch of 2, 1 retry, 1 stop, 1 failing record | 1,490,000 | `TypeOK`, `OneLiveTask`, `RequestKept`, `Accounted` |
| `llm_duplicate` | the same without faults; claims fall between the reads of a search | - | violates `OneLiveTask` |
| `mining_safety` | 2 runs of one KB, both cancellable, 1 resume, 1 stop, 1 failing statement | 1,310,000 | `TypeOK`, `SoleExecutor`, `PublishingIsNotCancelled`, `OwnerCompletes`, `SettledIsFinal` |
| `mining_live` | 2 runs of one KB, 1 resume or 1 stop, claims anywhere, 1 failing claim; fairness | 160,000 | `NoStrandedRun`, `EveryRunSettles`, `BegunRunSettles` |
| `kb_publish` | 3 runs of one KB (the third with `force_redo`), 2 documents, one with 2 revisions and sharing content with the other, 1 failure, 2 crashes, 2 resumes, 1 document that 2 requests may delete at a time | 657,000 | `ServingHasAssets`, `BuildIsRecorded`, `CompletedIsServed`, `SkipKeepsServing` |
| `kb_collect` | 2 KBs that share a snapshot, 1 upload, deletion of one KB, 1 failure (also of a deletion), 1 crash, collection; fairness | 335,000 | `TypeOK`, refinement of `KbServing`, `PurgeSettles`, `OrphansReclaimed` |
| `kb_purge` | 2 KBs that share a snapshot, deletion of one, mining between its transactions | - | violates `ServingHasAssets` |
| `kb_retry` | 2 KBs, 1 failure, 1 resume | - | violates `RetryRestages` |
| `agent_serving` | 1 request and the observer, 3 nodes (1 lenient), 4 graphs, 1 change of the database, 1 of the opt-in, 1 failure; fairness | 119,000 | `TypeOK`, `SingleFlight`, `AdmittedIsWarm`, `AcceptedGraphsRun`, `GateOpens`, refinement of `ParadigmRun` |

**Bounds.** Two workers are all that conflicts need, since every conflict is
about one row and two writers. Two attempts give a first failure (requeue) and
a last one (dead letter). Two runs of one KB exclude each other by the unique
index; three are needed for a skip against a build that a failure and a resume
have come between. Two documents and two fingerprints give sharing, an edit, and
a revert to content that is being collected. Two calls on a queue of one fill
it, hold one record in a writer and drop one. Four graphs give two merged
retrievals, parallel edges, and two cycles. `MaxFaults`, `MaxStops`, `MaxRetries`,
`MaxResumes`, `MaxUpsets`, `MaxCrashes`, `MaxChanges` and `MaxSwitches` are bounds
in guards and not in a constraint, so the liveness properties are sound.
Deadlock is checked in `agent_serving` only; elsewhere, when all is settled and
the bounds are used up, the model may stop.

**Fairness.** LLM: asyncio runs ready coroutines; every provider client has a
timeout, so a call ends; the clock advances, so backoffs and leases elapse; a
recovery coroutine scans forever; supervisord restarts the service. Mining queue:
threads run, a job ends, a request that has inserted its row reaches its kick,
leases nobody renews expire, supervisord restarts the API and the sweep fires.
Store: the executor's thread and the deletion tasks go on, and the daily loop
(`app.py:146-160`) marks, waits and collects; one weak fairness for all of them is
enough, since the requests are bounded. Serving: the observer inspects every
five seconds, worker threads and the thread of a request go on, a cool-down of 30 s
elapses. Nothing obliges clients to act, or faults, stops, edits, deletions and
failing heartbeats to happen.

**Assumptions that are parameters.**

- `LeaseOutlivesAttempt`: `lease_duration` is 300 s, provider timeouts are 60 and
  120 s (`main_control_service/config/system/llm_service.yaml`), but retries inside
  a provider and database waits are not bounded by it. `ExclusiveExecution` and
  the refinement need it; the four properties of `llm_hostile` do not.
- `LatestResultUsable` and `OneSlotPerAttempt` are stated for the behaviour up to
  the first statement that raises; see the event INSERT under
  [Disagreements](#disagreements).
- `ClaimsDuringScan`: a claim may fall between the reads of `running` and of
  `queued`. FALSE in `llm_submit`, TRUE in `llm_duplicate`.
- `LeasesLapse`: a heartbeat every 30 s renews a lease of 300 s (`jobs/run.py:33-34`).
  If all of them fail for that long, a second executor may take the run, and because
  `complete_run` and `fail_run` are fenced by the status and not by `worker_id`,
  `SoleExecutor` and `SettledIsFinal` do not hold. Every run sets it FALSE.
- `ClaimsInterleave`: a claim may fall between the release of a failed job and the
  record of its failure. FALSE in `mining_safety`, TRUE in `mining_live`. With it, or
  with a fault at the claim, `SoleExecutor` and `OwnerCompletes` fail: the late record
  takes the run away from its new owner (see [Disagreements](#disagreements)).
  `SettledIsFinal` and `NoStrandedRun` hold with it, and are proved with it.
- `MaxUpsets` bounds stops and resumes together: `mining_live` has one or the other.
  With both, `BegunRunSettles` fails: a resumed run that is interrupted after the
  sweep has fired is released as running and unowned, and nobody finds it before
  the next start.
- `Cancellers`: empty in `mining_live`. A candidate cancelled between the
  dispatcher's SELECT and its claim is reported as `claimed_elsewhere`, which ends
  the drain although other runs are queued (`domain_run_queue.py:79`).
- `NoStrandedRun` and `EveryRunSettles` are stated for a process that has not stopped;
  what a crash leaves is under [Disagreements](#disagreements). `BegunRunSettles`
  holds across the stop.
- `PurgeInterleaves`: the executor may come between a test for references to a
  snapshot and its deletion: a parse between the list of orphans and their
  deletion, a publication between the last look of the collection and its deletion.
  TRUE in `kb_purge`, which reports the first; the second breaks the refinement of
  `KbServing` and is under [Disagreements](#disagreements).
- `StaleResumes`: a failed run may be resumed after a later run of its KB. The
  resume route allows it (`routes/runs.py:1110`); the run then carries the snapshots
  it skipped earlier into a new build (`jobs/run.py:1710`), and `CompletedIsServed`
  fails; so does `BuildIsRecorded` when what the run has parsed is collected in
  between. FALSE in every run. `SkipKeepsServing` says which documents such a run may
  move, and is proved with `StaleResumes` and with KB deletions, which `kb_publish`
  does not have either.
- Deletions of one target at a time: two of a document in `kb_publish`, one of a KB in
  `kb_collect`. The theorems have any number of both.
- `PurgeSettles` excepts a deletion whose failure could not be recorded (`PurgeLost`):
  its task looks active until the next start, which recovers it, and there may be none.

`CallBudget` bounds the calls of a task over all its retries by `max_attempts`;
it holds because the UNIQUE constraint rejects the attempts of a retried task,
which is what `llm_retry` reports from the other side. `OneLiveTask` excepts
retried tasks: the retry endpoint revives a task without looking for a live one
with the same key.

## Proofs

Seven modules of theorems, and `DataLemmas`. Each theorem holds for every value
of the constants that satisfies the module's assumption on them and the condition
of its row, with no bound on tasks, processes, runs, faults, stops or retries.

| Module | Theorem | Property, of `Spec` | Condition |
|---|---|---|---|
| `LlmTaskQueueProofs` | `TypeCorrect` | `TypeOK` | - |
| | `BudgetNeverOverdrawn` | `BudgetLeft` | - |
| | `SucceededIsBacked` | `SucceededHasResult` | - |
| | `ClaimIsExclusive` | `ExclusiveExecution` | `Prompt` |
| | `QueueImplementsLifecycle` | `ImplementsLifecycle` (refinement) | `Prompt` |
| `LlmAttemptProofs` | `AttemptHasOneOwner` | `OneOwnerPerAttempt` | - |
| | `CallsStayInBudget` | `CallBudget` | `Prompt` |
| | `OpenAttemptRuns` | `NoOpenAttempt` | `Timely` |
| | `LatestIsUsable` | `LatestResultUsable` | `Timely` |
| | `SlotsAreAttempts` | `OneSlotPerAttempt` | `Timely` |
| `LlmSubmissionProofs` | `TypeCorrect` | `TypeOK` | - |
| | `RequestStaysWithTask` | `RequestKept` (action) | - |
| | `SubmissionsShareTask` | `OneLiveTask` | `~ClaimsDuringScan` |
| | `RecordsAreAccounted` | `Accounted` | - |
| `MiningRunQueueProofs` | `TypeCorrect` | `TypeOK` | - |
| | `RunHasOneExecutor` | `SoleExecutor` | `Fenced` |
| | `PublishedRunStands` | `PublishingIsNotCancelled` | `Fenced` |
| | `CompletedByOwner` | `OwnerCompletes` (action) | `Fenced` |
| | `SettledRunStays` | `SettledIsFinal` (action) | `~LeasesLapse` |
| | `NobodyStranded` | `NoStrandedRun` | `Undisturbed` |
| `KbStoreProofs` | `TypeCorrect` | `TypeOK` | - |
| `KbServingProofs` | `ServedHasAssets` | `ServingHasAssets` | `~PurgeInterleaves` |
| | `StoreKeepsPromise` | `ImplementsServing` (refinement) | `~PurgeInterleaves` |
| | `BuildsAreRecorded` | `BuildIsRecorded` | `~StaleResumes`, `~PurgeInterleaves` |
| | `CompletedRunIsServed` | `CompletedIsServed` (action) | `~StaleResumes`, `~PurgeInterleaves` |
| | `SkippedKeepsServing` | `SkipKeepsServing` (action) | - |
| `AgentServingProofs` | `TypeCorrect` | `TypeOK` | - |
| | `OneWarmupAtATime` | `SingleFlight` | - |
| | `AdmissionNeedsWarmth` | `AdmittedIsWarm` | - |
| | `CompilerDecides` | `AcceptedGraphsRun` | - |
| | `RequestKeepsPromise` | `ImplementsParadigmRun` (refinement) | - |

**The conditions.** A run sets each of them, and each part is needed for each theorem
that has it: when it alone is dropped, from the run or from a variant with more
faults, resumes or retries, TLC finds the property violated.

- `Timely`: attempts end within their lease, and one client retries at a time.
- `Prompt`: `Timely`, and the events that follow a committed `complete` or `fail` are
  written. What holds only up to the first failed statement does not need that.
- `Fenced`: `~LeasesLapse`, `~ClaimsInterleave`, and no statement fails in a claim. It is
  the instance of `mining_safety`, and the reasons are under
  [Runs](#runs): the record of a failure is not fenced by its owner.
- `Undisturbed`: `~LeasesLapse`, no cancellation, and only claims and releases fail.
- `~PurgeInterleaves` is what `kb_purge` violates, `~ClaimsDuringScan` what
  `llm_duplicate` does; what `~StaleResumes` excludes is under
  [Disagreements](#disagreements).

**The task queue.** `TypeOK` needs `Shape`: a busy process has a task in hand, an idle
one has none. `BudgetLeft` needs that rows not yet inserted have count 0
(`Budget`), and rests on `RowWriters`: six operations write task rows, and each
of them compares the count it writes with `max_attempts` or keeps a count that had
budget. `SucceededHasResult` needs `Backed`: a worker that is about to call
`complete` has stored a usable result, and `OnlyStoreCompletes`: nothing but
`StoreResult` sends a worker there. `ExclusiveExecution` is not inductive: `Excl`
adds that the tasks in Recovery's batch run without a process, that an expired
running task has no worker, that a task being retried is settled, and that a
stopped service executes nothing. The refinement needs in addition `Fresh`: the
count `fail` has read is still the count when it writes, which is where exclusion
pays (`CountIsMine`).

**Attempts.** That one process owns an attempt row needs no lease: a worker's number
is that of a row it has inserted (`Owned`), and UNIQUE admits one insertion.
`CallBudget` needs that a number about to be inserted is within the budget
(`Numbers`), `NoOpenAttempt` that an open attempt has the worker that will close it
(`Opened`), which rests on where exceptions are caught (`Caught`). The other two
share the invariant `Proper`: up to the first raised statement a running task has
its worker (`Attended`), the numbers of a task have no gap and reach its count
(`Dense`), a call of `fail` finds an attempt for the slot it spends (`Slotted`), and
a worker's attempt is the newest of its task (`Newest`).

**Submissions.** `OneLiveTask` is about submissions that read before they insert. Its
invariant `SInv` says that only the holder of the lock searches (`Exclusive`), and what
the search has established: no task of the contract runs when the queued ones are
read, none is live when the row is inserted (`Searched`). A claim between two reads
moves a task from a status not yet read to one already read, and breaks it.
`Accounted` needs that a record stands once in one batch (`Alone`), that it is in
exactly one place (`OnePlace`), and that a service that has stopped holds none
(`Flushed`).

**The run queue.** The lease is the lock: `HoldsLease` says that an executor between
claim and release owns its run, with the lease in force; exclusion follows since a
run has one owner. `Publishes`, `Refails` and `RecordsAlone` say what
the handlers that write without a fence find: nobody else has claimed the run
meanwhile. `NoStrandedRun` takes another invariant, `FInv`, about a process in its first
life: while runs wait and no kick or resume is to come, the drain goes on and can
claim what it has picked (`DrainsAll`), because a running run is held by a thread
at work and a thread at work owns its run, or is a resume whose run the late record
of an earlier failure has taken away (`Jobs`). So the theorem covers claims that
interleave, which `Fenced` excludes.

So does `SettledIsFinal`. Its danger is `FailAgain`, which writes `failed` whatever the
status is. `Takeovers` says that the run is still failed then, also where the late
record has taken a resumed run away: the dispatcher keeps its own run
(`DispatcherOwns`), and a resume that has lost its run either finds it ended
(`ResumeBegins`) or cannot advance it when the dispatcher is about to begin it
(`ResumeWorks`), so that nobody begins a run between a `fail_run` that applied and
the counters that follow it (`ResumeRefails`).

**The store.** `TypeOK` rests on `OneBuildEach`: a run makes one build at most, so the
builds a row has seen are a prefix of those there are. `StoreInv` follows a version
from its parse to its last reader: what builds select is linked and has
assets (`Selected`), what rows and jobs name is linked (`Linked`), and what a
deletion or the collection has listed is still an orphan when it is erased
(`Listed`), which is the part that an interleaved parse refutes, as an interleaved
publication does `Doomed`: what the collection is about to delete serves nobody. A step of the store
is a step of `KbServing` by what it does to builds: a publication publishes,
the steps of a deletion that take builds or documents away withdraw, all others
tidy.

`RecordInv` follows a run through its rows. The run at work is the only busy one
of its KB (`InTurn`, `Alone`), rows of runs not yet begun are empty (`Unbegun`), a build made is the
latest of its KB until its run completes (`BuiltLast`, `Behind`), it holds what
the rows call committed (`Made`), and between `Publish` and `Record` the job and the rows
agree document by document (`Recording`), also when a crash falls between them and
a resume replays the record. A skip is judged against the latest build, and no
build has been made since (`Chained`, `Preparing`).

`SkippedKeepsServing` has no condition and an invariant of its own, `SkipInv`: a document
skipped by a run is served with the version in its row while its KB gets no other
build (`SkipHolds`), what the job is about to carry on is so in its rows unless they
were wiped (`SkipsAgree`), no row is younger than the builds (`RowsInTime`), and a run
that has been wiped under the executor has no busy rival (`Alone`).

**Serving.** `Solo`: clients about to submit, tasks at work and the flag of the cell are
one warm-up or none. `GateInv`: probes are never of the future (`Past`), and a cell
is ready for a token only if that token's cache has been warmed (`WarmedUp`). The
refinement needs `Ordered`: nodes of a wave have all their predecessors answered.

`CompilerDecides` is about an algorithm: the cycle check is Kahn's, on graphs with parallel
edges. When the nodes outside a set U have been visited, what is left of the
in-degree of a node is the sum of its edges from U; so a node is free when U has
no predecessor of it, a visit of n takes U to U without n, and nodes that all have
a predecessor among themselves are never free (`VisitsCount`). `DataLemmas` has what
takes the place of induction, which the provers cannot instantiate: a set of
numbers has a least member (`HasLeast`), a family of finite sets a smallest
(`HasSmallest`), and a recursion whose argument gets smaller defines one function
(`RecursionDefines`), from which follow that sums do not depend on the order
(`SumSplits`) and that the recursion `Visits` ends (`VisitsExist`).

**Only model-checked.** The liveness properties, since liveness under fairness is out of
the prover's reach: `EveryTaskSettles`, `EveryRunSettles`, `BegunRunSettles`,
`PurgeSettles`, `OrphansReclaimed`, `GateOpens`. The invariants, action properties and
refinements of the passing runs are all proved.

## Disagreements

| Run | Code | What the repository says | What happens |
|---|---|---|---|
| `llm_retry` | `api/tasks.py:170` | README: a failed task can be reset by retry (`attempt_count=0`) | attempt numbers start again at 1, the INSERT violates `UNIQUE (task_id, attempt_no)`, and the provider is not called |
| `llm_duplicate` | `idempotency.py:72` | docstring: the id of an active or succeeded task of this key; only failed, dead-lettered and cancelled ones are ignored | a task claimed between two reads is not found, and the request is computed twice |
| `kb_purge` | `purge_service.py:385` | docstrings: the deletion of snapshots is guarded against concurrent references; neighbours lose nothing | only the snapshot row is guarded, its assets are deleted in any case |
| `kb_retry` | `persist.py:46` | comments: a rejected document must be mined again and not reuse its completed persist | the chain runs, but the persist handler finds the old identity and stages nothing |

Behaviour that the models show too and that no run reports:

- A chat submission with another model or output schema under the same key is answered
  with the older task: the fingerprint (`idempotency.py:41-50`, `service.py:351-356`)
  covers messages, input, params and the expected type only. The comments say that a
  model flip must not reuse stale results under a same key (`service.py:343-345`,
  `idempotency.py:67`), and the chat caller relies on it (`llm_generation.py:150`).
  Embedding and rerank have the model in their input.
- `record_failure` (`domain_run_queue.py:157-163`) asks for the status and not for the
  `worker_id`: a resume that has claimed a run after its release finds it failed and
  without a lease while it works on it, against "database leases remain the ownership
  fence" (`domain_run_queue.py:43`).
- A run resumed after a later one of its KB has published puts back the versions it had
  skipped (`jobs/run.py:1709-1720`, `routes/runs.py:1110-1217`), where the comment and
  the design note (`docs/下一阶段/36-挖掘bug.md:322`) have it carry what serves.
- The collection looks whether a snapshot serves and deletes it in later statements of
  a READ COMMITTED transaction (`purge_service.py:537-558`): what a publication in
  between has put into service is deleted, against the comment at 531-532.
- The check that a KB has no queued or running run is a transaction before the deletion
  of its runs (`purge_service.py:233-241`), and nothing sets the status `deleting` that
  `kbs.py:210` and `purge_tasks.py:117` speak of: a run enqueued in between is deleted
  while it is queued or running, against `purge_service.py:132-133`.
- An event INSERT that raises after a committed `fail` leads to a second `fail` of the
  same attempt (`service.py:314`), against the comment at `service.py:293-295`.
- A process that dies after `claim_run` and before the first phase leaves a queued
  row with a lease. Neither the start nor the sweep, which reads running rows
  (`startup_recovery.py:49`), takes it up; it waits for the next upload or restart,
  against the docstring `startup_recovery.py:137-143`.
- A KB deletion that dies between the deletion of the KB's row and the `done` of its
  task is recovered, finds no KB and ends as failed.
- A run enqueued between the deletion of a KB's runs and of its documents outlives
  its KB.
- A job that has entered `publishing` when a deletion of its KB wipes the builds
  still assembles one: the versions it skipped are served again until the
  deletion reaches their documents.
- Two DELETEs of one KB may both find no active task (`kbs.py:227`) and start two
  deletions; the second ends as failed.
- When a statement of a KB deletion raises and the write of the failed status does
  too (`purge_tasks.py:144`), the task looks active until the next start, and a new
  DELETE is answered with it.
- `PersistWriter.stop` cancels its writers in the middle of a batch
  (`persist_writer.py:245-253`); those records are in no counter. `Accounted` has
  them in `lost`.

## Not modelled

Providers, parsers, prompt templates, document parsing, segmentation, enrichment,
ranking and page generation transform data and keep no shared state; their
outcomes are nondeterministic choices of the models. They are most of the lines of
the repository, with the SQL of single-row CRUD (`kb/db.py`, `kb/db_artifacts.py`),
the user interface, the proxy, authentication and scripts, which hold nothing that
several actors write in more than one step. The domain pools of
agent_serving_java are loaded once at start. What each module leaves out of its own
component is said at the end of its section; the restart endpoint of
main_control_service is in the plan.

## Plan

1. `RestartOrchestrator`: the status file of the one-click restart, two requests and
   the orchestrator process (`main_control_service/main.py:454`).
2. `NodeExecution`: node attempts of two executors over `MiningRunQueue`, with leases
   that lapse; the node events that a resume reads.
3. Two executors of one domain in `KbStore`, with the publish lock as a lock.

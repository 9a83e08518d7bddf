---------------------------- MODULE IngestionJobs ----------------------------
(***************************************************************************)
(* The ingestion queue: the source_tasks table (rag_core/sources.py), the  *)
(* runners that claim its rows under a lease (rag_core/ingestion_jobs.py)  *)
(* and the jobs they execute.                                              *)
(*                                                                         *)
(* Every table operation is one metadata transaction, hence one step.      *)
(* Clocks are abstracted to what the comparisons with now_ms() tell apart: *)
(* a lease is "live" or "expired", the next attempt is due or in backoff,  *)
(* and dead_lettered_at is 0 or set (1).                                   *)
(* Any process may find a lease expired at any time, so skewed clocks and  *)
(* stalled threads are covered.  A lease owner string is fresh for every   *)
(* claim (uuid4); a member of Leases stands for one such string and may be *)
(* used again once no job and no row mentions it.                          *)
(***************************************************************************)
EXTENDS Naturals, FiniteSets

CONSTANTS
  Tasks,             \* uploaded sources, one source_tasks row each
  Blank,             \* the uploads whose file parses to no document at all
  Tenants, TenantOf, \* the tenants, and the tenant of each task
  Runners,           \* IngestionJobRunner objects, one per process
  Leases,            \* lease owner strings
  Workers,           \* RAG_INGEST_WORKERS
  QueueLimit,        \* RAG_INGEST_QUEUE_LIMIT
  TenantQueueLimit,  \* RAG_INGEST_TENANT_QUEUE_LIMIT
  MaxAttempts,       \* RAG_INGEST_MAX_ATTEMPTS
  None               \* no lease owner, task or runner

ASSUME IngestionAssumption ==
  /\ Blank \subseteq Tasks
  /\ TenantOf \in [Tasks -> Tenants]
  /\ None \notin Leases \cup Tasks \cup Runners
  /\ Workers \in Nat \ {0}
  /\ QueueLimit \in Nat \ {0}
  /\ TenantQueueLimit \in Nat \ {0}
  /\ MaxAttempts \in Nat \ {0}

VARIABLES
  rows,         \* the source_tasks table
  effects,      \* what ingestion of each task has made durable so far
  jobs,         \* the job (executor task and renewal thread) of each lease
  mode,         \* "up", "stopping" or "down", per runner
  slots,        \* free permits of runner._slots
  tenantSlots,  \* free permits of runner._tenant_slots[tenant]
  pool          \* the threads of runner._executor, and whether a drain gave back
                \* the permit of a job the executor nevertheless holds

vars == <<rows, effects, jobs, mode, slots, tenantSlots, pool>>
runnerVars == <<mode, slots, tenantSlots, pool>>

Statuses == {"absent", "queued", "processing", "failed", "completed", "deleted"}
Phases == {"idle", "scheduled", "starting", "summarizing", "summarized", "indexing",
           "indexed", "persisting", "archived", "published", "catalogued", "ingested",
           "completing", "failing", "closing"}
Effects == {"summarized", "indexed", "archived", "published", "catalogued", "resolved"}

Row == [status : Statuses, owner : Leases \cup {None},
        lease : {"none", "live", "expired"}, next : {"due", "backoff"},
        attempts : 0 .. MaxAttempts, dead : {0, 1}]

\* A row without a lease.  "absent" is a task not created yet; a row that was
\* removed keeps in status the reason of its removal.
UnleasedRow(status, next, attempts, dead) ==
  [status |-> status, owner |-> None, lease |-> "none", next |-> next,
   attempts |-> attempts, dead |-> dead]

\* valid is the lease_valid event (1 when set).  stale is a history variable: the
\* changes this job made outside the table after it had lost its row.
Job == [phase : Phases, task : Tasks \cup {None}, runner : Runners \cup {None},
        valid : {0, 1}, stale : SUBSET Effects]

NoJob == [phase |-> "idle", task |-> None, runner |-> None, valid |-> 0, stale |-> {}]

NewPool == [threads |-> 0, overdrawn |-> FALSE]

-----------------------------------------------------------------------------
(* Helper state formulae *)

\* WHERE status = 'processing' AND lease_owner = ?
Owns(l, t) == rows[t].status = "processing" /\ rows[t].owner = l

\* Mutants: a row that is being processed, or that failed, is claimed again.
ClaimableAnyStatus(t) == rows[t].status \in {"queued", "processing"} /\ rows[t].next = "due"
ClaimableFailed(t) == rows[t].status \in {"queued", "failed"} /\ rows[t].next = "due"

Claimable(t) == rows[t].status = "queued" /\ rows[t].next = "due"

\* Mutants: the reaper ignores the lease, or looks for rows without an owner.
StaleLeased == {t \in Tasks : rows[t].status = "processing"}
StaleUnowned == {t \in Tasks : rows[t].status = "processing" /\ rows[t].owner = None}

\* The rows requeue_stale_processing_source_tasks selects.
Stale == {t \in Tasks : rows[t].status = "processing" /\ rows[t].lease = "expired"}

Fresh(l) == jobs[l].phase = "idle" /\ \A t \in Tasks : rows[t].owner # l

JobsOf(r) == {l \in Leases : jobs[l].phase # "idle" /\ jobs[l].runner = r}

\* The jobs an executor thread is working on, as opposed to queued ones.
RunningJobs(r) == {l \in JobsOf(r) : jobs[l].phase # "scheduled"}

TenantJobsOf(r, n) == {l \in JobsOf(r) : TenantOf[jobs[l].task] = n}

\* The renewal thread runs from the start of the job until stop_renewal is set;
\* it returns by itself only after clearing lease_valid.
Renewing(l) == jobs[l].phase \notin {"idle", "scheduled"} /\ jobs[l].valid = 1

\* attempt_count + 1.  The only comparison is with MaxAttempts, so larger
\* counts are one value.
Bump(n) == IF n < MaxAttempts THEN n + 1 ELSE n

\* A thread of the executor is free to take the next job.
ThreadFree(r) == Cardinality(RunningJobs(r)) < pool[r].threads

\* What job l has done without its row once it has made change e.
StaleAfter(l, e) == jobs[l].stale \cup IF Owns(l, jobs[l].task) THEN {} ELSE {e}

FreshSlots == [n \in Tenants |-> TenantQueueLimit]

Init ==
  /\ rows = [t \in Tasks |-> UnleasedRow("absent", "due", 0, 0)]
  /\ effects = [t \in Tasks |-> {}]
  /\ jobs = [l \in Leases |-> NoJob]
  /\ mode = [r \in Runners |-> "up"]
  /\ slots = [r \in Runners |-> QueueLimit]
  /\ tenantSlots = [r \in Runners |-> FreshSlots]
  /\ pool = [r \in Runners |-> NewPool]

-----------------------------------------------------------------------------
(* Requests of the API: upload, retry, administrative redrive, deletion.   *)

CreateTask(t) ==
  /\ rows[t].status = "absent"
  /\ rows' = [rows EXCEPT ![t] = UnleasedRow("queued", "due", 0, 0)]
  /\ UNCHANGED <<effects, jobs, runnerVars>>

\* Mutant: the retry does not clear dead_lettered_at.
RequeueFailedStillDead(t) ==
  /\ rows[t].status = "failed"
  /\ rows' = [rows EXCEPT ![t] = UnleasedRow("queued", "due", 0, rows[t].dead)]
  /\ UNCHANGED <<effects, jobs, runnerVars>>

RequeueFailed(t) ==
  /\ rows[t].status = "failed"
  /\ rows' = [rows EXCEPT ![t] = UnleasedRow("queued", "due", 0, 0)]
  /\ UNCHANGED <<effects, jobs, runnerVars>>

RetryTask(t) == RequeueFailed(t)

\* The administrator's redrive passes require_dead_lettered.
RedriveTask(t) == rows[t].dead = 1 /\ RequeueFailed(t)

\* The last statement of delete_source removes the row whatever its status.
DeleteSource(t) ==
  /\ rows[t].status \in {"queued", "processing", "failed"}
  /\ rows' = [rows EXCEPT ![t] = UnleasedRow("deleted", "due", 0, 0)]
  /\ UNCHANGED <<effects, jobs, runnerVars>>

-----------------------------------------------------------------------------
(* The dispatcher: submit_upload and drain_pending.                        *)

\* A permit of the runner and one of the tenant are free.
HasCapacity(r, n) == slots[r] > 0 /\ tenantSlots[r][n] > 0

ClaimedRow(t, l) ==
  [status |-> "processing", owner |-> l, lease |-> "live", next |-> "due",
   attempts |-> Bump(rows[t].attempts), dead |-> rows[t].dead]

TakeTenantSlot(r, n) == tenantSlots' = [tenantSlots EXCEPT ![r][n] = @ - 1]

TakeSlots(r, n) ==
  /\ slots' = [slots EXCEPT ![r] = @ - 1]
  /\ TakeTenantSlot(r, n)

\* The row is claimed and the job is in the executor's queue.
ClaimAndQueue(r, t, l) ==
  /\ mode[r] = "up"
  /\ HasCapacity(r, TenantOf[t])
  /\ Claimable(t)
  /\ Fresh(l)
  /\ rows' = [rows EXCEPT ![t] = ClaimedRow(t, l)]
  /\ jobs' = [jobs EXCEPT ![l] = [phase |-> "scheduled", task |-> t, runner |-> r,
                                  valid |-> 1, stale |-> {}]]
  /\ UNCHANGED <<effects, mode>>

\* submit starts a thread unless one is idle or all are there; the executor's
\* count of idle threads may be too high once a start has failed.
EnsureThread(r) ==
  \E n \in {pool[r].threads, pool[r].threads + 1} \cap 1 .. Workers :
    pool' = [pool EXCEPT ![r].threads = n]

\* Mutant: drain_pending forgets scheduled = True and gives the permit back.
ClaimWithoutScheduled(r, t, l) ==
  /\ ClaimAndQueue(r, t, l)
  /\ TakeTenantSlot(r, TenantOf[t])
  /\ EnsureThread(r)
  /\ UNCHANGED slots

\* Claim the row and hand the job to the executor.  A dispatcher that finds the
\* row taken gives both permits back, which is no step at all.
ClaimAndSchedule(r, t, l) ==
  /\ ClaimAndQueue(r, t, l)
  /\ TakeSlots(r, TenantOf[t])
  /\ EnsureThread(r)

\* submit raises because the thread cannot be started, with the job in its queue.
\* In submit_upload the job keeps its permits; the handler in drain_pending gives
\* back the runner's, which the job's finally block will release again.
ScheduleRaises(r, t, l) ==
  /\ pool[r].threads < Workers
  /\ ClaimAndQueue(r, t, l)
  /\ \/ TakeSlots(r, TenantOf[t]) /\ UNCHANGED pool
     \/ /\ TakeTenantSlot(r, TenantOf[t]) /\ UNCHANGED slots
        /\ pool' = [pool EXCEPT ![r].overdrawn = TRUE]

\* The claim raises in submit_upload: no handler gives the permits back.
SubmitClaimRaises(r, t) ==
  /\ mode[r] = "up"
  /\ HasCapacity(r, TenantOf[t])
  /\ rows[t].status = "queued"
  /\ TakeSlots(r, TenantOf[t])
  /\ UNCHANGED <<rows, effects, jobs, mode, pool>>

\* The claim raises in drain_pending: the handler gives back the runner's
\* permit and forgets the tenant's.
DrainClaimRaises(r, t) ==
  /\ mode[r] = "up"
  /\ HasCapacity(r, TenantOf[t])
  /\ Claimable(t)
  /\ TakeTenantSlot(r, TenantOf[t])
  /\ UNCHANGED <<rows, effects, jobs, mode, slots, pool>>

\* A drain that passed the _stopping test before shutdown() claims a row that
\* the executor then refuses: the row stays claimed with no job behind it.
ClaimDuringShutdown(r, t, l) ==
  /\ mode[r] = "stopping"
  /\ HasCapacity(r, TenantOf[t])
  /\ Claimable(t)
  /\ Fresh(l)
  /\ rows' = [rows EXCEPT ![t] = ClaimedRow(t, l)]
  /\ TakeTenantSlot(r, TenantOf[t])
  /\ UNCHANGED <<effects, jobs, mode, slots, pool>>

\* Mutant: the requeue resets attempt_count.
RequeueStaleAfresh(S) ==
  /\ S # {}
  /\ rows' = [t \in Tasks |->
                IF t \in S THEN UnleasedRow("queued", "due", 0, 0) ELSE rows[t]]
  /\ UNCHANGED <<effects, jobs, runnerVars>>

\* requeue_stale_processing_source_tasks, run first by every drain.  Rows that
\* change between its SELECT and its UPDATE drop out, and LIMIT cuts the list:
\* any part S of the stale rows may be the one requeued.
RequeueStale(S) ==
  /\ S # {}
  /\ rows' = [t \in Tasks |->
                IF t \in S THEN UnleasedRow("queued", "due", rows[t].attempts, rows[t].dead)
                           ELSE rows[t]]
  /\ UNCHANGED <<effects, jobs, runnerVars>>

-----------------------------------------------------------------------------
(* The job: _run_claimed_upload around ingest_uploaded_path.               *)

Goto(l, p) == jobs' = [jobs EXCEPT ![l].phase = p]

\* The lease is lost for this job: lease_valid.clear() and an exception.
Abandon(l) == jobs' = [jobs EXCEPT ![l].phase = "closing", ![l].valid = 0]

\* An executor thread takes the job and starts its renewal thread.
StartJob(l) ==
  /\ jobs[l].phase = "scheduled"
  /\ ThreadFree(jobs[l].runner)
  /\ Goto(l, "starting")
  /\ UNCHANGED <<rows, effects, runnerVars>>

\* The renewal thread cannot be started.  That is outside the try block: the
\* permits are not given back and the row stays claimed.
RenewalStartFails(l) ==
  /\ jobs[l].phase = "scheduled"
  /\ ThreadFree(jobs[l].runner)
  /\ jobs' = [jobs EXCEPT ![l] = NoJob]
  /\ UNCHANGED <<rows, effects, runnerVars>>

\* What follows the progress report made in phase p.  The reports that no
\* change outside the table separates are one report.
NextStage(p, t) ==
  CASE p = "starting"   -> IF t \in Blank THEN "ingested" ELSE "summarizing"
    [] p = "summarized" -> "indexing"
    [] p = "indexed"    -> "persisting"
    [] p = "catalogued" -> "ingested"

ReportingPhases == {"starting", "summarized", "indexed", "catalogued"}

\* Mutant: the result of the progress UPDATE is ignored.
ReportProgressUnfenced(l) ==
  /\ jobs[l].phase \in ReportingPhases
  /\ Goto(l, NextStage(jobs[l].phase, jobs[l].task))
  /\ UNCHANGED <<rows, effects, runnerVars>>

\* report_progress: the fence in front of every stage.
ReportProgress(l) ==
  /\ jobs[l].phase \in ReportingPhases
  /\ IF Owns(l, jobs[l].task)
       THEN Goto(l, NextStage(jobs[l].phase, jobs[l].task))
       ELSE Abandon(l)
  /\ UNCHANGED <<rows, effects, runnerVars>>

\* One change of a store other than the table, which looks at no lease.
Change(l, from, to) ==
  /\ jobs[l].phase = from
  /\ effects' = [effects EXCEPT ![jobs[l].task] = @ \cup {to}]
  /\ jobs' = [jobs EXCEPT ![l].phase = to, ![l].stale = StaleAfter(l, to)]
  /\ UNCHANGED <<rows, runnerVars>>

\* Guides and section summaries; the vectors; then three writes in three stores
\* with no report between them.
SummarizeSources(l) == Change(l, "summarizing", "summarized")
IndexEntities(l) == Change(l, "indexing", "indexed")

\* Mutant: the versions are not published.
ArchiveAndForgetVersions(l) ==
  /\ jobs[l].phase = "persisting"
  /\ effects' = [effects EXCEPT ![jobs[l].task] = @ \cup {"archived"}]
  /\ jobs' = [jobs EXCEPT ![l].phase = "published",
                          ![l].stale = StaleAfter(l, "archived")]
  /\ UNCHANGED <<rows, runnerVars>>

ArchiveDocuments(l) == Change(l, "persisting", "archived")
PublishVersions(l) == Change(l, "archived", "published")
SaveCatalog(l) == Change(l, "published", "catalogued")

\* ingest_uploaded_path, or a table operation made after it, raises.
IngestRaises(l) ==
  /\ jobs[l].phase \notin {"idle", "scheduled", "failing", "closing"}
  /\ Goto(l, IF jobs[l].valid = 1 THEN "failing" ELSE "closing")
  /\ UNCHANGED <<rows, effects, runnerVars>>

\* lease_valid was cleared while the document was ingested: nothing is recorded.
SkipCompletion(l) ==
  /\ jobs[l].phase = "ingested"
  /\ jobs[l].valid = 0
  /\ Goto(l, "closing")
  /\ UNCHANGED <<rows, effects, runnerVars>>

\* save_source_task_resolutions: not fenced by the lease owner.
SaveResolutions(l) ==
  /\ jobs[l].phase = "ingested"
  /\ jobs[l].valid = 1
  /\ IF jobs[l].task \in Blank
       THEN /\ Goto(l, "completing")
            /\ UNCHANGED effects
       ELSE /\ effects' = [effects EXCEPT ![jobs[l].task] = @ \cup {"resolved"}]
            /\ jobs' = [jobs EXCEPT ![l].phase = "completing",
                                    ![l].stale = StaleAfter(l, "resolved")]
  /\ UNCHANGED <<rows, runnerVars>>

\* delete_source_task with a lease owner; its result is ignored.
CompleteTask(l) ==
  /\ jobs[l].phase = "completing"
  /\ rows' = IF Owns(l, jobs[l].task)
               THEN [rows EXCEPT ![jobs[l].task] = UnleasedRow("completed", "due", 0, 0)]
               ELSE rows
  /\ Goto(l, "closing")
  /\ UNCHANGED <<effects, runnerVars>>

\* retry_or_fail_source_task: back off, or dead-letter after the last attempt.
FailedAttemptRow(n) ==
  IF n < MaxAttempts THEN UnleasedRow("queued", "backoff", n, 0)
                     ELSE UnleasedRow("failed", "due", n, 1)

RetryOrFail(l) ==
  /\ jobs[l].phase = "failing"
  /\ rows' = IF Owns(l, jobs[l].task)
               THEN [rows EXCEPT ![jobs[l].task] = FailedAttemptRow(@.attempts)]
               ELSE rows
  /\ Goto(l, "closing")
  /\ UNCHANGED <<effects, runnerVars>>

RetryOrFailRaises(l) ==
  /\ jobs[l].phase = "failing"
  /\ Goto(l, "closing")
  /\ UNCHANGED <<rows, effects, runnerVars>>

\* The finally block: stop the renewal, release the tenant's permit, then the
\* runner's; a BoundedSemaphore that is full raises instead.  The drain that
\* follows is RequeueStale and ClaimAndSchedule.
CloseJob(l) ==
  LET r == jobs[l].runner
      n == TenantOf[jobs[l].task]
  IN  /\ jobs[l].phase = "closing"
      /\ jobs' = [jobs EXCEPT ![l] = NoJob]
      /\ slots' = [slots EXCEPT ![r] = IF @ < QueueLimit THEN @ + 1 ELSE @]
      /\ tenantSlots' = [tenantSlots EXCEPT ![r][n] = @ + 1]
      /\ UNCHANGED <<rows, effects, mode, pool>>

-----------------------------------------------------------------------------
(* The renewal thread and the clock.                                       *)

\* The UPDATE does not look at lease_expires_at: an expired lease that nobody
\* requeued is revived.
Renew(l) ==
  /\ Renewing(l)
  /\ IF Owns(l, jobs[l].task)
       THEN /\ rows' = [rows EXCEPT ![jobs[l].task].lease = "live"]
            /\ UNCHANGED jobs
       ELSE /\ jobs' = [jobs EXCEPT ![l].valid = 0]
            /\ UNCHANGED rows
  /\ UNCHANGED <<effects, runnerVars>>

\* One failed transaction ends the renewal for good.
RenewRaises(l) ==
  /\ Renewing(l)
  /\ jobs' = [jobs EXCEPT ![l].valid = 0]
  /\ UNCHANGED <<rows, effects, runnerVars>>

LeaseExpires(t) ==
  /\ rows[t].lease = "live"
  /\ rows' = [rows EXCEPT ![t].lease = "expired"]
  /\ UNCHANGED <<effects, jobs, runnerVars>>

BackoffElapses(t) ==
  /\ rows[t].status = "queued"
  /\ rows[t].next = "backoff"
  /\ rows' = [rows EXCEPT ![t].next = "due"]
  /\ UNCHANGED <<effects, jobs, runnerVars>>

-----------------------------------------------------------------------------
(* Processes: run_ingestion_worker's shutdown, crashes and restarts.       *)

StopRunner(r) ==
  /\ mode[r] = "up"
  /\ mode' = [mode EXCEPT ![r] = "stopping"]
  /\ UNCHANGED <<rows, effects, jobs, slots, tenantSlots, pool>>

DropJobsOf(r) == jobs' = [l \in Leases |-> IF l \in JobsOf(r) THEN NoJob ELSE jobs[l]]

\* shutdown(wait=True) joins the executor's threads, which run every job it
\* holds; an executor without a thread drops its queue.
ExitRunner(r) ==
  /\ mode[r] = "stopping"
  /\ JobsOf(r) = {} \/ pool[r].threads = 0
  /\ mode' = [mode EXCEPT ![r] = "down"]
  /\ DropJobsOf(r)
  /\ UNCHANGED <<rows, effects, slots, tenantSlots, pool>>

CrashRunner(r) ==
  /\ mode[r] # "down"
  /\ mode' = [mode EXCEPT ![r] = "down"]
  /\ DropJobsOf(r)
  /\ UNCHANGED <<rows, effects, slots, tenantSlots, pool>>

\* A new process, with a new IngestionJobRunner.
RestartRunner(r) ==
  /\ mode[r] = "down"
  /\ mode' = [mode EXCEPT ![r] = "up"]
  /\ slots' = [slots EXCEPT ![r] = QueueLimit]
  /\ tenantSlots' = [tenantSlots EXCEPT ![r] = FreshSlots]
  /\ pool' = [pool EXCEPT ![r] = NewPool]
  /\ UNCHANGED <<rows, effects, jobs>>

-----------------------------------------------------------------------------

Request(t) == CreateTask(t) \/ RetryTask(t) \/ RedriveTask(t) \/ DeleteSource(t)

Dispatch ==
  \/ \E r \in Runners, t \in Tasks :
       \/ SubmitClaimRaises(r, t)
       \/ DrainClaimRaises(r, t)
       \/ \E l \in Leases : \/ ClaimAndSchedule(r, t, l) \/ ScheduleRaises(r, t, l)
                            \/ ClaimDuringShutdown(r, t, l)
  \/ \E r \in Runners, S \in SUBSET Stale : mode[r] = "up" /\ RequeueStale(S)

JobStep(l) ==
  \/ StartJob(l) \/ RenewalStartFails(l) \/ ReportProgress(l)
  \/ SummarizeSources(l) \/ IndexEntities(l)
  \/ ArchiveDocuments(l) \/ PublishVersions(l) \/ SaveCatalog(l)
  \/ IngestRaises(l) \/ SkipCompletion(l) \/ SaveResolutions(l) \/ CompleteTask(l)
  \/ RetryOrFail(l) \/ RetryOrFailRaises(l) \/ CloseJob(l)
  \/ Renew(l) \/ RenewRaises(l)

ProcessStep(r) == StopRunner(r) \/ ExitRunner(r) \/ CrashRunner(r) \/ RestartRunner(r)

Next ==
  \/ \E t \in Tasks : Request(t) \/ LeaseExpires(t) \/ BackoffElapses(t)
  \/ Dispatch
  \/ \E l \in Leases : JobStep(l)
  \/ \E r \in Runners : ProcessStep(r)

Spec == Init /\ [][Next]_vars

-----------------------------------------------------------------------------
(* Fairness.  Executor threads, pollers and database transactions make     *)
(* progress and processes are restarted.  Nothing is said of which due row *)
(* a listing puts first: fresh uploads sort before every requeued row, so  *)
(* that liveness supposes a pause of the requests.  Faults stop one day:   *)
(* from then on the renewal thread keeps a running job's lease alive and   *)
(* queued jobs start before their lease runs out.                          *)

Progress(l) ==
  \/ ReportProgress(l) \/ SummarizeSources(l) \/ IndexEntities(l)
  \/ ArchiveDocuments(l) \/ PublishVersions(l) \/ SaveCatalog(l)
  \/ SkipCompletion(l) \/ SaveResolutions(l) \/ CompleteTask(l)
  \/ RetryOrFail(l) \/ CloseJob(l)

\* A thread of the executor takes some job from the queue.
TakeJob(r) == \E l \in Leases : jobs[l].runner = r /\ StartJob(l)

\* A poll claims some row, if one listing (queue_limit * 4 rows) shows all that are
\* due.  Once a permit was given back twice, a release may raise in the poller and
\* end it: an overdrawn runner is not known to poll.
Poll(r) ==
  /\ Cardinality({t \in Tasks : Claimable(t)}) <= 4 * QueueLimit
  /\ ~pool[r].overdrawn
  /\ \E t \in Tasks, l \in Leases : ClaimAndSchedule(r, t, l)

\* A claimed row no thread will renew.
Neglected(t) == \A l \in Leases :
  Owns(l, t) => /\ ~Renewing(l)
                /\ jobs[l].phase = "scheduled" => pool[jobs[l].runner].threads = 0

Fault ==
  \/ \E r \in Runners : StopRunner(r) \/ CrashRunner(r)
  \/ \E r \in Runners, t \in Tasks :
       \/ SubmitClaimRaises(r, t) \/ DrainClaimRaises(r, t)
       \/ \E l \in Leases : ScheduleRaises(r, t, l)
  \/ \E l \in Leases : RenewalStartFails(l) \/ RenewRaises(l) \/ RetryOrFailRaises(l)
  \/ \E t \in Tasks : LeaseExpires(t) /\ ~Neglected(t)

Fairness ==
  /\ \A l \in Leases : WF_vars(Progress(l))
  /\ \A r \in Runners : WF_vars(TakeJob(r)) /\ WF_vars(Poll(r))
  /\ \A t \in Tasks : WF_vars(BackoffElapses(t)) /\ WF_vars(Neglected(t) /\ LeaseExpires(t))
  /\ WF_vars(\E r \in Runners : ~pool[r].overdrawn /\ mode[r] = "up" /\ RequeueStale(Stale))
  /\ \A r \in Runners : WF_vars(ExitRunner(r)) /\ WF_vars(RestartRunner(r))

\* What liveness may suppose: progress, and an end of the faults and the requests.
Recovering == Fairness /\ <>[][~Fault /\ ~\E t \in Tasks : Request(t)]_vars

-----------------------------------------------------------------------------
(* Properties.                                                             *)

\* Rows, jobs and permits have their types: no counter of permits goes negative,
\* and a row is in a state the table knows.
TypeOK ==
  /\ rows \in [Tasks -> Row]
  /\ effects \in [Tasks -> SUBSET Effects]
  /\ jobs \in [Leases -> Job]
  /\ mode \in [Runners -> {"up", "stopping", "down"}]
  /\ slots \in [Runners -> Nat]
  /\ tenantSlots \in [Runners -> [Tenants -> Nat]]
  /\ pool \in [Runners -> [threads : 0 .. Workers, overdrawn : BOOLEAN]]

\* The changes no fence separates: one stage each, except that resolutions are
\* saved after the last report and a test of lease_valid.
Stages == {{"summarized"}, {"indexed"}, {"archived", "published", "catalogued"}, {"resolved"}}

\* A worker that lost its row to another one changes nothing outside the table but
\* what is left of one stage: the next progress report, or the final delete, stops it.
StaleWithinOneStage ==
  \A l \in Leases : \E stage \in Stages : jobs[l].stale \subseteq stage

\* Lost ownership is never regained: a job that still owns its row has owned it
\* through everything it did.
OwnerNeverStale ==
  \A l \in Leases :
    jobs[l].phase # "idle" /\ Owns(l, jobs[l].task) => jobs[l].stale = {}

\* What a job of phase p has durably done before, unless its file was blank.
DoneBy(p) ==
  CASE p \in {"summarized", "indexing"} -> {"summarized"}
    [] p \in {"indexed", "persisting"}  -> {"summarized", "indexed"}
    [] p = "archived"                   -> {"summarized", "indexed", "archived"}
    [] p = "published"                  -> Effects \ {"catalogued", "resolved"}
    [] p \in {"catalogued", "ingested"} -> Effects \ {"resolved"}
    [] p = "completing"                 -> Effects
    [] OTHER                            -> {}

\* Where a job stands tells what it has made durable: it never skips a stage.
StagesLeaveEffects ==
  \A l \in Leases : jobs[l].phase # "idle" /\ jobs[l].task \notin Blank =>
    DoneBy(jobs[l].phase) \subseteq effects[jobs[l].task]

\* What a job of phase p has done since the last fence it passed.
SinceFence(p) ==
  CASE p = "summarized" -> {"summarized"}
    [] p = "indexed"    -> {"indexed"}
    [] p = "archived"   -> {"archived"}
    [] p = "published"  -> {"archived", "published"}
    [] p = "catalogued" -> {"archived", "published", "catalogued"}
    [] p = "completing" -> {"resolved"}
    [] OTHER            -> {}

\* A job that has passed a fence did everything before it with its row.
FenceStopsStaleJobs ==
  \A l \in Leases : jobs[l].phase \notin {"failing", "closing"}
                     => jobs[l].stale \subseteq SinceFence(jobs[l].phase)

\* A task row removed as completed left behind summaries, vectors, archived,
\* published and catalogued documents, and the resolution of its id, unless its
\* file held no document.
CompletedIsDurable ==
  \A t \in Tasks \ Blank : rows[t].status = "completed" => effects[t] = Effects

\* Unless a thread could not be started under a drain, permits and jobs of a runner
\* stay within its limit.  Even then no tenant exceeds its share, and never do more
\* jobs run than there are executor threads.
CapacityKept ==
  \A r \in Runners :
    /\ mode[r] # "down" /\ ~pool[r].overdrawn =>
         slots[r] + Cardinality(JobsOf(r)) <= QueueLimit
    /\ \A n \in Tenants : mode[r] # "down" =>
         tenantSlots[r][n] + Cardinality(TenantJobsOf(r, n)) <= TenantQueueLimit
    /\ Cardinality(RunningJobs(r)) <= Workers

\* Exactly the failed rows are dead letters, so that an administrator can
\* redrive whatever a user can retry, and each had its full number of claims.
DeadLettersExhausted ==
  \A t \in Tasks :
    /\ rows[t].dead = 1 <=> rows[t].status = "failed"
    /\ rows[t].dead = 1 => rows[t].attempts = MaxAttempts

\* A job that is not idle works for a runner on a task that was uploaded.
JobsAreAssigned ==
  \A l \in Leases : jobs[l].phase # "idle" =>
    /\ jobs[l].task \in Tasks /\ jobs[l].runner \in Runners
    /\ rows[jobs[l].task].status # "absent"

\* The inductive invariant: the queue's guarantees and the facts about stages
\* and fences they rest on.
IInv ==
  /\ TypeOK
  /\ JobsAreAssigned
  /\ StaleWithinOneStage
  /\ OwnerNeverStale
  /\ FenceStopsStaleJobs
  /\ StagesLeaveEffects
  /\ CompletedIsDurable
  /\ DeadLettersExhausted

Handover(t) ==
  rows[t].status = "processing" /\ rows'[t].owner # rows[t].owner =>
    \/ rows'[t].status = "deleted"
    \/ rows[t].lease = "expired" /\ rows'[t].status = "queued"
    \/ \E l \in Leases :
         Owns(l, t) /\ jobs[l].task = t /\ jobs[l].phase \in {"completing", "failing"}

\* A claimed row changes hands only by its own job's last operation, by the
\* reaper once the lease has expired, or by deletion of the source.
HandoverOnlyByRule == [][\A t \in Tasks : Handover(t)]_vars

AttemptsKept(t) ==
  rows[t].status \in {"queued", "processing"} /\ rows'[t].status = "queued" =>
    rows'[t].attempts = rows[t].attempts

\* Crashes and requeues do not give a task back its attempts: only a retry or
\* redrive of a dead letter does.
RetryBudgetKept == [][\A t \in Tasks : AttemptsKept(t)]_vars

Settled(t) == rows[t].status \in {"failed", "completed", "deleted"}

\* In every runner the permits of some kind leaked away, or are held by jobs no
\* thread will run, or a permit was given back twice.
Starved(t) ==
  \A r \in Runners :
    \/ slots[r] + Cardinality(JobsOf(r)) = 0
    \/ tenantSlots[r][TenantOf[t]] + Cardinality(TenantJobsOf(r, TenantOf[t])) = 0
    \/ pool[r].threads = 0 /\ ~HasCapacity(r, TenantOf[t])
    \/ pool[r].overdrawn

\* An accepted upload does not wait for ever: once faults stop and requests pause
\* it is completed, dead-lettered or deleted, unless failed claims and failed starts
\* of threads left no runner able to take it.
EveryTaskSettles ==
  \A t \in Tasks :
    rows[t].status \in {"queued", "processing"} ~> Settled(t) \/ Starved(t)

-----------------------------------------------------------------------------
(* The table as a durable queue.                                           *)

QueueState == [absent |-> "none", queued |-> "pending", processing |-> "held",
               failed |-> "dead", completed |-> "finished", deleted |-> "removed"]

Queue == INSTANCE DurableQueue WITH
  Items   <- Tasks,
  Holders <- Leases,
  Nobody  <- None,
  item    <- [t \in Tasks |-> QueueState[rows[t].status]],
  holder  <- [t \in Tasks |-> rows[t].owner],
  durable <- Blank \cup {t \in Tasks : effects[t] = Effects}

\* Runners, leases, fences and retries together implement the durable queue.
ImplementsQueue == Queue!QSpec

=============================================================================

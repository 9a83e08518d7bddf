------------------------- MODULE IngestionJobs_proofs -------------------------
(***************************************************************************)
(* Proofs about IngestionJobs, for any number of tasks, runners, lease     *)
(* owners, threads, permits and attempts.                                  *)
(***************************************************************************)
EXTENDS IngestionJobs, FiniteSetTheorems, TLAPS

\* Lease owners claim rows; nobody's name is the empty one.
LEMMA NoneIsNobody == None \notin Leases /\ None \notin Tasks /\ None \notin Runners
BY IngestionAssumption

\* Building blocks of rows and jobs have the types of the table and the runner.
LEMMA RowTypes ==
  /\ \A st \in Statuses, d \in {"due", "backoff"}, n \in 0 .. MaxAttempts, k \in {0, 1} :
       UnleasedRow(st, d, n, k) \in Row
  /\ \A n \in 0 .. MaxAttempts : Bump(n) \in 0 .. MaxAttempts /\ FailedAttemptRow(n) \in Row
  /\ NoJob \in Job
BY IngestionAssumption
   DEF UnleasedRow, Row, Statuses, Bump, FailedAttemptRow, NoJob, Job, Phases

\* What the phases say of a job, by cases.
LEMMA PhaseFacts ==
  /\ \A p : DoneBy(p) \subseteq Effects
  /\ \A p : \E stage \in Stages : SinceFence(p) \subseteq stage
  /\ \A p \in {"idle", "scheduled", "starting", "failing", "closing"} : DoneBy(p) = {}
  /\ SinceFence("scheduled") = {} /\ SinceFence("starting") = {}
  /\ SinceFence("ingested") = {} /\ SinceFence("completing") = {"resolved"}
  /\ DoneBy("completing") = Effects /\ DoneBy("ingested") = Effects \ {"resolved"}
BY DEF DoneBy, SinceFence, Effects, Stages

\* A report takes a job to a phase in which it has done nothing since a fence.
LEMMA ReportFacts ==
  ASSUME NEW p \in ReportingPhases, NEW t \in Tasks
  PROVE  /\ NextStage(p, t) \in {"ingested", "summarizing", "indexing", "persisting"}
         /\ SinceFence(NextStage(p, t)) = {}
         /\ t \notin Blank => DoneBy(NextStage(p, t)) = DoneBy(p)
BY DEF ReportingPhases, NextStage, SinceFence, DoneBy

\* The changes of the stores, each from the phase before it to the one after.
Changes == {<<"summarizing", "summarized">>, <<"indexing", "indexed">>,
            <<"persisting", "archived">>, <<"archived", "published">>,
            <<"published", "catalogued">>}

LEMMA ChangeFacts ==
  ASSUME NEW from, NEW to, <<from, to>> \in Changes
  PROVE  /\ from \notin {"idle", "scheduled", "failing", "closing"}
         /\ to \in Effects /\ to \in Phases
         /\ to \notin {"idle", "scheduled", "failing", "closing"}
         /\ DoneBy(to) \subseteq DoneBy(from) \cup {to}
         /\ SinceFence(from) \cup {to} \subseteq SinceFence(to)
BY DEF Changes, Effects, Phases, DoneBy, SinceFence

\* The table starts empty and every job idle.
LEMMA InitIInv == Init => IInv
<1> SUFFICES ASSUME Init
             PROVE  IInv
  OBVIOUS
<1>1. TypeOK
  BY RowTypes, IngestionAssumption
     DEF Init, TypeOK, NoJob, UnleasedRow, Statuses, FreshSlots, Row, Job, Phases, NewPool
<1>2. \A l \in Leases : jobs[l].phase = "idle" /\ jobs[l].stale = {}
  BY DEF Init, NoJob
<1>3. JobsAreAssigned /\ OwnerNeverStale /\ StagesLeaveEffects
  BY <1>2 DEF JobsAreAssigned, OwnerNeverStale, StagesLeaveEffects
<1>4. StaleWithinOneStage /\ FenceStopsStaleJobs
  BY <1>2 DEF StaleWithinOneStage, FenceStopsStaleJobs, Stages
<1>5. CompletedIsDurable /\ DeadLettersExhausted
  BY DEF Init, CompletedIsDurable, DeadLettersExhausted, UnleasedRow
<1> QED
  BY <1>1, <1>3, <1>4, <1>5 DEF IInv

-----------------------------------------------------------------------------
(* Every step preserves the inductive invariant: first the steps that leave *)
(* the jobs alone and rewrite rows, then those of the jobs.                  *)

\* The types of what a runner keeps in memory.
RunnerTypes ==
  /\ mode \in [Runners -> {"up", "stopping", "down"}]
  /\ slots \in [Runners -> Nat]
  /\ tenantSlots \in [Runners -> [Tenants -> Nat]]
  /\ pool \in [Runners -> [threads : 0 .. Workers, overdrawn : BOOLEAN]]

LEMMA SameRunners ==
  ASSUME IInv, UNCHANGED runnerVars
  PROVE  RunnerTypes'
BY DEF IInv, TypeOK, RunnerTypes, runnerVars

\* Rewriting rows is harmless as long as no running job gains a row, no row
\* becomes completed and the dead letters stay the failed, exhausted rows.
LEMMA RowRewrite ==
  ASSUME IInv, rows' \in [Tasks -> Row], UNCHANGED <<effects, jobs>>,
         RunnerTypes',
         \A l \in Leases : jobs[l].phase # "idle" /\ Owns(l, jobs[l].task)'
                             => Owns(l, jobs[l].task),
         \A t \in Tasks : rows'[t].status \in {"absent", "completed"}
                             => rows[t].status = rows'[t].status,
         DeadLettersExhausted'
  PROVE  IInv'
BY DEF IInv, TypeOK, RunnerTypes, JobsAreAssigned, StaleWithinOneStage, OwnerNeverStale,
       FenceStopsStaleJobs, StagesLeaveEffects, CompletedIsDurable

LEMMA RequestStep ==
  ASSUME IInv, NEW t \in Tasks, Request(t)
  PROVE  IInv'
<1>1. ASSUME NEW st \in {"queued", "deleted"},
             rows' = [rows EXCEPT ![t] = UnleasedRow(st, "due", 0, 0)],
             UNCHANGED <<effects, jobs, runnerVars>>
      PROVE  IInv'
  <2>1. UnleasedRow(st, "due", 0, 0) \in Row
    BY RowTypes, IngestionAssumption DEF Statuses
  <2>2. rows' \in [Tasks -> Row]
    BY <1>1, <2>1 DEF IInv, TypeOK
  <2>3. \A u \in Tasks : u # t => rows'[u] = rows[u]
    BY <1>1 DEF IInv, TypeOK
  <2>4. rows'[t] = UnleasedRow(st, "due", 0, 0)
    BY <1>1 DEF IInv, TypeOK
  <2>5. DeadLettersExhausted'
    BY <2>3, <2>4 DEF IInv, DeadLettersExhausted, UnleasedRow
  <2>6. \A l \in Leases : jobs[l].phase # "idle" /\ Owns(l, jobs[l].task)'
                            => Owns(l, jobs[l].task)
    BY <1>1, <2>3, <2>4 DEF IInv, JobsAreAssigned, Owns, UnleasedRow
  <2> QED
    BY <1>1, <2>2, <2>3, <2>4, <2>5, <2>6, RowRewrite, SameRunners DEF UnleasedRow
<1> QED
  BY <1>1 DEF Request, CreateTask, RetryTask, RedriveTask, RequeueFailed, DeleteSource

LEMMA ClockStep ==
  ASSUME IInv, NEW t \in Tasks, LeaseExpires(t) \/ BackoffElapses(t)
  PROVE  IInv'
<1> DEFINE lapsed == [rows[t] EXCEPT !.lease = "expired"]
           due    == [rows[t] EXCEPT !.next = "due"]
<1>1. rows[t] \in Row /\ rows \in [Tasks -> Row]
  BY DEF IInv, TypeOK
<1>2. ASSUME NEW row \in {lapsed, due}
      PROVE  /\ row \in Row
             /\ row.status = rows[t].status /\ row.owner = rows[t].owner
             /\ row.dead = rows[t].dead /\ row.attempts = rows[t].attempts
  BY <1>1 DEF Row
<1>3. PICK row \in {lapsed, due} : rows' = [rows EXCEPT ![t] = row]
  BY DEF LeaseExpires, BackoffElapses
<1> HIDE DEF lapsed, due
<1>4. rows' \in [Tasks -> Row]
  BY <1>1, <1>2, <1>3
<1>5. \A u \in Tasks : /\ rows'[u].status = rows[u].status
                       /\ rows'[u].owner = rows[u].owner
                       /\ rows'[u].dead = rows[u].dead
                       /\ rows'[u].attempts = rows[u].attempts
  BY <1>1, <1>2, <1>3
<1>6. DeadLettersExhausted'
  BY <1>5 DEF DeadLettersExhausted, IInv
<1>7. UNCHANGED <<effects, jobs, runnerVars>>
  BY DEF LeaseExpires, BackoffElapses
<1>8. \A l \in Leases : jobs[l].phase # "idle" /\ Owns(l, jobs[l].task)'
                          => Owns(l, jobs[l].task)
  BY <1>5, <1>7 DEF Owns, IInv, JobsAreAssigned
<1> QED
  BY <1>4, <1>5, <1>6, <1>7, <1>8, RowRewrite, SameRunners

LEMMA RequeueStep ==
  ASSUME IInv, NEW S \in SUBSET Stale, RequeueStale(S)
  PROVE  IInv'
<1> DEFINE requeued(u) == UnleasedRow("queued", "due", rows[u].attempts, rows[u].dead)
<1>1. \A u \in Tasks : rows'[u] = IF u \in S THEN requeued(u) ELSE rows[u]
  BY DEF RequeueStale
<1>2. \A u \in Tasks : rows[u] \in Row
  BY DEF IInv, TypeOK
<1>3. \A u \in S : u \in Tasks /\ rows[u].status = "processing"
  BY DEF Stale
<1>4. \A u \in Tasks : /\ requeued(u) \in Row
                       /\ requeued(u).status = "queued" /\ requeued(u).owner = None
                       /\ requeued(u).dead = rows[u].dead
                       /\ requeued(u).attempts = rows[u].attempts
  BY <1>2 DEF Row, UnleasedRow, Statuses
<1> HIDE DEF requeued
<1>5. rows' \in [Tasks -> Row]
  <2>1. \A u \in Tasks : rows'[u] \in Row
    BY <1>1, <1>2, <1>4
  <2>2. rows' = [u \in Tasks |-> rows'[u]]
    BY DEF RequeueStale
  <2> QED
    BY <2>1, <2>2
<1>6. DeadLettersExhausted'
  BY <1>1, <1>3, <1>4 DEF DeadLettersExhausted, IInv
<1>7. \A l \in Leases : jobs[l].phase # "idle" /\ Owns(l, jobs[l].task)'
                          => Owns(l, jobs[l].task)
  BY <1>1, <1>4 DEF RequeueStale, IInv, JobsAreAssigned, Owns
<1>8. \A u \in Tasks : rows'[u].status \in {"absent", "completed"}
                       => rows[u].status = rows'[u].status
  BY <1>1, <1>4
<1> QED
  BY <1>5, <1>6, <1>7, <1>8, RowRewrite, SameRunners DEF RequeueStale

\* What the invariant says of the job of lease owner l.
SoundJob(l) ==
  /\ jobs[l].phase # "idle" => /\ jobs[l].task \in Tasks /\ jobs[l].runner \in Runners
                               /\ rows[jobs[l].task].status # "absent"
  /\ \E stage \in Stages : jobs[l].stale \subseteq stage
  /\ jobs[l].phase # "idle" /\ Owns(l, jobs[l].task) => jobs[l].stale = {}
  /\ jobs[l].phase \notin {"failing", "closing"}
       => jobs[l].stale \subseteq SinceFence(jobs[l].phase)
  /\ jobs[l].phase # "idle" /\ jobs[l].task \notin Blank =>
       DoneBy(jobs[l].phase) \subseteq effects[jobs[l].task]

LEMMA SoundJobs ==
  IInv <=> /\ TypeOK
           /\ \A l \in Leases : SoundJob(l)
           /\ CompletedIsDurable
           /\ DeadLettersExhausted
BY DEF IInv, SoundJob, JobsAreAssigned, StaleWithinOneStage, OwnerNeverStale,
       FenceStopsStaleJobs, StagesLeaveEffects

\* One job moves, the others see at most their effects grow and their rows go.
LEMMA JobRewrite ==
  ASSUME IInv, TypeOK', NEW l \in Leases,
         \A k \in Leases : k # l => jobs'[k] = jobs[k],
         \A k \in Leases : k # l /\ jobs[k].phase # "idle" /\ Owns(k, jobs[k].task)'
                              => Owns(k, jobs[k].task),
         \A t \in Tasks : /\ effects[t] \subseteq effects'[t]
                          /\ rows'[t].status = "absent" => rows[t].status = "absent",
         SoundJob(l)', CompletedIsDurable', DeadLettersExhausted'
  PROVE  IInv'
<1>1. \A t \in Tasks : effects'[t] \subseteq Effects
  BY DEF TypeOK
<1>2. ASSUME NEW k \in Leases, k # l
      PROVE  SoundJob(k)'
  <2>1. SoundJob(k) /\ jobs'[k] = jobs[k]
    BY <1>2, SoundJobs
  <2>2. jobs[k].phase # "idle" /\ Owns(k, jobs[k].task)' => Owns(k, jobs[k].task)
    BY <1>2
  <2>3. jobs[k].phase # "idle" =>
          /\ jobs[k].task \in Tasks
          /\ rows'[jobs[k].task].status # "absent"
          /\ effects[jobs[k].task] \subseteq effects'[jobs[k].task]
          /\ effects'[jobs[k].task] \subseteq Effects
    BY <1>1, <2>1 DEF SoundJob
  <2> QED
    BY <2>1, <2>2, <2>3 DEF SoundJob
<1>3. \A k \in Leases : SoundJob(k)'
  BY <1>2
<1> QED
  BY <1>3 DEF IInv, SoundJob, JobsAreAssigned, StaleWithinOneStage, OwnerNeverStale,
              FenceStopsStaleJobs, StagesLeaveEffects

LEMMA ProcessesStep ==
  ASSUME IInv, NEW r \in Runners, ProcessStep(r)
  PROVE  IInv'
<1>1. RunnerTypes'
  <2>1. FreshSlots \in [Tenants -> Nat] /\ NewPool \in [threads : 0 .. Workers, overdrawn : BOOLEAN]
    BY IngestionAssumption DEF FreshSlots, NewPool
  <2>2. CASE StopRunner(r) \/ ExitRunner(r) \/ CrashRunner(r)
    BY <2>2 DEF IInv, TypeOK, RunnerTypes, StopRunner, ExitRunner, CrashRunner
  <2>3. CASE RestartRunner(r)
    <3> HIDE DEF FreshSlots, NewPool
    <3> QED BY <2>1, <2>3, IngestionAssumption DEF IInv, TypeOK, RunnerTypes, RestartRunner
  <2> QED
    BY <2>2, <2>3 DEF ProcessStep
<1>2. CASE UNCHANGED <<rows, effects, jobs>>
  BY <1>1, <1>2, RowRewrite DEF IInv, TypeOK, Owns, DeadLettersExhausted
<1>3. CASE UNCHANGED <<rows, effects>> /\ DropJobsOf(r)
  <2>1. TypeOK'
    BY <1>1, <1>3, RowTypes DEF DropJobsOf, IInv, TypeOK, RunnerTypes
  <2>2. \A l \in Leases : jobs'[l] = NoJob \/ jobs'[l] = jobs[l]
    BY <1>3 DEF DropJobsOf
  <2>3. \A l \in Leases : SoundJob(l)'
    BY <1>3, <2>2, SoundJobs, PhaseFacts DEF SoundJob, NoJob, Owns, Stages
  <2>4. CompletedIsDurable' /\ DeadLettersExhausted'
    BY <1>3 DEF CompletedIsDurable, DeadLettersExhausted, IInv
  <2> QED
    BY <2>1, <2>3, <2>4 DEF IInv, SoundJob, JobsAreAssigned, StaleWithinOneStage,
       OwnerNeverStale, FenceStopsStaleJobs, StagesLeaveEffects
<1> QED
  BY <1>2, <1>3 DEF ProcessStep, StopRunner, ExitRunner, CrashRunner, RestartRunner

-----------------------------------------------------------------------------
(* The steps of a job that change no row and no effect.                    *)

\* What Goto does to the table of jobs.
LEMMA GotoJob ==
  ASSUME IInv, NEW l \in Leases, NEW p \in Phases, Goto(l, p)
  PROVE  /\ jobs' \in [Leases -> Job]
         /\ \A k \in Leases : k # l => jobs'[k] = jobs[k]
         /\ jobs'[l].phase = p
         /\ jobs'[l].task = jobs[l].task /\ jobs'[l].runner = jobs[l].runner
         /\ jobs'[l].valid = jobs[l].valid /\ jobs'[l].stale = jobs[l].stale
<1> DEFINE j == [jobs[l] EXCEPT !.phase = p]
<1>1. jobs[l] \in Job /\ jobs \in [Leases -> Job]
  BY DEF IInv, TypeOK
<1>2. /\ j \in Job /\ j.phase = p /\ j.task = jobs[l].task /\ j.runner = jobs[l].runner
      /\ j.valid = jobs[l].valid /\ j.stale = jobs[l].stale
  BY <1>1 DEF Job
<1>3. jobs' = [jobs EXCEPT ![l] = j]
  BY DEF Goto
<1> HIDE DEF j
<1> QED
  BY <1>1, <1>2, <1>3

\* What Abandon, RenewRaises and a failed renewal do to the table of jobs.
LEMMA InvalidateJob ==
  ASSUME IInv, NEW l \in Leases, NEW p \in {"closing", jobs[l].phase},
         jobs' = [jobs EXCEPT ![l].phase = p, ![l].valid = 0]
  PROVE  /\ jobs' \in [Leases -> Job]
         /\ \A k \in Leases : k # l => jobs'[k] = jobs[k]
         /\ jobs'[l].phase = p
         /\ jobs'[l].task = jobs[l].task /\ jobs'[l].runner = jobs[l].runner
         /\ jobs'[l].valid = 0 /\ jobs'[l].stale = jobs[l].stale
<1> DEFINE i == [jobs[l] EXCEPT !.phase = p]
           j == [i EXCEPT !.valid = 0]
<1>1. jobs[l] \in Job /\ jobs \in [Leases -> Job]
  BY DEF IInv, TypeOK
<1>2. /\ i \in Job /\ i.phase = p /\ i.task = jobs[l].task /\ i.runner = jobs[l].runner
      /\ i.stale = jobs[l].stale
  BY <1>1 DEF Job, Phases
<1>3. /\ j \in Job /\ j.phase = p /\ j.task = jobs[l].task /\ j.runner = jobs[l].runner
      /\ j.valid = 0 /\ j.stale = jobs[l].stale
  <2> HIDE DEF i
  <2> QED BY <1>2 DEF Job
<1>4. jobs' = [jobs EXCEPT ![l] = j]
  BY <1>1
<1> HIDE DEF i, j
<1> QED
  BY <1>1, <1>3, <1>4

\* A job that moves to a phase its stale count and its effects allow.
LEMMA JobMove ==
  ASSUME IInv, NEW l \in Leases, jobs' \in [Leases -> Job],
         \A k \in Leases : k # l => jobs'[k] = jobs[k],
         UNCHANGED <<rows, effects>>, RunnerTypes', SoundJob(l)'
  PROVE  IInv'
<1>1. TypeOK' /\ CompletedIsDurable' /\ DeadLettersExhausted'
  BY DEF IInv, TypeOK, RunnerTypes, CompletedIsDurable, DeadLettersExhausted
<1>2. \A k \in Leases : k # l /\ jobs[k].phase # "idle" /\ Owns(k, jobs[k].task)'
                            => Owns(k, jobs[k].task)
  BY DEF Owns
<1> QED
  BY <1>1, <1>2, JobRewrite

\* The renewal thread notices that the row is lost, or dies of a failed transaction.
LEMMA RenewalEnds ==
  ASSUME IInv, NEW l \in Leases, jobs' = [jobs EXCEPT ![l].valid = 0],
         UNCHANGED <<rows, effects, runnerVars>>
  PROVE  IInv'
<1>1. jobs' = [jobs EXCEPT ![l].phase = jobs[l].phase, ![l].valid = 0]
  BY DEF IInv, TypeOK, Job
<1>2. /\ jobs' \in [Leases -> Job]
      /\ \A k \in Leases : k # l => jobs'[k] = jobs[k]
      /\ jobs'[l].phase = jobs[l].phase /\ jobs'[l].task = jobs[l].task
      /\ jobs'[l].runner = jobs[l].runner /\ jobs'[l].stale = jobs[l].stale
  BY <1>1, InvalidateJob
<1>3. SoundJob(l)'
  BY <1>2, SoundJobs DEF SoundJob, Owns
<1> QED
  BY <1>2, <1>3, JobMove, SameRunners

\* From one phase to a later one, changing nothing outside the table of jobs.
LEMMA PhaseStep ==
  ASSUME IInv, NEW l \in Leases,
         StartJob(l) \/ ReportProgress(l) \/ IngestRaises(l) \/ SkipCompletion(l)
           \/ RetryOrFailRaises(l)
  PROVE  IInv'
<1>1. SoundJob(l)
  BY SoundJobs
<1>2. UNCHANGED <<rows, effects, runnerVars>>
  BY DEF StartJob, ReportProgress, IngestRaises, SkipCompletion, RetryOrFailRaises
<1>3. RunnerTypes'
  BY <1>2, SameRunners
<1>4. ASSUME NEW p \in Phases, jobs[l].phase # "idle", Goto(l, p),
             \/ p \in {"failing", "closing"}
             \/ jobs[l].stale = {} /\ (jobs[l].task \notin Blank =>
                                        DoneBy(p) \subseteq DoneBy(jobs[l].phase))
      PROVE  IInv'
  <2>1. /\ jobs' \in [Leases -> Job] /\ jobs'[l].phase = p
        /\ \A k \in Leases : k # l => jobs'[k] = jobs[k]
        /\ jobs'[l].task = jobs[l].task /\ jobs'[l].runner = jobs[l].runner
        /\ jobs'[l].stale = jobs[l].stale
    BY <1>4, GotoJob
  <2>2. jobs[l].task \notin Blank => DoneBy(p) \subseteq effects'[jobs[l].task]
    BY <1>1, <1>2, <1>4, PhaseFacts DEF SoundJob
  <2>3. p \notin {"failing", "closing"} => jobs[l].stale \subseteq SinceFence(p)
    BY <1>4
  <2>4. SoundJob(l)'
    BY <1>1, <1>2, <1>4, <2>1, <2>2, <2>3 DEF SoundJob, Owns
  <2> QED
    BY <1>2, <1>3, <2>1, <2>4, JobMove
<1>5. CASE StartJob(l)
  <2>1. Goto(l, "starting") /\ jobs[l].phase = "scheduled"
    BY <1>5 DEF StartJob
  <2>2. jobs[l].stale = {} /\ DoneBy("starting") = {} /\ "starting" \in Phases
    BY <1>1, <2>1, PhaseFacts DEF SoundJob, Phases
  <2> QED
    BY <1>4, <2>1, <2>2
<1>6. CASE ReportProgress(l)
  <2>0. jobs[l].phase \in ReportingPhases /\ jobs[l].phase # "idle" /\ jobs[l].task \in Tasks
    BY <1>1, <1>6 DEF ReportProgress, ReportingPhases, SoundJob
  <2>1. CASE Owns(l, jobs[l].task)
    <3> DEFINE p == NextStage(jobs[l].phase, jobs[l].task)
    <3>1. Goto(l, p) /\ jobs[l].stale = {}
      BY <1>1, <1>6, <2>0, <2>1 DEF ReportProgress, SoundJob
    <3>2. p \in {"ingested", "summarizing", "indexing", "persisting"}
          /\ (jobs[l].task \notin Blank => DoneBy(p) = DoneBy(jobs[l].phase))
      BY <2>0, ReportFacts
    <3>3. p \in Phases
      BY <3>2 DEF Phases
    <3> HIDE DEF p
    <3> QED
      BY <1>4, <2>0, <3>1, <3>2, <3>3
  <2>2. CASE ~Owns(l, jobs[l].task)
    <3>1. jobs' = [jobs EXCEPT ![l].phase = "closing", ![l].valid = 0]
      BY <1>6, <2>2 DEF ReportProgress, Abandon
    <3>2. /\ jobs' \in [Leases -> Job] /\ jobs'[l].phase = "closing"
          /\ \A k \in Leases : k # l => jobs'[k] = jobs[k]
          /\ jobs'[l].task = jobs[l].task /\ jobs'[l].runner = jobs[l].runner
          /\ jobs'[l].stale = jobs[l].stale
      BY <3>1, InvalidateJob
    <3>3. SoundJob(l)'
      BY <1>1, <1>2, <2>0, <3>2, PhaseFacts DEF SoundJob, Owns
    <3> QED
      BY <1>2, <1>3, <3>2, <3>3, JobMove
  <2> QED
    BY <2>1, <2>2
<1>7. CASE IngestRaises(l)
  BY <1>4, <1>7 DEF IngestRaises, Phases
<1>8. CASE SkipCompletion(l) \/ RetryOrFailRaises(l)
  BY <1>4, <1>8 DEF SkipCompletion, RetryOrFailRaises, Phases
<1> QED
  BY <1>5, <1>6, <1>7, <1>8

\* A job that ends, with its permits given back or not.
LEMMA JobEnds ==
  ASSUME IInv, NEW l \in Leases, jobs' = [jobs EXCEPT ![l] = NoJob],
         UNCHANGED <<rows, effects>>, RunnerTypes'
  PROVE  IInv'
<1>1. NoJob \in Job
  BY RowTypes
<1>2. /\ jobs' \in [Leases -> Job] /\ jobs'[l] = NoJob
      /\ \A k \in Leases : k # l => jobs'[k] = jobs[k]
  BY <1>1 DEF IInv, TypeOK
<1>3. SoundJob(l)'
  BY <1>2, PhaseFacts DEF SoundJob, NoJob, Stages
<1> QED
  BY <1>2, <1>3, JobMove

LEMMA CloseStep ==
  ASSUME IInv, NEW l \in Leases, CloseJob(l)
  PROVE  IInv'
<1> DEFINE r == jobs[l].runner
           n == TenantOf[jobs[l].task]
           free == [tenantSlots[r] EXCEPT ![n] = @ + 1]
           permits == IF slots[r] < QueueLimit THEN slots[r] + 1 ELSE slots[r]
<1>1. r \in Runners /\ n \in Tenants
  BY IngestionAssumption DEF CloseJob, IInv, JobsAreAssigned
<1>2. /\ slots' = [slots EXCEPT ![r] = permits]
      /\ tenantSlots' = [tenantSlots EXCEPT ![r] = free]
      /\ UNCHANGED <<rows, effects, mode, pool>> /\ jobs' = [jobs EXCEPT ![l] = NoJob]
  BY DEF CloseJob
<1> HIDE DEF r, n
<1>3. slots \in [Runners -> Nat] /\ tenantSlots \in [Runners -> [Tenants -> Nat]]
  BY DEF IInv, TypeOK
<1>4. free \in [Tenants -> Nat] /\ permits \in Nat
  BY <1>1, <1>3
<1> HIDE DEF free, permits
<1>5. RunnerTypes'
  BY <1>1, <1>2, <1>3, <1>4 DEF RunnerTypes, IInv, TypeOK
<1> QED
  BY <1>2, <1>5, JobEnds

-----------------------------------------------------------------------------
(* The steps of a job that change effects or rows.                         *)

\* A change outside the table, with what it adds to the effects and the stale set.
LEMMA EffectStep ==
  ASSUME IInv, NEW l \in Leases, NEW p \in Phases, NEW e \in Effects,
         jobs[l].phase \notin {"idle", "failing", "closing"},
         p \notin {"idle", "failing", "closing"},
         effects' = [effects EXCEPT ![jobs[l].task] = @ \cup {e}],
         jobs' = [jobs EXCEPT ![l].phase = p, ![l].stale = StaleAfter(l, e)],
         DoneBy(p) \subseteq DoneBy(jobs[l].phase) \cup {e},
         SinceFence(jobs[l].phase) \cup {e} \subseteq SinceFence(p),
         UNCHANGED <<rows, runnerVars>>
  PROVE  IInv'
<1> DEFINE t == jobs[l].task
           i == [jobs[l] EXCEPT !.phase = p]
           j == [i EXCEPT !.stale = StaleAfter(l, e)]
<1>1. SoundJob(l) /\ jobs \in [Leases -> Job] /\ jobs[l] \in Job /\ t \in Tasks
  BY SoundJobs DEF TypeOK, SoundJob
<1>2. /\ StaleAfter(l, e) \in SUBSET Effects
      /\ Owns(l, t) => StaleAfter(l, e) = {}
      /\ StaleAfter(l, e) \subseteq SinceFence(p)
  BY <1>1 DEF StaleAfter, SoundJob, Job
<1>3. i \in Job /\ i.phase = p /\ i.task = t /\ i.runner = jobs[l].runner
  BY <1>1 DEF Job
<1>4. /\ j \in Job /\ j.phase = p /\ j.task = t /\ j.runner = jobs[l].runner
      /\ j.stale = StaleAfter(l, e)
  <2> HIDE DEF i
  <2> QED BY <1>2, <1>3 DEF Job
<1>5. jobs' = [jobs EXCEPT ![l] = j]
  BY <1>1
<1> HIDE DEF i, j
<1>6. /\ jobs' \in [Leases -> Job] /\ jobs'[l] = j
      /\ \A k \in Leases : k # l => jobs'[k] = jobs[k]
  BY <1>1, <1>4, <1>5
<1>7. /\ effects' \in [Tasks -> SUBSET Effects]
      /\ effects'[t] = effects[t] \cup {e}
      /\ \A u \in Tasks : effects[u] \subseteq effects'[u]
  BY <1>1 DEF IInv, TypeOK
<1>8. TypeOK' /\ DeadLettersExhausted'
  BY <1>6, <1>7 DEF IInv, TypeOK, runnerVars, DeadLettersExhausted
<1>9. CompletedIsDurable'
  <2> SUFFICES ASSUME NEW u \in Tasks \ Blank, rows'[u].status = "completed"
               PROVE  effects'[u] = Effects
    BY DEF CompletedIsDurable
  <2>1. effects[u] = Effects
    BY DEF IInv, CompletedIsDurable
  <2> QED
    BY <1>7, <2>1
<1>10. Owns(l, t)' <=> Owns(l, t)
  BY <1>4, <1>6 DEF Owns
<1>11. t \notin Blank => DoneBy(p) \subseteq effects'[t]
  BY <1>1, <1>7 DEF SoundJob
<1>12. SoundJob(l)'
  <2>1. /\ jobs'[l].phase = p /\ jobs'[l].task = t /\ jobs'[l].runner \in Runners
        /\ rows'[t].status # "absent" /\ jobs'[l].stale = StaleAfter(l, e)
    BY <1>1, <1>4, <1>6 DEF SoundJob
  <2>2. \E stage \in Stages : jobs'[l].stale \subseteq stage
    BY <1>2, <2>1, PhaseFacts
  <2>3. Owns(l, jobs[l].task)' => jobs'[l].stale = {}
    BY <1>2, <1>4, <1>6, <1>10
  <2> HIDE DEF t
  <2>4. jobs'[l].stale \subseteq SinceFence(jobs'[l].phase)
    BY <1>2, <2>1
  <2>5. jobs'[l].task \notin Blank => DoneBy(jobs'[l].phase) \subseteq effects'[jobs'[l].task]
    BY <1>11, <2>1
  <2> QED
    BY <1>1, <2>1, <2>2, <2>3, <2>4, <2>5 DEF SoundJob
<1>13. \A k \in Leases : k # l /\ jobs[k].phase # "idle" /\ Owns(k, jobs[k].task)'
                            => Owns(k, jobs[k].task)
  BY <1>6 DEF Owns
<1> QED
  BY <1>6, <1>7, <1>8, <1>9, <1>12, <1>13, JobRewrite

\* What a job does outside the table.
WorkDone(l) ==
  \/ SummarizeSources(l) \/ IndexEntities(l)
  \/ ArchiveDocuments(l) \/ PublishVersions(l) \/ SaveCatalog(l)
  \/ SaveResolutions(l)

LEMMA WorkStep ==
  ASSUME IInv, NEW l \in Leases, WorkDone(l)
  PROVE  IInv'
<1>1. SoundJob(l)
  BY SoundJobs
<1>2. ASSUME NEW from, NEW to, <<from, to>> \in Changes, Change(l, from, to)
      PROVE  IInv'
  <2>1. /\ jobs[l].phase = from
        /\ from \notin {"idle", "scheduled", "failing", "closing"}
        /\ to \in Effects /\ to \in Phases
        /\ to \notin {"idle", "scheduled", "failing", "closing"}
        /\ DoneBy(to) \subseteq DoneBy(from) \cup {to}
        /\ SinceFence(from) \cup {to} \subseteq SinceFence(to)
    BY <1>2, ChangeFacts DEF Change
  <2>2. /\ effects' = [effects EXCEPT ![jobs[l].task] = @ \cup {to}]
        /\ jobs' = [jobs EXCEPT ![l].phase = to, ![l].stale = StaleAfter(l, to)]
        /\ UNCHANGED <<rows, runnerVars>>
    BY <1>2 DEF Change
  <2> QED
    BY <2>1, <2>2, EffectStep
<1>3. CASE ~SaveResolutions(l)
  BY <1>2, <1>3 DEF WorkDone, SummarizeSources, IndexEntities, ArchiveDocuments,
     PublishVersions, SaveCatalog, Changes
<1>4. CASE SaveResolutions(l) /\ jobs[l].task \notin Blank
  <2>1. "completing" \in Phases /\ "resolved" \in Effects
    BY DEF Phases, Effects
  <2>2. DoneBy("completing") \subseteq DoneBy("ingested") \cup {"resolved"}
        /\ SinceFence("ingested") \cup {"resolved"} \subseteq SinceFence("completing")
    BY PhaseFacts
  <2> QED
    BY <1>4, <2>1, <2>2, EffectStep DEF SaveResolutions
<1>5. CASE SaveResolutions(l) /\ jobs[l].task \in Blank
  <2>1. /\ Goto(l, "completing") /\ UNCHANGED <<rows, effects, runnerVars>>
        /\ jobs[l].phase = "ingested"
    BY <1>5 DEF SaveResolutions
  <2>2. /\ jobs' \in [Leases -> Job] /\ jobs'[l].phase = "completing"
        /\ \A k \in Leases : k # l => jobs'[k] = jobs[k]
        /\ jobs'[l].task = jobs[l].task /\ jobs'[l].runner = jobs[l].runner
        /\ jobs'[l].stale = jobs[l].stale
    BY <2>1, GotoJob DEF Phases
  <2>3. jobs[l].stale = {}
    BY <1>1, <2>1, PhaseFacts DEF SoundJob
  <2>4. SoundJob(l)'
    BY <1>1, <1>5, <2>1, <2>2, <2>3 DEF SoundJob, Owns
  <2> QED
    BY <2>1, <2>2, <2>4, JobMove, SameRunners
<1> QED
  BY <1>3, <1>4, <1>5

\* What a job's last table operation may make of the row of task t.
SettledRow(t, row) ==
  /\ row.dead = 1 <=> row.status = "failed"
  /\ row.dead = 1 => row.attempts = MaxAttempts
  /\ row.status = "absent" => rows[t].status = "absent"
  /\ row.status = "completed" =>
       rows[t].status = "completed" \/ t \in Blank \/ effects[t] = Effects
  /\ row = rows[t] \/ row.owner = None

\* The job's last table operation: its row, if it still owns it, is completed,
\* queued for a retry or dead-lettered.
LEMMA SettleStep ==
  ASSUME IInv, NEW l \in Leases, CompleteTask(l) \/ RetryOrFail(l)
  PROVE  IInv'
<1> DEFINE t == jobs[l].task
<1>1. /\ SoundJob(l) /\ TypeOK /\ Goto(l, "closing") /\ jobs[l].phase # "idle"
      /\ t \in Tasks
  BY SoundJobs DEF CompleteTask, RetryOrFail, SoundJob
<1>2. UNCHANGED <<effects, runnerVars>>
  BY DEF CompleteTask, RetryOrFail
<1>3. SoundJob(l) /\ rows[t] \in Row
  BY <1>1 DEF TypeOK
<1>4. PICK row \in Row : rows' = [rows EXCEPT ![t] = row] /\ SettledRow(t, row)
  <2>1. CASE ~Owns(l, t)
    <3>1. rows' = [rows EXCEPT ![t] = rows[t]]
      BY <1>1, <2>1 DEF CompleteTask, RetryOrFail, TypeOK
    <3>2. SettledRow(t, rows[t])
      BY <1>1 DEF IInv, DeadLettersExhausted, SettledRow
    <3> QED
      BY <1>3, <3>1, <3>2
  <2>2. CASE Owns(l, t) /\ CompleteTask(l)
    <3> DEFINE row == UnleasedRow("completed", "due", 0, 0)
    <3>1. row \in Row
      BY RowTypes, IngestionAssumption DEF Statuses
    <3>2. rows' = [rows EXCEPT ![t] = row]
      BY <2>2 DEF CompleteTask
    <3>3. t \in Blank \/ effects[t] = Effects
      <4>1. jobs[l].phase = "completing" /\ effects[t] \in SUBSET Effects
        BY <1>1, <2>2 DEF CompleteTask, TypeOK
      <4>2. t \notin Blank => DoneBy("completing") \subseteq effects[t]
        BY <1>3, <4>1 DEF SoundJob
      <4> QED
        BY <4>1, <4>2, PhaseFacts
    <3>4. SettledRow(t, row)
      BY <3>3 DEF SettledRow, UnleasedRow
    <3> QED
      BY <3>1, <3>2, <3>4
  <2>3. CASE Owns(l, t) /\ RetryOrFail(l)
    <3> DEFINE row == FailedAttemptRow(rows[t].attempts)
    <3>1. rows[t].attempts \in 0 .. MaxAttempts
      BY <1>3 DEF Row
    <3>2. row \in Row
      BY <3>1, RowTypes
    <3>3. rows' = [rows EXCEPT ![t] = row]
      BY <2>3 DEF RetryOrFail
    <3>4. SettledRow(t, row)
      BY <3>1, IngestionAssumption DEF SettledRow, FailedAttemptRow, UnleasedRow
    <3> HIDE DEF row
    <3> QED
      BY <3>2, <3>3, <3>4
  <2> QED
    BY <2>1, <2>2, <2>3
<1> HIDE DEF t
<1>5. /\ rows' \in [Tasks -> Row] /\ rows'[t] = row
      /\ \A u \in Tasks : u # t => rows'[u] = rows[u]
  BY <1>1, <1>4 DEF TypeOK
<1>6. /\ jobs' \in [Leases -> Job]
      /\ \A k \in Leases : k # l => jobs'[k] = jobs[k]
      /\ jobs'[l].phase = "closing" /\ jobs'[l].task = t
      /\ jobs'[l].runner = jobs[l].runner /\ jobs'[l].stale = jobs[l].stale
  BY <1>1, GotoJob DEF Phases, t
<1>7. TypeOK' /\ DeadLettersExhausted'
  BY <1>2, <1>4, <1>5, <1>6
     DEF IInv, TypeOK, runnerVars, DeadLettersExhausted, SettledRow
<1>8. CompletedIsDurable'
  BY <1>2, <1>4, <1>5 DEF CompletedIsDurable, IInv, SettledRow
<1>9. \A k \in Leases, u \in Tasks :
        rows'[u].status = "processing" /\ rows'[u].owner = k => Owns(k, u)
  BY <1>4, <1>5, NoneIsNobody DEF Owns, SettledRow
<1>10. \A k \in Leases : k # l /\ jobs[k].phase # "idle" /\ Owns(k, jobs[k].task)'
                            => Owns(k, jobs[k].task)
  BY <1>6, <1>9, SoundJobs DEF Owns, SoundJob
<1>11. \A u \in Tasks : rows'[u].status = "absent" => rows[u].status = "absent"
  BY <1>4, <1>5 DEF SettledRow
<1>12. SoundJob(l)'
  BY <1>1, <1>2, <1>6, <1>9, <1>11, PhaseFacts DEF SoundJob, Owns, t
<1> QED
  BY <1>2, <1>6, <1>7, <1>8, <1>10, <1>11, <1>12, JobRewrite

\* A renewal that finds the row still owned revives its lease.
LEMMA RenewStep ==
  ASSUME IInv, NEW l \in Leases, Renew(l)
  PROVE  IInv'
<1> DEFINE t == jobs[l].task
           row == [rows[t] EXCEPT !.lease = "live"]
<1>1. CASE ~Owns(l, t)
  BY <1>1, RenewalEnds DEF Renew
<1>2. CASE Owns(l, t)
  <2>1. t \in Tasks /\ UNCHANGED <<effects, jobs, runnerVars>>
    BY <1>2 DEF Renew, Renewing, IInv, JobsAreAssigned
  <2>2. rows[t] \in Row /\ rows \in [Tasks -> Row]
    BY <2>1 DEF IInv, TypeOK
  <2>3. /\ row \in Row /\ row.status = rows[t].status /\ row.owner = rows[t].owner
        /\ row.dead = rows[t].dead /\ row.attempts = rows[t].attempts
    <3> HIDE DEF t
    <3> QED BY <2>2 DEF Row
  <2>4. rows' = [rows EXCEPT ![t] = row]
    BY <1>2 DEF Renew
  <2> HIDE DEF t, row
  <2>5. rows' \in [Tasks -> Row]
    BY <2>2, <2>3, <2>4
  <2>6. \A u \in Tasks : /\ rows'[u].status = rows[u].status
                         /\ rows'[u].owner = rows[u].owner
                         /\ rows'[u].dead = rows[u].dead
                         /\ rows'[u].attempts = rows[u].attempts
    BY <2>1, <2>2, <2>3, <2>4
  <2>7. DeadLettersExhausted'
    BY <2>6 DEF DeadLettersExhausted, IInv
  <2>8. \A k \in Leases : jobs[k].phase # "idle" /\ Owns(k, jobs[k].task)'
                            => Owns(k, jobs[k].task)
    BY <2>1, <2>6 DEF Owns, IInv, JobsAreAssigned
  <2> QED
    BY <2>1, <2>5, <2>6, <2>7, <2>8, RowRewrite, SameRunners
<1> QED
  BY <1>1, <1>2

-----------------------------------------------------------------------------
(* The dispatcher's steps.                                                 *)

\* Acquiring permits that are free leaves the counters of permits natural.
LEMMA PermitTypes ==
  ASSUME TypeOK, NEW r \in Runners, NEW n \in Tenants, HasCapacity(r, n),
         TakeTenantSlot(r, n)
  PROVE  /\ [slots EXCEPT ![r] = @ - 1] \in [Runners -> Nat]
         /\ tenantSlots' \in [Runners -> [Tenants -> Nat]]
<1> DEFINE free == [tenantSlots[r] EXCEPT ![n] = @ - 1]
<1>1. /\ slots \in [Runners -> Nat] /\ tenantSlots \in [Runners -> [Tenants -> Nat]]
      /\ slots[r] > 0 /\ tenantSlots[r][n] > 0
  BY DEF TypeOK, HasCapacity
<1>2. free \in [Tenants -> Nat]
  BY <1>1
<1>3. tenantSlots' = [tenantSlots EXCEPT ![r] = free]
  BY DEF TakeTenantSlot
<1> HIDE DEF free
<1> QED
  BY <1>1, <1>2, <1>3

\* Claiming a row for a fresh lease owner gives a row to no existing job.
LEMMA ClaimRow ==
  ASSUME IInv, NEW t \in Tasks, NEW l \in Leases, Claimable(t), Fresh(l),
         rows' = [rows EXCEPT ![t] = ClaimedRow(t, l)]
  PROVE  /\ rows' \in [Tasks -> Row]
         /\ \A u \in Tasks : u # t => rows'[u] = rows[u]
         /\ rows'[t].status = "processing" /\ rows'[t].owner = l
         /\ rows'[t].dead = 0
<1>1. rows[t] \in Row /\ rows \in [Tasks -> Row] /\ rows[t].dead = 0
  BY DEF IInv, TypeOK, DeadLettersExhausted, Claimable, Row
<1>2. Bump(rows[t].attempts) \in 0 .. MaxAttempts
  BY <1>1, RowTypes DEF Row
<1>3. ClaimedRow(t, l) \in Row
  BY <1>1, <1>2 DEF ClaimedRow, Row, Statuses
<1> QED
  BY <1>1, <1>3 DEF ClaimedRow

\* What becomes of the executor's threads when a job is submitted.
LEMMA PoolTypes ==
  ASSUME TypeOK, NEW r \in Runners,
         \/ EnsureThread(r)
         \/ UNCHANGED pool
         \/ pool' = [pool EXCEPT ![r].overdrawn = TRUE]
  PROVE  /\ pool' \in [Runners -> [threads : 0 .. Workers, overdrawn : BOOLEAN]]
         /\ \A q \in Runners : /\ pool'[q].threads >= pool[q].threads
                               /\ pool[q].overdrawn => pool'[q].overdrawn
<1>1. /\ pool \in [Runners -> [threads : 0 .. Workers, overdrawn : BOOLEAN]]
      /\ \A q \in Runners : /\ pool[q] \in [threads : 0 .. Workers, overdrawn : BOOLEAN]
                            /\ pool[q].threads \in 0 .. Workers /\ pool[q].overdrawn \in BOOLEAN
  BY DEF TypeOK
<1>2. Workers \in Nat
  BY IngestionAssumption
<1>3. CASE EnsureThread(r)
  <2>1. PICK n \in {pool[r].threads, pool[r].threads + 1} \cap 1 .. Workers :
          pool' = [pool EXCEPT ![r].threads = n]
    BY <1>3 DEF EnsureThread
  <2> DEFINE p == [pool[r] EXCEPT !.threads = n]
  <2>2. n \in 0 .. Workers /\ n >= pool[r].threads
    BY <1>1, <1>2, <2>1
  <2>3. /\ p \in [threads : 0 .. Workers, overdrawn : BOOLEAN]
        /\ p.threads >= pool[r].threads /\ p.overdrawn = pool[r].overdrawn
    BY <1>1, <2>2
  <2>4. pool' = [pool EXCEPT ![r] = p]
    BY <2>1
  <2> HIDE DEF p
  <2> QED
    BY <1>1, <2>3, <2>4
<1>4. CASE UNCHANGED pool
  BY <1>1, <1>4
<1>5. CASE pool' = [pool EXCEPT ![r].overdrawn = TRUE]
  <2> DEFINE p == [pool[r] EXCEPT !.overdrawn = TRUE]
  <2>1. /\ p \in [threads : 0 .. Workers, overdrawn : BOOLEAN]
        /\ p.threads = pool[r].threads /\ p.overdrawn
    BY <1>1
  <2>2. pool' = [pool EXCEPT ![r] = p]
    BY <1>5
  <2> HIDE DEF p
  <2> QED
    BY <1>1, <2>1, <2>2
<1> QED
  BY <1>3, <1>4, <1>5

LEMMA ClaimStep ==
  ASSUME IInv, NEW r \in Runners, NEW t \in Tasks, NEW l \in Leases,
         ClaimAndSchedule(r, t, l) \/ ScheduleRaises(r, t, l) \/ ClaimDuringShutdown(r, t, l)
  PROVE  IInv'
<1>1. /\ Claimable(t) /\ Fresh(l) /\ HasCapacity(r, TenantOf[t])
      /\ rows' = [rows EXCEPT ![t] = ClaimedRow(t, l)]
      /\ TakeTenantSlot(r, TenantOf[t]) /\ UNCHANGED <<effects, mode>>
      /\ slots' = slots \/ slots' = [slots EXCEPT ![r] = @ - 1]
  BY DEF ClaimAndSchedule, ScheduleRaises, ClaimAndQueue, ClaimDuringShutdown, TakeSlots
<1>2. /\ rows' \in [Tasks -> Row]
      /\ \A u \in Tasks : u # t => rows'[u] = rows[u]
      /\ rows'[t].status = "processing" /\ rows'[t].owner = l /\ rows'[t].dead = 0
  BY <1>1, ClaimRow
<1>3. DeadLettersExhausted'
  BY <1>2 DEF DeadLettersExhausted, IInv
<1>4. \A u \in Tasks : rows'[u].status \in {"absent", "completed"}
                       => rows[u].status = rows'[u].status
  BY <1>2
<1>5. RunnerTypes'
  <2>1. TypeOK /\ TenantOf[t] \in Tenants
    BY IngestionAssumption DEF IInv
  <2>2. slots' \in [Runners -> Nat] /\ tenantSlots' \in [Runners -> [Tenants -> Nat]]
    BY <1>1, <2>1, PermitTypes DEF TypeOK
  <2>3. pool' \in [Runners -> [threads : 0 .. Workers, overdrawn : BOOLEAN]]
    BY <2>1, PoolTypes DEF ClaimAndSchedule, ScheduleRaises, ClaimDuringShutdown
  <2> QED
    BY <1>1, <2>1, <2>2, <2>3 DEF RunnerTypes, TypeOK
<1>6. CASE ClaimDuringShutdown(r, t, l)
  <2>1. UNCHANGED jobs
    BY <1>6 DEF ClaimDuringShutdown
  <2>2. \A k \in Leases : jobs[k].phase # "idle" /\ Owns(k, jobs[k].task)'
                            => Owns(k, jobs[k].task)
    BY <1>1, <1>2, <2>1 DEF Owns, Fresh, IInv, JobsAreAssigned
  <2> QED
    BY <1>1, <1>2, <1>3, <1>4, <1>5, <2>1, <2>2, RowRewrite
<1>7. CASE ClaimAndQueue(r, t, l)
  <2> DEFINE j == [phase |-> "scheduled", task |-> t, runner |-> r, valid |-> 1, stale |-> {}]
  <2>1. j \in Job
    BY DEF Job, Phases
  <2>2. jobs' = [jobs EXCEPT ![l] = j]
    BY <1>7 DEF ClaimAndQueue
  <2>3. /\ jobs' \in [Leases -> Job] /\ jobs'[l] = j
        /\ \A k \in Leases : k # l => jobs'[k] = jobs[k]
    BY <2>1, <2>2 DEF IInv, TypeOK
  <2>4. SoundJob(l)'
    BY <1>2, <2>3, PhaseFacts DEF SoundJob, Stages
  <2>5. TypeOK'
    BY <1>1, <1>2, <1>5, <2>3 DEF IInv, TypeOK, RunnerTypes
  <2>6. CompletedIsDurable'
    BY <1>1, <1>4 DEF CompletedIsDurable, IInv
  <2>7. \A k \in Leases : k # l /\ jobs[k].phase # "idle" /\ Owns(k, jobs[k].task)'
                            => Owns(k, jobs[k].task)
    BY <1>2, <2>3 DEF Owns, IInv, JobsAreAssigned
  <2> QED
    BY <1>1, <1>3, <1>4, <2>3, <2>4, <2>5, <2>6, <2>7, JobRewrite
<1> QED
  BY <1>6, <1>7 DEF ClaimAndSchedule, ScheduleRaises

\* A claim that raises costs permits and nothing else.
LEMMA ClaimRaisesStep ==
  ASSUME IInv, NEW r \in Runners, NEW t \in Tasks,
         SubmitClaimRaises(r, t) \/ DrainClaimRaises(r, t)
  PROVE  IInv'
<1>1. /\ HasCapacity(r, TenantOf[t]) /\ TakeTenantSlot(r, TenantOf[t])
      /\ UNCHANGED <<rows, effects, jobs, mode, pool>>
      /\ slots' = slots \/ slots' = [slots EXCEPT ![r] = @ - 1]
  BY DEF SubmitClaimRaises, DrainClaimRaises, TakeSlots
<1>2. slots' \in [Runners -> Nat] /\ tenantSlots' \in [Runners -> [Tenants -> Nat]]
  BY <1>1, PermitTypes, IngestionAssumption DEF IInv, TypeOK
<1>3. RunnerTypes'
  BY <1>1, <1>2 DEF RunnerTypes, IInv, TypeOK
<1> QED
  BY <1>1, <1>3, RowRewrite DEF IInv, TypeOK, Owns, DeadLettersExhausted

-----------------------------------------------------------------------------
(* The theorems.                                                           *)

LEMMA NextIInv == IInv /\ [Next]_vars => IInv'
<1> SUFFICES ASSUME IInv, [Next]_vars
             PROVE  IInv'
  OBVIOUS
<1>1. ASSUME NEW t \in Tasks, Request(t) \/ LeaseExpires(t) \/ BackoffElapses(t)
      PROVE  IInv'
  BY <1>1, RequestStep, ClockStep
<1>2. CASE Dispatch
  BY <1>2, ClaimStep, ClaimRaisesStep, RequeueStep DEF Dispatch
<1>3. ASSUME NEW l \in Leases, JobStep(l)
      PROVE  IInv'
  <2>1. CASE RenewalStartFails(l)
    BY <2>1, JobEnds, SameRunners DEF RenewalStartFails
  <2>2. CASE WorkDone(l)
    BY <2>2, WorkStep
  <2> QED
    BY <1>3, <2>1, <2>2, PhaseStep, SettleStep, CloseStep, RenewStep, RenewalEnds
       DEF JobStep, WorkDone, RenewRaises
<1>4. ASSUME NEW r \in Runners, ProcessStep(r)
      PROVE  IInv'
  BY <1>4, ProcessesStep
<1>5. CASE UNCHANGED vars
  BY <1>5, RowRewrite, SameRunners
     DEF vars, runnerVars, IInv, TypeOK, Owns, DeadLettersExhausted
<1> QED
  BY <1>1, <1>2, <1>3, <1>4, <1>5 DEF Next

\* Whatever the numbers of tasks, runners, lease owners, threads, permits and
\* attempts, the inductive invariant holds in every reachable state.
THEOREM IngestionInvariant == Spec => []IInv
<1> QED
  BY InitIInv, NextIInv, PTL DEF Spec

\* Rows, jobs and permits keep their types: no counter of permits goes negative.
THEOREM IngestionTypes == Spec => []TypeOK
<1>1. IInv => TypeOK
  BY DEF IInv
<1> QED
  BY <1>1, IngestionInvariant, PTL

\* A worker that lost its row changes no more outside the table than what one stage
\* holds, and a worker that still owns its row has done nothing without it.
THEOREM StaleWorkIsBounded == Spec => [](StaleWithinOneStage /\ OwnerNeverStale)
<1>1. IInv => StaleWithinOneStage /\ OwnerNeverStale
  BY DEF IInv
<1> QED
  BY <1>1, IngestionInvariant, PTL

\* A task that the table reports as completed is summarized, indexed, archived,
\* published, catalogued and resolved.
THEOREM CompletionIsDurable == Spec => []CompletedIsDurable
<1>1. IInv => CompletedIsDurable
  BY DEF IInv
<1> QED
  BY <1>1, IngestionInvariant, PTL

\* Failed rows are exactly the dead letters, and each was claimed MaxAttempts times.
THEOREM DeadLettersWereTried == Spec => []DeadLettersExhausted
<1>1. IInv => DeadLettersExhausted
  BY DEF IInv
<1> QED
  BY <1>1, IngestionInvariant, PTL

-----------------------------------------------------------------------------
(* Action properties.  Every step is one of a few kinds of change of rows. *)

\* The lease of a row or its backoff changes, nothing else of it.
SameTask(t, row) ==
  /\ row.status = rows[t].status /\ row.owner = rows[t].owner
  /\ row.attempts = rows[t].attempts

RowsTouched ==
  \E t \in Tasks, row \in Row : SameTask(t, row) /\ rows' = [rows EXCEPT ![t] = row]

RowClaimed ==
  \E t \in Tasks, l \in Leases :
    Claimable(t) /\ Fresh(l) /\ rows' = [rows EXCEPT ![t] = ClaimedRow(t, l)]

\* The steps no call of the API takes, and what they do to rows and documents.
Unasked ==
  \/ \E t \in Tasks : LeaseExpires(t) \/ BackoffElapses(t)
  \/ Dispatch
  \/ \E l \in Leases : JobStep(l)
  \/ \E r \in Runners : ProcessStep(r)

LEMMA KindsOfWork ==
  ASSUME IInv, Unasked
  PROVE  \/ /\ UNCHANGED effects
            /\ \/ \E S \in SUBSET Stale : RequeueStale(S)
               \/ RowClaimed
               \/ \E l \in Leases : CompleteTask(l) \/ RetryOrFail(l)
               \/ RowsTouched
               \/ UNCHANGED rows
         \/ UNCHANGED rows /\ \E l \in Leases : WorkDone(l)
<1>1. ASSUME NEW t \in Tasks, LeaseExpires(t) \/ BackoffElapses(t)
      PROVE  UNCHANGED effects /\ RowsTouched
  <2>1. rows[t] \in Row
    BY DEF IInv, TypeOK
  <2>2. ASSUME NEW row \in {[rows[t] EXCEPT !.lease = "expired"],
                            [rows[t] EXCEPT !.next = "due"]}
        PROVE  row \in Row /\ SameTask(t, row)
    BY <2>1 DEF Row, SameTask
  <2> QED
    BY <1>1, <2>2 DEF LeaseExpires, BackoffElapses, RowsTouched
<1>2. CASE Dispatch
  BY <1>2 DEF Dispatch, RowClaimed, ClaimAndSchedule, ScheduleRaises, ClaimAndQueue,
     ClaimDuringShutdown, SubmitClaimRaises, DrainClaimRaises, RequeueStale
<1>3. ASSUME NEW l \in Leases, Renew(l)
      PROVE  UNCHANGED effects /\ (RowsTouched \/ UNCHANGED rows)
  <2>1. CASE Owns(l, jobs[l].task)
    <3> DEFINE t == jobs[l].task
               row == [rows[t] EXCEPT !.lease = "live"]
    <3>1. t \in Tasks /\ rows[t] \in Row
      BY <1>3 DEF Renew, Renewing, IInv, TypeOK, JobsAreAssigned
    <3>2. rows' = [rows EXCEPT ![t] = row] /\ UNCHANGED effects
      BY <1>3, <2>1 DEF Renew
    <3> HIDE DEF t
    <3>3. row \in Row /\ SameTask(t, row)
      BY <3>1 DEF Row, SameTask
    <3> HIDE DEF row
    <3> QED
      BY <3>1, <3>2, <3>3 DEF RowsTouched
  <2> QED
    BY <1>3, <2>1 DEF Renew
<1>4. ASSUME NEW l \in Leases, JobStep(l), ~Renew(l)
      PROVE  \/ UNCHANGED effects /\ (UNCHANGED rows \/ CompleteTask(l) \/ RetryOrFail(l))
             \/ UNCHANGED rows /\ WorkDone(l)
  <2>1. CASE WorkDone(l)
    BY <2>1 DEF WorkDone, SummarizeSources, IndexEntities, ArchiveDocuments, PublishVersions,
       SaveCatalog, Change, SaveResolutions
  <2>2. CASE ~WorkDone(l)
    BY <1>4, <2>2 DEF JobStep, WorkDone, StartJob, RenewalStartFails, ReportProgress,
       IngestRaises, SkipCompletion, CompleteTask, RetryOrFail, RetryOrFailRaises, CloseJob,
       RenewRaises
  <2> QED
    BY <2>1, <2>2
<1>5. ASSUME NEW r \in Runners, ProcessStep(r)
      PROVE  UNCHANGED <<rows, effects>>
  BY <1>5 DEF ProcessStep, StopRunner, ExitRunner, CrashRunner, RestartRunner
<1> QED
  BY <1>1, <1>2, <1>3, <1>4, <1>5 DEF Unasked

LEMMA KindsOfStep ==
  ASSUME IInv, [Next]_vars
  PROVE  \/ /\ UNCHANGED effects
            /\ \/ \E t \in Tasks : Request(t)
               \/ \E S \in SUBSET Stale : RequeueStale(S)
               \/ RowClaimed
               \/ \E l \in Leases : CompleteTask(l) \/ RetryOrFail(l)
               \/ RowsTouched
               \/ UNCHANGED rows
         \/ UNCHANGED rows /\ \E l \in Leases : WorkDone(l)
<1>1. ASSUME NEW t \in Tasks, Request(t)
      PROVE  UNCHANGED effects
  BY <1>1 DEF Request, CreateTask, RetryTask, RedriveTask, RequeueFailed, DeleteSource
<1>2. CASE Unasked
  BY <1>2, KindsOfWork
<1>3. CASE UNCHANGED vars
  BY <1>3 DEF vars
<1> QED
  BY <1>1, <1>2, <1>3 DEF Next, Unasked

\* A claimed row changes hands only by its own job, the reaper or a deletion.
THEOREM RowsChangeHandsByRule == Spec => HandoverOnlyByRule
<1>1. ASSUME IInv, [Next]_vars, NEW t \in Tasks
      PROVE  Handover(t)
  <2> SUFFICES ASSUME rows[t].status = "processing", rows'[t].owner # rows[t].owner
               PROVE  Handover(t)
    BY DEF Handover
  <2>1. rows \in [Tasks -> Row]
    BY <1>1 DEF IInv, TypeOK
  <2>2. ASSUME NEW u \in Tasks, Request(u)
        PROVE  Handover(t)
    BY <2>1, <2>2 DEF Handover, Request, CreateTask, RetryTask, RedriveTask, RequeueFailed,
       DeleteSource, UnleasedRow
  <2>3. ASSUME NEW S \in SUBSET Stale, RequeueStale(S)
        PROVE  Handover(t)
    BY <2>1, <2>3 DEF Handover, RequeueStale, Stale, UnleasedRow
  <2>4. ~RowClaimed
    BY <2>1 DEF RowClaimed, Claimable
  <2>5. ASSUME NEW l \in Leases, CompleteTask(l) \/ RetryOrFail(l)
        PROVE  Handover(t)
    <3>1. jobs[l].task \in Tasks /\ jobs[l].phase \in {"completing", "failing"}
      BY <1>1, <2>5 DEF CompleteTask, RetryOrFail, IInv, JobsAreAssigned
    <3>2. Owns(l, jobs[l].task) /\ jobs[l].task = t
      BY <2>1, <2>5, <3>1 DEF CompleteTask, RetryOrFail
    <3> QED
      BY <3>1, <3>2 DEF Handover
  <2>6. ~RowsTouched
    BY <2>1 DEF RowsTouched, SameTask
  <2> QED
    BY <1>1, <2>2, <2>3, <2>4, <2>5, <2>6, KindsOfStep DEF WorkDone
<1>2. IInv /\ [Next]_vars => [\A t \in Tasks : Handover(t)]_vars
  BY <1>1
<1> QED
  BY <1>2, IngestionInvariant, PTL DEF HandoverOnlyByRule, Spec

\* A task keeps the count of its attempts while it goes round the queue.
THEOREM AttemptsAreKept == Spec => RetryBudgetKept
<1>1. ASSUME IInv, [Next]_vars, NEW t \in Tasks
      PROVE  AttemptsKept(t)
  <2> SUFFICES ASSUME rows[t].status \in {"queued", "processing"},
                      rows'[t].status = "queued"
               PROVE  rows'[t].attempts = rows[t].attempts
    BY DEF AttemptsKept
  <2>1. rows \in [Tasks -> Row]
    BY <1>1 DEF IInv, TypeOK
  <2>2. ASSUME NEW u \in Tasks, Request(u)
        PROVE  rows'[t].attempts = rows[t].attempts
    BY <2>1, <2>2 DEF Request, CreateTask, RetryTask, RedriveTask, RequeueFailed,
       DeleteSource, UnleasedRow
  <2>3. ASSUME NEW S \in SUBSET Stale, RequeueStale(S)
        PROVE  rows'[t].attempts = rows[t].attempts
    BY <2>3 DEF RequeueStale, UnleasedRow
  <2>4. RowClaimed => rows'[t].attempts = rows[t].attempts
    BY <2>1 DEF RowClaimed, ClaimedRow
  <2>5. ASSUME NEW l \in Leases, CompleteTask(l) \/ RetryOrFail(l)
        PROVE  rows'[t].attempts = rows[t].attempts
    BY <2>1, <2>5 DEF CompleteTask, RetryOrFail, FailedAttemptRow, UnleasedRow
  <2>6. RowsTouched => rows'[t].attempts = rows[t].attempts
    BY <2>1 DEF RowsTouched, SameTask
  <2> QED
    BY <1>1, <2>2, <2>3, <2>4, <2>5, <2>6, KindsOfStep DEF WorkDone
<1>2. IInv /\ [Next]_vars => [\A t \in Tasks : AttemptsKept(t)]_vars
  BY <1>1
<1> QED
  BY <1>2, IngestionInvariant, PTL DEF RetryBudgetKept, Spec

-----------------------------------------------------------------------------
(* Permits.                                                                *)

\* The permits, jobs and threads of a runner.  It has finitely many jobs, however
\* many lease owners there may be, and none when its process is down.
Within(r) ==
  /\ IsFiniteSet(JobsOf(r)) /\ (mode[r] = "down" => JobsOf(r) = {})
  /\ mode[r] # "down" /\ ~pool[r].overdrawn =>
       slots[r] + Cardinality(JobsOf(r)) <= QueueLimit
  /\ \A n \in Tenants : mode[r] # "down" =>
       tenantSlots[r][n] + Cardinality(TenantJobsOf(r, n)) <= TenantQueueLimit
  /\ Cardinality(RunningJobs(r)) <= pool[r].threads

Staffed == \A r \in Runners : Within(r)

\* A step that neither starts, schedules nor closes a job.
SameJobs ==
  /\ jobs' \in [Leases -> Job]
  /\ \A l \in Leases :
       /\ jobs'[l].task = jobs[l].task /\ jobs'[l].runner = jobs[l].runner
       /\ \/ jobs'[l].phase = jobs[l].phase
          \/ {jobs[l].phase, jobs'[l].phase} \cap {"idle", "scheduled"} = {}

\* How many permits and jobs a runner has, which may only become fewer.
LEMMA Fewer ==
  ASSUME NEW S, NEW T, IsFiniteSet(S), T \subseteq S
  PROVE  /\ IsFiniteSet(T)
         /\ Cardinality(S) \in Nat /\ Cardinality(T) \in Nat
         /\ Cardinality(T) <= Cardinality(S)
<1>1. T \in SUBSET S
  OBVIOUS
<1>2. IsFiniteSet(T) /\ Cardinality(T) <= Cardinality(S)
  BY <1>1, FS_Subset
<1> QED
  BY <1>2, FS_CardinalityType

LEMMA OneJobMore ==
  ASSUME NEW S, NEW l, IsFiniteSet(S)
  PROVE  /\ IsFiniteSet(S \cup {l})
         /\ Cardinality(S) \in Nat /\ Cardinality(S \cup {l}) \in Nat
         /\ Cardinality(S \cup {l}) <= Cardinality(S) + 1
<1>1. /\ IsFiniteSet(S \cup {l})
      /\ Cardinality(S \cup {l}) = IF l \in S THEN Cardinality(S) ELSE Cardinality(S) + 1
  BY FS_AddElement
<1>2. Cardinality(S) \in Nat /\ Cardinality(S \cup {l}) \in Nat
  BY <1>1, FS_CardinalityType
<1> QED
  BY <1>1, <1>2

LEMMA OneJobFewer ==
  ASSUME NEW S, NEW l \in S, IsFiniteSet(S)
  PROVE  /\ IsFiniteSet(S \ {l})
         /\ Cardinality(S) \in Nat /\ Cardinality(S \ {l}) \in Nat
         /\ Cardinality(S \ {l}) + 1 <= Cardinality(S)
<1>1. /\ IsFiniteSet(S \ {l})
      /\ Cardinality(S \ {l}) = IF l \in S THEN Cardinality(S) - 1 ELSE Cardinality(S)
  BY FS_RemoveElement
<1>2. Cardinality(S) \in Nat /\ Cardinality(S \ {l}) \in Nat
  BY <1>1, FS_CardinalityType
<1> QED
  BY <1>1, <1>2

\* The jobs of a tenant and the running jobs of a runner are among its jobs.
LEMMA PartsOfJobs ==
  ASSUME NEW r \in Runners, Within(r)
  PROVE  /\ IsFiniteSet(JobsOf(r)) /\ IsFiniteSet(RunningJobs(r))
         /\ \A n : IsFiniteSet(TenantJobsOf(r, n))
<1>1. IsFiniteSet(JobsOf(r)) /\ RunningJobs(r) \subseteq JobsOf(r)
      /\ \A n : TenantJobsOf(r, n) \subseteq JobsOf(r)
  BY DEF Within, RunningJobs, TenantJobsOf
<1> QED
  BY <1>1, Fewer

LEMMA PermitsAreNumbers ==
  ASSUME TypeOK, NEW r \in Runners
  PROVE  /\ slots[r] \in Nat /\ \A n \in Tenants : tenantSlots[r][n] \in Nat
         /\ pool[r].threads \in Nat /\ pool[r].threads <= Workers
         /\ QueueLimit \in Nat /\ TenantQueueLimit \in Nat /\ Workers \in Nat
<1>1. pool[r] \in [threads : 0 .. Workers, overdrawn : BOOLEAN]
  BY DEF TypeOK
<1> QED
  BY <1>1, IngestionAssumption DEF TypeOK

\* A runner without jobs, with no more permits than a new one has.
LEMMA NoJobsWithin ==
  ASSUME TypeOK, NEW r \in Runners, JobsOf(r) = {}, slots[r] <= QueueLimit,
         \A n \in Tenants : tenantSlots[r][n] <= TenantQueueLimit
  PROVE  Within(r)
<1>1. RunningJobs(r) = {} /\ \A n \in Tenants : TenantJobsOf(r, n) = {}
  BY DEF RunningJobs, TenantJobsOf
<1>2. IsFiniteSet({}) /\ Cardinality({}) = 0
  BY FS_EmptySet
<1>3. /\ IsFiniteSet(JobsOf(r)) /\ Cardinality(JobsOf(r)) = 0
      /\ Cardinality(RunningJobs(r)) = 0
      /\ \A n \in Tenants : Cardinality(TenantJobsOf(r, n)) = 0
  BY <1>1, <1>2
<1> QED
  BY <1>3, PermitsAreNumbers DEF Within

LEMMA InitCapacity == Init => Staffed
<1> SUFFICES ASSUME Init, NEW r \in Runners
             PROVE  Within(r)
  BY DEF Staffed
<1>1. TypeOK
  BY InitIInv DEF IInv
<1>2. JobsOf(r) = {}
  BY DEF Init, JobsOf, NoJob
<1>3. slots[r] = QueueLimit /\ \A n \in Tenants : tenantSlots[r][n] = TenantQueueLimit
  BY DEF Init, FreshSlots
<1> QED
  BY <1>1, <1>2, <1>3, NoJobsWithin, IngestionAssumption

\* A runner whose jobs are the same or fewer, while it gains no permit.
LEMMA StaysWithin ==
  ASSUME TypeOK, TypeOK', NEW r \in Runners, Within(r),
         JobsOf(r)' \subseteq JobsOf(r), RunningJobs(r)' \subseteq RunningJobs(r),
         \A n \in Tenants : TenantJobsOf(r, n)' \subseteq TenantJobsOf(r, n),
         mode'[r] # "down" => mode[r] # "down",
         mode'[r] = "down" => JobsOf(r)' = {},
         pool[r].overdrawn => pool'[r].overdrawn,
         pool'[r].threads >= pool[r].threads,
         slots'[r] <= slots[r],
         \A n \in Tenants : tenantSlots'[r][n] <= tenantSlots[r][n]
  PROVE  Within(r)'
<1>1. /\ slots[r] \in Nat /\ slots'[r] \in Nat
      /\ \A n \in Tenants : tenantSlots[r][n] \in Nat /\ tenantSlots'[r][n] \in Nat
      /\ pool[r].threads \in Nat /\ pool'[r].threads \in Nat
      /\ QueueLimit \in Nat /\ TenantQueueLimit \in Nat
  <2>1. slots'[r] \in Nat /\ \A n \in Tenants : tenantSlots'[r][n] \in Nat
    BY DEF TypeOK
  <2>2. pool'[r] \in [threads : 0 .. Workers, overdrawn : BOOLEAN]
    BY DEF TypeOK
  <2> QED
    BY <2>1, <2>2, PermitsAreNumbers
<1>2. /\ IsFiniteSet(JobsOf(r)')
      /\ Cardinality(JobsOf(r)) \in Nat /\ Cardinality(JobsOf(r)') \in Nat
      /\ Cardinality(JobsOf(r)') <= Cardinality(JobsOf(r))
  BY PartsOfJobs, Fewer
<1>3. /\ Cardinality(RunningJobs(r)) \in Nat /\ Cardinality(RunningJobs(r)') \in Nat
      /\ Cardinality(RunningJobs(r)') <= Cardinality(RunningJobs(r))
  BY PartsOfJobs, Fewer
<1>4. ASSUME mode'[r] # "down", ~pool'[r].overdrawn
      PROVE  slots'[r] + Cardinality(JobsOf(r)') <= QueueLimit
  <2>1. slots[r] + Cardinality(JobsOf(r)) <= QueueLimit
    BY <1>4 DEF Within
  <2> QED
    BY <1>1, <1>2, <2>1
<1>5. ASSUME NEW n \in Tenants, mode'[r] # "down"
      PROVE  tenantSlots'[r][n] + Cardinality(TenantJobsOf(r, n)') <= TenantQueueLimit
  <2>1. /\ Cardinality(TenantJobsOf(r, n)) \in Nat /\ Cardinality(TenantJobsOf(r, n)') \in Nat
        /\ Cardinality(TenantJobsOf(r, n)') <= Cardinality(TenantJobsOf(r, n))
    BY PartsOfJobs, Fewer
  <2>2. tenantSlots[r][n] + Cardinality(TenantJobsOf(r, n)) <= TenantQueueLimit
    BY <1>5 DEF Within
  <2> QED
    BY <1>1, <2>1, <2>2
<1>6. Cardinality(RunningJobs(r)') <= pool'[r].threads
  BY <1>1, <1>3 DEF Within
<1> QED
  BY <1>2, <1>4, <1>5, <1>6 DEF Within

LEMMA SameJobsKept ==
  ASSUME SameJobs, NEW r \in Runners
  PROVE  /\ JobsOf(r)' = JobsOf(r) /\ RunningJobs(r)' = RunningJobs(r)
         /\ \A n : TenantJobsOf(r, n)' = TenantJobsOf(r, n)
<1>1. \A l \in Leases : /\ jobs'[l].phase = "idle" <=> jobs[l].phase = "idle"
                        /\ jobs'[l].phase = "scheduled" <=> jobs[l].phase = "scheduled"
                        /\ jobs'[l].task = jobs[l].task /\ jobs'[l].runner = jobs[l].runner
  BY DEF SameJobs
<1>2. JobsOf(r)' = JobsOf(r)
  BY <1>1 DEF JobsOf
<1>3. JobsOf(r) \subseteq Leases
  BY DEF JobsOf
<1> QED
  BY <1>1, <1>2, <1>3 DEF RunningJobs, TenantJobsOf

\* Steps of requests, the clock, the reaper, failed claims and most of a job.
LEMMA SameJobsCapacity ==
  ASSUME TypeOK, TypeOK', Staffed, SameJobs, mode' = mode, pool' = pool,
         \A r \in Runners : slots'[r] <= slots[r]
           /\ \A n \in Tenants : tenantSlots'[r][n] <= tenantSlots[r][n]
  PROVE  Staffed'
<1> SUFFICES ASSUME NEW r \in Runners
             PROVE  Within(r)'
  BY DEF Staffed
<1>1. /\ JobsOf(r)' = JobsOf(r) /\ RunningJobs(r)' = RunningJobs(r)
      /\ \A n \in Tenants : TenantJobsOf(r, n)' = TenantJobsOf(r, n)
  BY SameJobsKept
<1>2. Within(r) /\ (mode'[r] = "down" => JobsOf(r)' = {})
  BY <1>1 DEF Staffed, Within
<1>3. pool'[r].threads >= pool[r].threads
  BY PermitsAreNumbers
<1> QED
  BY <1>1, <1>2, <1>3, StaysWithin

\* Steps in which some jobs of one runner end and it gains no permit.
LEMMA FewerJobsCapacity ==
  ASSUME TypeOK, TypeOK', Staffed, NEW q \in Runners,
         \A l \in Leases : jobs'[l] = jobs[l] \/ jobs'[l] = NoJob,
         pool' = pool, slots' = slots, tenantSlots' = tenantSlots,
         \A r \in Runners : \/ mode'[r] = mode[r]
                            \/ mode'[r] = "stopping" /\ mode[r] # "down"
                            \/ mode'[r] = "down" /\ JobsOf(r)' = {}
  PROVE  Staffed'
<1> SUFFICES ASSUME NEW r \in Runners
             PROVE  Within(r)'
  BY DEF Staffed
<1>1. /\ JobsOf(r)' \subseteq JobsOf(r) /\ RunningJobs(r)' \subseteq RunningJobs(r)
      /\ \A n \in Tenants : TenantJobsOf(r, n)' \subseteq TenantJobsOf(r, n)
  BY DEF JobsOf, RunningJobs, TenantJobsOf, NoJob
<1>2. /\ Within(r)
      /\ mode'[r] # "down" => mode[r] # "down"
      /\ mode'[r] = "down" => JobsOf(r)' = {}
  BY <1>1 DEF Staffed, Within
<1> QED
  BY <1>1, <1>2, StaysWithin, PermitsAreNumbers

\* What moves a job on without starting or closing it.
QuietJobStep(l) ==
  \/ ReportProgress(l) \/ WorkDone(l) \/ IngestRaises(l) \/ SkipCompletion(l)
  \/ CompleteTask(l) \/ RetryOrFail(l) \/ RetryOrFailRaises(l)
  \/ Renew(l) \/ RenewRaises(l)

LEMMA QuietJobs ==
  ASSUME TypeOK, TypeOK', NEW l \in Leases, QuietJobStep(l)
  PROVE  SameJobs /\ UNCHANGED runnerVars
<1> USE DEF Goto, Abandon
<1>1. jobs' \in [Leases -> Job] /\ jobs \in [Leases -> Job] /\ jobs[l] \in Job
  BY DEF TypeOK
<1>2. UNCHANGED runnerVars
  BY DEF QuietJobStep, ReportProgress, WorkDone, SummarizeSources, IndexEntities,
     ArchiveDocuments, PublishVersions, SaveCatalog, Change, IngestRaises,
     SkipCompletion, SaveResolutions, CompleteTask, RetryOrFail, RetryOrFailRaises, Renew,
     RenewRaises
<1>3. /\ \A k \in Leases : k # l => jobs'[k] = jobs[k]
      /\ jobs'[l].task = jobs[l].task /\ jobs'[l].runner = jobs[l].runner
      /\ \/ jobs'[l].phase = jobs[l].phase
         \/ {jobs[l].phase, jobs'[l].phase} \cap {"idle", "scheduled"} = {}
  <2>1. CASE ReportProgress(l)
    BY <1>1, <2>1 DEF ReportProgress, ReportingPhases, NextStage, Job
  <2>2. ASSUME NEW from, NEW to, <<from, to>> \in Changes, Change(l, from, to)
        PROVE  /\ \A k \in Leases : k # l => jobs'[k] = jobs[k]
               /\ jobs'[l].task = jobs[l].task /\ jobs'[l].runner = jobs[l].runner
               /\ \/ jobs'[l].phase = jobs[l].phase
                  \/ {jobs[l].phase, jobs'[l].phase} \cap {"idle", "scheduled"} = {}
    BY <1>1, <2>2, ChangeFacts DEF Change, Job
  <2>3. CASE WorkDone(l) /\ ~SaveResolutions(l)
    BY <2>2, <2>3 DEF WorkDone, SummarizeSources, IndexEntities, ArchiveDocuments,
       PublishVersions, SaveCatalog, Changes
  <2>4. CASE SaveResolutions(l)
    BY <1>1, <2>4 DEF SaveResolutions, Job
  <2>5. CASE IngestRaises(l) \/ SkipCompletion(l)
    BY <1>1, <2>5 DEF IngestRaises, SkipCompletion, Job
  <2>6. CASE CompleteTask(l) \/ RetryOrFail(l) \/ RetryOrFailRaises(l)
    BY <1>1, <2>6 DEF CompleteTask, RetryOrFail, RetryOrFailRaises, Job
  <2>7. CASE Renew(l) \/ RenewRaises(l)
    BY <1>1, <2>7 DEF Renew, RenewRaises, Job
  <2> QED
    BY <2>1, <2>3, <2>4, <2>5, <2>6, <2>7 DEF QuietJobStep
<1> QED
  BY <1>1, <1>2, <1>3 DEF SameJobs

LEMMA StartCapacity ==
  ASSUME TypeOK, TypeOK', Staffed, NEW l \in Leases, StartJob(l)
  PROVE  Staffed'
<1> SUFFICES ASSUME NEW r \in Runners
             PROVE  Within(r)'
  BY DEF Staffed
<1>1. /\ jobs[l].phase = "scheduled" /\ jobs'[l].phase = "starting"
      /\ jobs'[l].task = jobs[l].task /\ jobs'[l].runner = jobs[l].runner
      /\ \A k \in Leases : k # l => jobs'[k] = jobs[k]
      /\ UNCHANGED <<mode, slots, tenantSlots, pool>>
      /\ Cardinality(RunningJobs(jobs[l].runner)) < pool[jobs[l].runner].threads
  BY DEF StartJob, ThreadFree, Goto, runnerVars, TypeOK, Job
<1>2. JobsOf(r)' = JobsOf(r) /\ Within(r)
  BY <1>1 DEF JobsOf, Staffed
<1>3. \A n \in Tenants : TenantJobsOf(r, n)' = TenantJobsOf(r, n)
  <2>1. \A k \in Leases : jobs'[k].task = jobs[k].task
    BY <1>1
  <2>2. JobsOf(r) \subseteq Leases
    BY DEF JobsOf
  <2> QED
    BY <1>2, <2>1, <2>2 DEF TenantJobsOf
<1>4. Cardinality(RunningJobs(r)') <= pool[r].threads
  <2>1. CASE r # jobs[l].runner
    <3>1. RunningJobs(r)' = RunningJobs(r)
      BY <1>1, <1>2, <2>1 DEF RunningJobs, JobsOf
    <3> QED
      BY <1>2, <3>1 DEF Within
  <2>2. CASE r = jobs[l].runner
    <3>1. RunningJobs(r)' \subseteq RunningJobs(r) \cup {l}
      BY <1>1, <1>2 DEF RunningJobs, JobsOf
    <3>2. /\ IsFiniteSet(RunningJobs(r) \cup {l})
          /\ Cardinality(RunningJobs(r)) \in Nat /\ Cardinality(RunningJobs(r) \cup {l}) \in Nat
          /\ Cardinality(RunningJobs(r) \cup {l}) <= Cardinality(RunningJobs(r)) + 1
      BY <1>2, PartsOfJobs, OneJobMore
    <3>3. Cardinality(RunningJobs(r)') \in Nat
          /\ Cardinality(RunningJobs(r)') <= Cardinality(RunningJobs(r) \cup {l})
      BY <3>1, <3>2, Fewer
    <3>4. Cardinality(RunningJobs(r)) < pool[r].threads /\ pool[r].threads \in Nat
      BY <1>1, <2>2, PermitsAreNumbers
    <3> QED
      BY <3>2, <3>3, <3>4
  <2> QED
    BY <2>1, <2>2
<1> QED
  BY <1>1, <1>2, <1>3, <1>4 DEF Within

\* A job and its two permits come together, unless a drain takes back the runner's.
LEMMA ClaimCapacity ==
  ASSUME TypeOK, TypeOK', Staffed,
         NEW q \in Runners, NEW t \in Tasks, NEW l \in Leases,
         ClaimAndSchedule(q, t, l) \/ ScheduleRaises(q, t, l)
  PROVE  Staffed'
<1> SUFFICES ASSUME NEW r \in Runners
             PROVE  Within(r)'
  BY DEF Staffed
<1> DEFINE m == TenantOf[t]
<1>1. /\ jobs[l].phase = "idle" /\ jobs'[l].phase = "scheduled"
      /\ jobs'[l].task = t /\ jobs'[l].runner = q
      /\ \A k \in Leases : k # l => jobs'[k] = jobs[k]
      /\ mode' = mode /\ mode[q] = "up"
  BY DEF ClaimAndSchedule, ScheduleRaises, ClaimAndQueue, Fresh, TypeOK
<1>2. m \in Tenants
  BY IngestionAssumption
<1>3. /\ tenantSlots' = [tenantSlots EXCEPT ![q][m] = @ - 1]
      /\ \/ slots' = [slots EXCEPT ![q] = @ - 1]
         \/ slots' = slots /\ pool' = [pool EXCEPT ![q].overdrawn = TRUE]
  BY DEF ClaimAndSchedule, ScheduleRaises, TakeSlots, TakeTenantSlot
<1>4. RunningJobs(r)' \subseteq RunningJobs(r)
  BY <1>1 DEF RunningJobs, JobsOf
<1>5. pool'[r].threads >= pool[r].threads /\ (pool[r].overdrawn => pool'[r].overdrawn)
  <2>1. \/ EnsureThread(q)
        \/ UNCHANGED pool
        \/ pool' = [pool EXCEPT ![q].overdrawn = TRUE]
    BY DEF ClaimAndSchedule, ScheduleRaises
  <2>2. \A i \in Runners : /\ pool'[i].threads >= pool[i].threads
                           /\ pool[i].overdrawn => pool'[i].overdrawn
    BY <2>1, PoolTypes
  <2> QED
    BY <2>2
<1>6. Within(r)
  BY DEF Staffed
<1>7. CASE r # q
  <2>1. JobsOf(r)' = JobsOf(r)
    BY <1>1, <1>7 DEF JobsOf
  <2>2. \A n \in Tenants : TenantJobsOf(r, n)' = TenantJobsOf(r, n)
    BY <1>1, <2>1 DEF TenantJobsOf, JobsOf
  <2>3. slots'[r] = slots[r] /\ tenantSlots'[r] = tenantSlots[r]
    BY <1>3, <1>7 DEF TypeOK
  <2>4. slots[r] \in Nat /\ \A n \in Tenants : tenantSlots[r][n] \in Nat
    BY PermitsAreNumbers
  <2>5. mode'[r] = "down" => JobsOf(r)' = {}
    BY <1>1, <1>6, <2>1 DEF Within
  <2> QED
    BY <1>1, <1>4, <1>5, <1>6, <2>1, <2>2, <2>3, <2>4, <2>5, StaysWithin
<1>8. CASE r = q
  <2>1. JobsOf(r)' = JobsOf(r) \cup {l}
    BY <1>1, <1>8 DEF JobsOf
  <2>2. /\ TenantJobsOf(r, m)' = TenantJobsOf(r, m) \cup {l}
        /\ \A n \in Tenants : n # m => TenantJobsOf(r, n)' = TenantJobsOf(r, n)
    BY <1>1, <2>1 DEF TenantJobsOf, JobsOf
  <2>3. /\ slots'[r] = slots[r] - 1 \/ pool'[r].overdrawn
        /\ tenantSlots'[r][m] = tenantSlots[r][m] - 1
        /\ \A n \in Tenants : n # m => tenantSlots'[r][n] = tenantSlots[r][n]
    BY <1>2, <1>3, <1>8 DEF TypeOK
  <2>4. /\ slots[r] \in Nat /\ \A n \in Tenants : tenantSlots[r][n] \in Nat
        /\ QueueLimit \in Nat /\ TenantQueueLimit \in Nat /\ pool[r].threads \in Nat
    BY PermitsAreNumbers
  <2>5. /\ IsFiniteSet(JobsOf(r)')
        /\ Cardinality(JobsOf(r)) \in Nat /\ Cardinality(JobsOf(r)') \in Nat
        /\ Cardinality(JobsOf(r)') <= Cardinality(JobsOf(r)) + 1
    BY <1>6, <2>1, PartsOfJobs, OneJobMore
  <2>6. ASSUME ~pool'[r].overdrawn
        PROVE  slots'[r] + Cardinality(JobsOf(r)') <= QueueLimit
    <3>1. slots[r] + Cardinality(JobsOf(r)) <= QueueLimit
      BY <1>1, <1>5, <1>6, <1>8, <2>6 DEF Within
    <3> QED
      BY <2>3, <2>4, <2>5, <2>6, <3>1
  <2>7. ASSUME NEW n \in Tenants
        PROVE  tenantSlots'[r][n] + Cardinality(TenantJobsOf(r, n)') <= TenantQueueLimit
    <3>1. tenantSlots[r][n] + Cardinality(TenantJobsOf(r, n)) <= TenantQueueLimit
      BY <1>1, <1>6, <1>8 DEF Within
    <3>2. CASE n # m
      BY <2>2, <2>3, <3>1, <3>2
    <3>3. CASE n = m
      <4>1. /\ Cardinality(TenantJobsOf(r, m)) \in Nat /\ Cardinality(TenantJobsOf(r, m)') \in Nat
            /\ Cardinality(TenantJobsOf(r, m)') <= Cardinality(TenantJobsOf(r, m)) + 1
        BY <1>6, <2>2, PartsOfJobs, OneJobMore
      <4> QED
        BY <1>2, <2>3, <2>4, <3>1, <3>3, <4>1
    <3> QED
      BY <3>2, <3>3
  <2>8. Cardinality(RunningJobs(r)') <= pool'[r].threads
    <3>1. /\ Cardinality(RunningJobs(r)) \in Nat /\ Cardinality(RunningJobs(r)') \in Nat
          /\ Cardinality(RunningJobs(r)') <= Cardinality(RunningJobs(r))
      BY <1>4, <1>6, PartsOfJobs, Fewer
    <3>2. pool'[r] \in [threads : 0 .. Workers, overdrawn : BOOLEAN]
      BY DEF TypeOK
    <3>3. pool'[r].threads \in Nat
      BY <3>2, <2>4
    <3> QED
      BY <1>5, <1>6, <2>4, <3>1, <3>3 DEF Within
  <2> QED
    BY <1>1, <1>8, <2>5, <2>6, <2>7, <2>8 DEF Within
<1> QED
  BY <1>7, <1>8

\* A job gives back its permits; a semaphore that is full takes none.
LEMMA CloseCapacity ==
  ASSUME TypeOK, TypeOK', JobsAreAssigned, Staffed, NEW l \in Leases, CloseJob(l)
  PROVE  Staffed'
<1> SUFFICES ASSUME NEW r \in Runners
             PROVE  Within(r)'
  BY DEF Staffed
<1>a. PICK q : q = jobs[l].runner
  OBVIOUS
<1>b. PICK m : m = TenantOf[jobs[l].task]
  OBVIOUS
<1>1. /\ jobs[l].phase = "closing" /\ jobs'[l].phase = "idle"
      /\ \A k \in Leases : k # l => jobs'[k] = jobs[k]
      /\ mode' = mode /\ pool' = pool
      /\ slots' = [slots EXCEPT ![q] = IF @ < QueueLimit THEN @ + 1 ELSE @]
      /\ tenantSlots' = [tenantSlots EXCEPT ![q][m] = @ + 1]
  BY <1>a, <1>b DEF CloseJob, NoJob, TypeOK
<1>2. q \in Runners /\ m \in Tenants
  BY <1>a, <1>b, <1>1, IngestionAssumption DEF JobsAreAssigned
<1>3. l \in JobsOf(q) /\ l \in TenantJobsOf(q, m)
  BY <1>a, <1>b, <1>1 DEF JobsOf, TenantJobsOf
<1>4. RunningJobs(r)' \subseteq RunningJobs(r)
  BY <1>1 DEF RunningJobs, JobsOf
<1>5. Within(r)
  BY DEF Staffed
<1>6. CASE r # q
  <2>1. JobsOf(r)' = JobsOf(r)
    BY <1>a, <1>1, <1>6 DEF JobsOf
  <2>2. \A n \in Tenants : TenantJobsOf(r, n)' = TenantJobsOf(r, n)
    BY <1>a, <1>1, <1>6, <2>1 DEF TenantJobsOf, JobsOf
  <2>3. slots'[r] = slots[r] /\ tenantSlots'[r] = tenantSlots[r]
    BY <1>1, <1>6 DEF TypeOK
  <2>4. /\ slots[r] \in Nat /\ \A n \in Tenants : tenantSlots[r][n] \in Nat
        /\ pool[r].threads \in Nat
    BY PermitsAreNumbers
  <2>5. mode'[r] = "down" => JobsOf(r)' = {}
    BY <1>1, <1>5, <2>1 DEF Within
  <2> QED
    BY <1>1, <1>4, <1>5, <2>1, <2>2, <2>3, <2>4, <2>5, StaysWithin
<1>7. CASE r = q
  <2>1. JobsOf(r)' = JobsOf(r) \ {l} /\ mode[r] # "down"
    BY <1>1, <1>3, <1>5, <1>7 DEF JobsOf, Within
  <2>2. /\ TenantJobsOf(r, m)' = TenantJobsOf(r, m) \ {l}
        /\ \A n \in Tenants : n # m => TenantJobsOf(r, n)' = TenantJobsOf(r, n)
    BY <1>b, <1>1, <2>1 DEF TenantJobsOf, JobsOf
  <2>3. /\ slots[r] \in Nat /\ \A n \in Tenants : tenantSlots[r][n] \in Nat
        /\ QueueLimit \in Nat /\ TenantQueueLimit \in Nat /\ pool[r].threads \in Nat
    BY PermitsAreNumbers
  <2>4. /\ slots'[r] \in Nat /\ slots'[r] <= slots[r] + 1
        /\ tenantSlots'[r][m] = tenantSlots[r][m] + 1
        /\ \A n \in Tenants : n # m => tenantSlots'[r][n] = tenantSlots[r][n]
    BY <1>1, <1>2, <1>7, <2>3 DEF TypeOK
  <2>5. /\ IsFiniteSet(JobsOf(r)')
        /\ Cardinality(JobsOf(r)) \in Nat /\ Cardinality(JobsOf(r)') \in Nat
        /\ Cardinality(JobsOf(r)') + 1 <= Cardinality(JobsOf(r))
    BY <1>3, <1>5, <1>7, <2>1, PartsOfJobs, OneJobFewer
  <2>6. ASSUME ~pool[r].overdrawn
        PROVE  slots'[r] + Cardinality(JobsOf(r)') <= QueueLimit
    <3>1. slots[r] + Cardinality(JobsOf(r)) <= QueueLimit
      BY <1>5, <2>1, <2>6 DEF Within
    <3> QED
      BY <2>3, <2>4, <2>5, <3>1
  <2>7. ASSUME NEW n \in Tenants
        PROVE  tenantSlots'[r][n] + Cardinality(TenantJobsOf(r, n)') <= TenantQueueLimit
    <3>1. tenantSlots[r][n] + Cardinality(TenantJobsOf(r, n)) <= TenantQueueLimit
      BY <1>5, <2>1 DEF Within
    <3>2. CASE n # m
      BY <2>2, <2>4, <3>1, <3>2
    <3>3. CASE n = m
      <4>1. /\ Cardinality(TenantJobsOf(r, m)) \in Nat /\ Cardinality(TenantJobsOf(r, m)') \in Nat
            /\ Cardinality(TenantJobsOf(r, m)') + 1 <= Cardinality(TenantJobsOf(r, m))
        BY <1>3, <1>5, <1>7, <2>2, PartsOfJobs, OneJobFewer
      <4> QED
        BY <1>2, <2>3, <2>4, <3>1, <3>3, <4>1
    <3> QED
      BY <3>2, <3>3
  <2>8. Cardinality(RunningJobs(r)') <= pool[r].threads
    <3>1. /\ Cardinality(RunningJobs(r)) \in Nat /\ Cardinality(RunningJobs(r)') \in Nat
          /\ Cardinality(RunningJobs(r)') <= Cardinality(RunningJobs(r))
      BY <1>4, <1>5, PartsOfJobs, Fewer
    <3> QED
      BY <1>5, <2>3, <3>1 DEF Within
  <2> QED
    BY <1>1, <2>1, <2>5, <2>6, <2>7, <2>8 DEF Within
<1> QED
  BY <1>6, <1>7

LEMMA ProcessCapacity ==
  ASSUME TypeOK, TypeOK', Staffed, NEW q \in Runners, ProcessStep(q)
  PROVE  Staffed'
<1>1. CASE StopRunner(q)
  BY <1>1, FewerJobsCapacity DEF StopRunner, TypeOK
<1>2. CASE ExitRunner(q) \/ CrashRunner(q)
  <2>1. /\ pool' = pool /\ slots' = slots /\ tenantSlots' = tenantSlots
        /\ mode' = [mode EXCEPT ![q] = "down"]
        /\ \A l \in Leases : jobs'[l] = IF l \in JobsOf(q) THEN NoJob ELSE jobs[l]
    BY <1>2 DEF ExitRunner, CrashRunner, DropJobsOf
  <2>2. JobsOf(q)' = {}
    BY <2>1 DEF JobsOf, NoJob
  <2>3. \A r \in Runners : mode'[r] = mode[r] \/ (mode'[r] = "down" /\ JobsOf(r)' = {})
    BY <2>1, <2>2 DEF TypeOK
  <2> QED
    BY <2>1, <2>3, FewerJobsCapacity
<1>3. CASE RestartRunner(q)
  <2> SUFFICES ASSUME NEW r \in Runners
               PROVE  Within(r)'
    BY DEF Staffed
  <2>1. /\ JobsOf(r)' = JobsOf(r) /\ RunningJobs(r)' = RunningJobs(r)
        /\ \A n \in Tenants : TenantJobsOf(r, n)' = TenantJobsOf(r, n)
    BY <1>3 DEF RestartRunner, JobsOf, RunningJobs, TenantJobsOf
  <2>2. CASE r # q
    <3>1. /\ slots'[r] = slots[r] /\ tenantSlots'[r] = tenantSlots[r] /\ mode'[r] = mode[r]
          /\ pool'[r] = pool[r]
      BY <1>3, <2>2 DEF RestartRunner, TypeOK
    <3> QED
      BY <2>1, <3>1 DEF Staffed, Within
  <2>3. CASE r = q
    <3>1. /\ slots'[r] = QueueLimit /\ \A n \in Tenants : tenantSlots'[r][n] = TenantQueueLimit
          /\ JobsOf(r)' = {} /\ pool'[r] = NewPool
      BY <1>3, <2>1, <2>3 DEF RestartRunner, FreshSlots, TypeOK, Staffed, Within
    <3>2. RunningJobs(r)' = {} /\ \A n \in Tenants : TenantJobsOf(r, n)' = {}
      BY <3>1 DEF RunningJobs, TenantJobsOf
    <3> QED
      BY <3>1, <3>2, FS_EmptySet, IngestionAssumption DEF Within, NewPool
  <2> QED
    BY <2>2, <2>3
<1> QED
  BY <1>1, <1>2, <1>3 DEF ProcessStep

\* Requests, the clock and the dispatcher's other steps only take permits.
LEMMA DispatchCapacity ==
  ASSUME TypeOK, TypeOK', Staffed,
         \/ \E t \in Tasks : Request(t) \/ LeaseExpires(t) \/ BackoffElapses(t)
         \/ \E r \in Runners, t \in Tasks : SubmitClaimRaises(r, t) \/ DrainClaimRaises(r, t)
         \/ \E r \in Runners, t \in Tasks, l \in Leases : ClaimDuringShutdown(r, t, l)
         \/ \E S \in SUBSET Stale : RequeueStale(S)
  PROVE  Staffed'
<1>1. jobs' = jobs /\ mode' = mode /\ pool' = pool
  BY DEF Request, CreateTask, RetryTask, RedriveTask, RequeueFailed, DeleteSource,
     LeaseExpires, BackoffElapses, SubmitClaimRaises, DrainClaimRaises, ClaimDuringShutdown,
     RequeueStale, runnerVars
<1>2. SameJobs
  BY <1>1 DEF SameJobs, TypeOK
<1>3. \A r \in Runners : slots[r] \in Nat /\ \A n \in Tenants : tenantSlots[r][n] \in Nat
  BY DEF TypeOK
<1>4. ASSUME NEW q \in Runners, NEW t \in Tasks,
             TakeTenantSlot(q, TenantOf[t])
      PROVE  \A r \in Runners, n \in Tenants : tenantSlots'[r][n] <= tenantSlots[r][n]
  <2>1. TenantOf[t] \in Tenants
    BY IngestionAssumption
  <2>2. tenantSlots' = [tenantSlots EXCEPT ![q][TenantOf[t]] = @ - 1]
    BY <1>4 DEF TakeTenantSlot
  <2> SUFFICES ASSUME NEW r \in Runners, NEW n \in Tenants
               PROVE  tenantSlots'[r][n] <= tenantSlots[r][n]
    OBVIOUS
  <2>3. CASE r = q /\ n = TenantOf[t]
    BY <1>3, <2>1, <2>2, <2>3 DEF TypeOK
  <2>4. CASE ~(r = q /\ n = TenantOf[t])
    <3>1. tenantSlots'[r][n] = tenantSlots[r][n]
      BY <2>1, <2>2, <2>4 DEF TypeOK
    <3> QED
      BY <1>3, <3>1
  <2> QED
    BY <2>3, <2>4
<1>5. \A r \in Runners : slots'[r] <= slots[r]
                           /\ \A n \in Tenants : tenantSlots'[r][n] <= tenantSlots[r][n]
  <2>1. CASE \/ \E t \in Tasks : Request(t) \/ LeaseExpires(t) \/ BackoffElapses(t)
             \/ \E S \in SUBSET Stale : RequeueStale(S)
    <3>1. slots' = slots /\ tenantSlots' = tenantSlots
      BY <2>1 DEF Request, CreateTask, RetryTask, RedriveTask, RequeueFailed, DeleteSource,
         LeaseExpires, BackoffElapses, RequeueStale, runnerVars
    <3> QED
      BY <1>3, <3>1
  <2>2. ASSUME NEW q \in Runners, NEW t \in Tasks, SubmitClaimRaises(q, t)
        PROVE  \A r \in Runners : slots'[r] <= slots[r]
                 /\ \A n \in Tenants : tenantSlots'[r][n] <= tenantSlots[r][n]
    <3>1. slots' = [slots EXCEPT ![q] = @ - 1] /\ TakeTenantSlot(q, TenantOf[t])
      BY <2>2 DEF SubmitClaimRaises, TakeSlots
    <3>2. \A r \in Runners : slots'[r] <= slots[r]
      BY <1>3, <3>1 DEF TypeOK
    <3> QED
      BY <1>4, <3>1, <3>2
  <2>3. ASSUME NEW q \in Runners, NEW t \in Tasks,
               DrainClaimRaises(q, t) \/ \E l \in Leases : ClaimDuringShutdown(q, t, l)
        PROVE  \A r \in Runners : slots'[r] <= slots[r]
                 /\ \A n \in Tenants : tenantSlots'[r][n] <= tenantSlots[r][n]
    <3>1. slots' = slots /\ TakeTenantSlot(q, TenantOf[t])
      BY <2>3 DEF DrainClaimRaises, ClaimDuringShutdown
    <3> QED
      BY <1>3, <1>4, <3>1
  <2> QED
    BY <2>1, <2>2, <2>3
<1> QED
  BY <1>1, <1>2, <1>5, SameJobsCapacity

LEMMA NextCapacity ==
  IInv /\ IInv' /\ Staffed /\ [Next]_vars => Staffed'
<1> SUFFICES ASSUME IInv, IInv', Staffed, [Next]_vars
             PROVE  Staffed'
  OBVIOUS
<1>0. TypeOK /\ TypeOK' /\ JobsAreAssigned
  BY DEF IInv
<1>1. ASSUME NEW t \in Tasks, Request(t) \/ LeaseExpires(t) \/ BackoffElapses(t)
      PROVE  Staffed'
  BY <1>0, <1>1, DispatchCapacity
<1>2. CASE Dispatch
  BY <1>0, <1>2, DispatchCapacity, ClaimCapacity DEF Dispatch
<1>3. ASSUME NEW l \in Leases, JobStep(l)
      PROVE  Staffed'
  <2>1. CASE StartJob(l)
    BY <1>0, <2>1, StartCapacity
  <2>2. CASE CloseJob(l)
    BY <1>0, <2>2, CloseCapacity
  <2>3. CASE QuietJobStep(l)
    <3>1. SameJobs /\ mode' = mode /\ pool' = pool /\ slots' = slots /\ tenantSlots' = tenantSlots
      BY <1>0, <2>3, QuietJobs DEF runnerVars
    <3>2. \A r \in Runners : slots[r] \in Nat /\ \A n \in Tenants : tenantSlots[r][n] \in Nat
      BY <1>0 DEF TypeOK
    <3> QED
      BY <1>0, <3>1, <3>2, SameJobsCapacity
  <2>4. CASE RenewalStartFails(l)
    <3>1. /\ jobs' = [jobs EXCEPT ![l] = NoJob] /\ jobs[l].phase # "idle"
          /\ UNCHANGED <<mode, pool, slots, tenantSlots>>
      BY <2>4 DEF RenewalStartFails, runnerVars
    <3>2. jobs[l].runner \in Runners
      BY <1>0, <3>1 DEF JobsAreAssigned
    <3>3. \A k \in Leases : jobs'[k] = jobs[k] \/ jobs'[k] = NoJob
      BY <1>0, <3>1 DEF TypeOK
    <3> QED
      BY <1>0, <3>1, <3>2, <3>3, FewerJobsCapacity
  <2> QED
    BY <1>3, <2>1, <2>2, <2>3, <2>4 DEF JobStep, QuietJobStep, WorkDone
<1>4. ASSUME NEW r \in Runners, ProcessStep(r)
      PROVE  Staffed'
  BY <1>0, <1>4, ProcessCapacity
<1>5. CASE UNCHANGED vars
  <2>1. jobs' = jobs /\ mode' = mode /\ pool' = pool /\ slots' = slots /\ tenantSlots' = tenantSlots
    BY <1>5 DEF vars
  <2>2. SameJobs
    BY <1>0, <2>1 DEF SameJobs, TypeOK
  <2>3. \A r \in Runners : slots[r] \in Nat /\ \A n \in Tenants : tenantSlots[r][n] \in Nat
    BY <1>0 DEF TypeOK
  <2> QED
    BY <1>0, <2>1, <2>2, <2>3, SameJobsCapacity
<1> QED
  BY <1>1, <1>2, <1>3, <1>4, <1>5 DEF Next

\* While threads can be started under a drain no permit is given back twice; no
\* tenant ever exceeds its share of a runner, and no more jobs run than there are
\* executor threads, through failed claims and starts, shutdowns, crashes and
\* restarts, and however many lease owners there are.
THEOREM CapacityIsKept == Spec => []CapacityKept
<1>1. IInv /\ Staffed => CapacityKept
  <2> SUFFICES ASSUME IInv, Staffed, NEW r \in Runners
               PROVE  /\ mode[r] # "down" /\ ~pool[r].overdrawn =>
                           slots[r] + Cardinality(JobsOf(r)) <= QueueLimit
                      /\ \A n \in Tenants : mode[r] # "down" =>
                           tenantSlots[r][n] + Cardinality(TenantJobsOf(r, n))
                             <= TenantQueueLimit
                      /\ Cardinality(RunningJobs(r)) <= Workers
    BY DEF CapacityKept
  <2>1. Within(r) /\ TypeOK
    BY DEF Staffed, IInv
  <2>2. /\ Cardinality(RunningJobs(r)) \in Nat
        /\ pool[r].threads \in Nat /\ Workers \in Nat /\ pool[r].threads <= Workers
    BY <2>1, PartsOfJobs, FS_CardinalityType, PermitsAreNumbers
  <2> QED
    BY <2>1, <2>2 DEF Within
<1> QED
  BY <1>1, InitCapacity, NextCapacity, IngestionInvariant, PTL DEF Spec

-----------------------------------------------------------------------------
(* The queue implements DurableQueue: every step of the table, the runners  *)
(* and their jobs is a step of the abstract queue or changes nothing the    *)
(* abstract queue sees.                                                     *)

\* The abstract state, by name.
Item == [t \in Tasks |-> QueueState[rows[t].status]]
Holder == [t \in Tasks |-> rows[t].owner]
Durable == Blank \cup {t \in Tasks : effects[t] = Effects}

\* The status of a row names the place of the item.
LEMMA QueueStates ==
  /\ QueueState["absent"] = "none" /\ QueueState["queued"] = "pending"
  /\ QueueState["processing"] = "held" /\ QueueState["failed"] = "dead"
  /\ QueueState["completed"] = "finished" /\ QueueState["deleted"] = "removed"
BY DEF QueueState

\* A step that replaces the row of one task moves one item.
LEMMA MoveItem ==
  ASSUME TypeOK, NEW t \in Tasks, NEW row \in Row, rows' = [rows EXCEPT ![t] = row],
         UNCHANGED effects
  PROVE  /\ Item' = [Item EXCEPT ![t] = QueueState[row.status]]
         /\ Holder' = [Holder EXCEPT ![t] = row.owner]
         /\ Durable' = Durable
BY DEF TypeOK, Item, Holder, Durable

LEMMA InitQueue == Init => Queue!QInit
BY QueueStates, IngestionAssumption DEF Init, Queue!QInit, UnleasedRow

LEMMA RequestQueue ==
  ASSUME IInv, NEW t \in Tasks, Request(t)
  PROVE  Queue!QNext
<1> USE QueueStates
<1>1. UnleasedRow("queued", "due", 0, 0) \in Row /\ UnleasedRow("deleted", "due", 0, 0) \in Row
  BY RowTypes, IngestionAssumption DEF Statuses
<1>2. TypeOK /\ UNCHANGED effects
  BY DEF IInv, Request, CreateTask, RetryTask, RedriveTask, RequeueFailed, DeleteSource
<1>3. CASE CreateTask(t)
  <2>1. Queue!Add(t)
    BY <1>1, <1>2, <1>3, MoveItem
       DEF CreateTask, Queue!Add, Queue!Move, Item, Holder, Durable, UnleasedRow
  <2> QED
    BY <2>1 DEF Queue!QNext
<1>4. CASE RequeueFailed(t)
  <2>1. Queue!Revive(t)
    BY <1>1, <1>2, <1>4, MoveItem
       DEF RequeueFailed, Queue!Revive, Queue!Move, Item, Holder, Durable, UnleasedRow
  <2> QED
    BY <2>1 DEF Queue!QNext
<1>5. CASE DeleteSource(t)
  <2>1. Queue!Remove(t)
    BY <1>1, <1>2, <1>5, MoveItem
       DEF DeleteSource, Queue!Remove, Queue!Move, Item, Holder, Durable, UnleasedRow
  <2> QED
    BY <2>1 DEF Queue!QNext
<1> QED
  BY <1>3, <1>4, <1>5 DEF Request, RetryTask, RedriveTask

LEMMA RequeueQueue ==
  ASSUME IInv, NEW S \in SUBSET Stale, RequeueStale(S)
  PROVE  Queue!QNext
<1> USE QueueStates
<1>1. S \in SUBSET Tasks /\ S # {} /\ UNCHANGED effects
  BY DEF Stale, RequeueStale
<1>2. \A t \in S : rows[t].status = "processing"
  BY DEF Stale
<1>3. \A t \in Tasks : IF t \in S THEN rows'[t].status = "queued" /\ rows'[t].owner = None
                                 ELSE rows'[t] = rows[t]
  BY DEF RequeueStale, UnleasedRow
<1>4. Queue!GiveBack(S)
  BY <1>1, <1>2, <1>3 DEF Queue!GiveBack
<1> QED
  BY <1>1, <1>4 DEF Queue!QNext

LEMMA ClaimQueue ==
  ASSUME IInv, RowClaimed, UNCHANGED effects
  PROVE  Queue!QNext
<1> USE QueueStates
<1>1. PICK t \in Tasks, l \in Leases :
        Claimable(t) /\ Fresh(l) /\ rows' = [rows EXCEPT ![t] = ClaimedRow(t, l)]
  BY DEF RowClaimed
<1>2. ClaimedRow(t, l) \in Row
  <2>1. rows[t] \in Row
    BY DEF IInv, TypeOK
  <2>2. Bump(rows[t].attempts) \in 0 .. MaxAttempts
    BY <2>1, RowTypes DEF Row
  <2> QED
    BY <2>1, <2>2 DEF ClaimedRow, Row, Statuses
<1>3. Queue!Take(t, l)
  BY <1>1, <1>2, MoveItem
     DEF Queue!Take, Queue!Move, Item, Holder, Durable, ClaimedRow, Claimable, Fresh, IInv
<1> QED
  BY <1>3 DEF Queue!QNext

LEMMA SettleQueue ==
  ASSUME IInv, NEW l \in Leases, CompleteTask(l) \/ RetryOrFail(l)
  PROVE  Queue!QNext \/ UNCHANGED Queue!qvars
<1> USE QueueStates
<1>1. PICK t \in Tasks : t = jobs[l].task
  BY DEF IInv, CompleteTask, RetryOrFail, JobsAreAssigned
<1>2. TypeOK /\ UNCHANGED effects
  BY DEF IInv, CompleteTask, RetryOrFail
<1>3. CASE ~Owns(l, t)
  <2>1. UNCHANGED <<rows, effects>>
    BY <1>1, <1>3 DEF CompleteTask, RetryOrFail
  <2> QED
    BY <2>1 DEF Queue!qvars
<1>4. CASE Owns(l, t) /\ CompleteTask(l)
  <2>1. UnleasedRow("completed", "due", 0, 0) \in Row
    BY RowTypes, IngestionAssumption DEF Statuses
  <2>2. t \in Durable
    BY <1>1, <1>2, <1>4, PhaseFacts DEF Durable, CompleteTask, IInv, StagesLeaveEffects, TypeOK
  <2>3. rows' = [rows EXCEPT ![t] = UnleasedRow("completed", "due", 0, 0)]
    BY <1>1, <1>4 DEF CompleteTask
  <2>4. rows[t].status = "processing"
    BY <1>4 DEF Owns
  <2>5. Queue!Finish(t)
    BY <1>1, <1>2, <2>1, <2>2, <2>3, <2>4, MoveItem
       DEF Queue!Finish, Queue!Move, Item, Holder, Durable, UnleasedRow
  <2> QED
    BY <1>1, <1>2, <2>5 DEF Queue!QNext
<1>5. CASE Owns(l, t) /\ RetryOrFail(l)
  <2> DEFINE row == FailedAttemptRow(rows[t].attempts)
  <2>1. row \in Row
    BY <1>1, <1>2, RowTypes DEF TypeOK, Row
  <2>2. rows' = [rows EXCEPT ![t] = row]
    BY <1>1, <1>5 DEF RetryOrFail
  <2>3. rows[t].status = "processing"
    BY <1>5 DEF Owns
  <2>4. row.owner = None /\ row.status \in {"queued", "failed"}
    BY DEF FailedAttemptRow, UnleasedRow
  <2> HIDE DEF row
  <2>5. /\ Item' = [Item EXCEPT ![t] = QueueState[row.status]]
        /\ Holder' = [Holder EXCEPT ![t] = None] /\ Durable' = Durable
    BY <1>1, <1>2, <2>1, <2>2, <2>4, MoveItem
  <2>6. CASE row.status = "failed"
    <3>1. Item' = [Item EXCEPT ![t] = "dead"]
      BY <2>5, <2>6
    <3>2. Item[t] = "held"
      BY <1>1, <2>3 DEF Item
    <3>3. Queue!Bury(t)
      BY <2>5, <3>1, <3>2 DEF Queue!Bury, Queue!Move, Item, Holder, Durable
    <3> QED
      BY <1>1, <3>3 DEF Queue!QNext
  <2>7. CASE row.status = "queued"
    <3> DEFINE S == {t}
    <3>1. \A u \in Tasks : IF u \in S THEN rows'[u].status = "queued" /\ rows'[u].owner = None
                                     ELSE rows'[u] = rows[u]
      BY <1>1, <1>2, <2>2, <2>4, <2>7 DEF TypeOK
    <3>2. S # {} /\ S \in SUBSET Tasks /\ \A u \in S : rows[u].status = "processing"
      BY <1>1, <1>2, <2>3
    <3> HIDE DEF S
    <3>3. Queue!GiveBack(S)
      BY <1>1, <1>2, <3>1, <3>2 DEF Queue!GiveBack
    <3> QED
      BY <3>2, <3>3 DEF Queue!QNext
  <2> QED
    BY <2>4, <2>6, <2>7
<1> QED
  BY <1>3, <1>4, <1>5

LEMMA WorkQueue ==
  ASSUME IInv, NEW l \in Leases, WorkDone(l), UNCHANGED rows
  PROVE  Queue!QNext \/ UNCHANGED Queue!qvars
<1> USE QueueStates
<1>1. PICK t \in Tasks : t = jobs[l].task /\ rows[t].status # "absent" /\ TypeOK
  BY DEF IInv, WorkDone, SummarizeSources, IndexEntities, ArchiveDocuments, PublishVersions,
     SaveCatalog, Change, SaveResolutions, JobsAreAssigned
<1>2. UNCHANGED effects \/ \E e \in Effects : effects' = [effects EXCEPT ![t] = @ \cup {e}]
  BY <1>1 DEF WorkDone, SummarizeSources, IndexEntities, ArchiveDocuments, PublishVersions,
     SaveCatalog, Change, SaveResolutions, Effects
<1>3. \A u \in Tasks : u # t => effects'[u] = effects[u]
  BY <1>1, <1>2 DEF TypeOK
<1>4. effects[t] = Effects => effects'[t] = Effects
  <2>1. \A e \in Effects : Effects \cup {e} = Effects
    OBVIOUS
  <2>2. effects'[t] = effects[t] \/ \E e \in Effects : effects'[t] = effects[t] \cup {e}
    BY <1>1, <1>2 DEF TypeOK
  <2> QED
    BY <2>1, <2>2
<1>5. Durable' = Durable \/ Durable' = Durable \cup {t}
  BY <1>1, <1>3, <1>4 DEF Durable
<1>6. QueueState[rows[t].status] # "none"
  BY <1>1 DEF TypeOK, Row, Statuses
<1>7. CASE Durable' = Durable
  BY <1>7 DEF Queue!qvars, Durable
<1>8. CASE Durable' = Durable \cup {t}
  <2>1. Queue!Deliver(t)
    BY <1>1, <1>6, <1>8 DEF Queue!Deliver, Durable
  <2> QED
    BY <1>1, <2>1 DEF Queue!QNext
<1> QED
  BY <1>5, <1>7, <1>8

LEMMA NextQueue == IInv /\ [Next]_vars => [Queue!QNext]_(Queue!qvars)
<1> SUFFICES ASSUME IInv, [Next]_vars
             PROVE  [Queue!QNext]_(Queue!qvars)
  OBVIOUS
<1>1. CASE RowsTouched /\ UNCHANGED effects
  <2>1. PICK t \in Tasks, row \in Row : SameTask(t, row) /\ rows' = [rows EXCEPT ![t] = row]
    BY <1>1 DEF RowsTouched
  <2>2. \A u \in Tasks : rows'[u].status = rows[u].status /\ rows'[u].owner = rows[u].owner
    BY <2>1 DEF SameTask, IInv, TypeOK
  <2> QED
    BY <1>1, <2>2 DEF Queue!qvars
<1>2. CASE UNCHANGED <<rows, effects>>
  BY <1>2 DEF Queue!qvars
<1> QED
  BY <1>1, <1>2, KindsOfStep, RequestQueue, RequeueQueue, ClaimQueue, SettleQueue, WorkQueue

\* Runners, leases, fences, crashes and retries implement the durable queue.
THEOREM IngestionImplementsQueue == Spec => ImplementsQueue
<1>1. Spec => Queue!QInit /\ [][Queue!QNext]_(Queue!qvars)
  BY InitQueue, NextQueue, IngestionInvariant, PTL DEF Spec
<1> QED
  BY <1>1 DEF ImplementsQueue, Queue!QSpec

=============================================================================

---------------------------- MODULE UploadPipeline ----------------------------
(***************************************************************************)
(* Upload admission and the ingestion queue together.  Both work on the    *)
(* source_tasks table: an upload, a retry or a redrive consumes its        *)
(* reservation and queues the row in one transaction, under the 'upload'   *)
(* row lock, while the runners, the reaper and deletions change rows       *)
(* without that lock and without looking at the reservations.              *)
(*                                                                         *)
(* A step of a handler that creates or requeues a row is a step of both    *)
(* components; every other step is a step of one that leaves the variables *)
(* of the other alone.  UploadAdmission sees of a row only whether it      *)
(* counts as active: that its tasks just leave some time is here a         *)
(* consequence of what IngestionJobs does.                                 *)
(***************************************************************************)
EXTENDS IngestionJobs

CONSTANTS
  Requests, RequestTenant,   \* calls that reserve, and their tenants
  GlobalLimit, TenantLimit   \* limits of the backlog, as in UploadAdmission

ASSUME PipelineAssumption ==
  /\ IsFiniteSet(Tasks)
  /\ Requests \cap Tasks = {} /\ None \notin Requests
  /\ "*" \notin Tenants
  /\ RequestTenant \in [Requests -> Tenants]
  /\ GlobalLimit \in Nat \ {0}
  /\ TenantLimit \in Nat \ {0}

VARIABLES
  req,            \* where each request stands
  reservations,   \* upload_admission_slots
  expiry          \* lease_expires_at of the two rows of each request

admissionVars == <<req, reservations, expiry>>
pipelineVars == <<vars, admissionVars>>

\* ACTIVE_SOURCE_TASK_STATUSES, as the admission counts them.
BacklogState == [absent |-> "none", queued |-> "active", processing |-> "active",
                 failed |-> "failed", completed |-> "none", deleted |-> "none"]

Backlog == [t \in Tasks |-> BacklogState[rows[t].status]]

TenantOfAny ==
  [x \in Requests \cup Tasks |-> IF x \in Tasks THEN TenantOf[x] ELSE RequestTenant[x]]

Admission == INSTANCE UploadAdmission WITH
  TenantOf <- TenantOfAny,
  Nobody   <- None,
  slots    <- reservations,
  lease    <- expiry,
  task     <- Backlog

PipelineInit ==
  /\ Init
  /\ req = [o \in Requests |-> "new"]
  /\ reservations = [x \in Admission!Slots |-> None]
  /\ expiry = [o \in Requests |-> "none"]

-----------------------------------------------------------------------------

\* The transactions of both components.
Upload(o, t) == CreateTask(t) /\ Admission!Consume(o, t)

Retry(o, t) == RetryTask(t) /\ Admission!Consume(o, t)

\* Mutant: the redrive does not pass its reservation on.
RedriveUnpaid(o, t) == RedriveTask(t) /\ UNCHANGED admissionVars

Redrive(o, t) == RedriveTask(t) /\ Admission!Consume(o, t)

\* Steps of a request that leave the tasks alone.
Reserving(o) ==
  /\ UNCHANGED vars
  /\ \/ Admission!Acquire(o) \/ Admission!LoseReservation(o) \/ Admission!Release(o)
     \/ Admission!Vanish(o) \/ Admission!LeaseExpires(o) \/ Admission!NewRequest(o)

\* Steps of runners, jobs and deletions, which know nothing of reservations.
Ingesting ==
  /\ \/ \E t \in Tasks : DeleteSource(t) \/ LeaseExpires(t) \/ BackoffElapses(t)
     \/ Dispatch
     \/ \E l \in Leases : JobStep(l)
     \/ \E r \in Runners : ProcessStep(r)
  /\ UNCHANGED admissionVars

PipelineNext ==
  \/ \E o \in Requests, t \in Tasks : Upload(o, t) \/ Retry(o, t) \/ Redrive(o, t)
  \/ \E o \in Requests : Reserving(o)
  \/ Ingesting

PipelineSpec == PipelineInit /\ [][PipelineNext]_pipelineVars

\* The runners are as fair as in IngestionJobs; nobody need call the API.
PipelineFairSpec == PipelineSpec /\ Recovering

-----------------------------------------------------------------------------
(* Properties.                                                             *)

\* The rows a scope's limit is about, and the places taken in it.
RowsOf(s) ==
  {t \in Tasks : rows[t].status \in {"queued", "processing"} /\ s \in {"*", TenantOf[t]}}
Places(s) == Cardinality(RowsOf(s)) + Cardinality(Admission!Held(s))

\* Through claims, retries, requeues of stale rows, crashes and deletions, rows and
\* reservations of a scope stay below twice its limit.
TableBounded == \A s \in Admission!Scopes : Places(s) <= 2 * Admission!Limit(s) - 1

\* A place in the backlog is taken only by a request that is admitted: nothing a
\* runner, the reaper, a retry or a crash does takes one that was not reserved.
PlacesAreReserved ==
  [][\A s \in Admission!Scopes : Places(s)' > Places(s) =>
       \E o \in Requests : /\ req[o] = "new" /\ req'[o] = "reserved"
                           /\ s \in {"*", RequestTenant[o]}]_pipelineVars

\* The pipeline does to the backlog what UploadAdmission says is done to it.
ImplementsAdmission == Admission!Spec
=============================================================================

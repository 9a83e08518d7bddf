--------------------------- MODULE UploadAdmission ---------------------------
(***************************************************************************)
(* Admission of uploads (rag_core/upload_admission.py and the three        *)
(* handlers of serve.py that use it).  An upload, a retry or a redrive     *)
(* reserves one slot of the global backlog and one of its tenant's, does   *)
(* its work, and turns the reservation into an active source task in one   *)
(* transaction.  What IngestionJobs does with active tasks is seen here    *)
(* only as tasks that stop being active.                                   *)
(*                                                                         *)
(* Acquisitions and conversions hold the 'upload' row lock of              *)
(* admission_locks, so each is one step.  An acquisition that is rejected  *)
(* rolls back, its purge of expired slots included: it is no step.         *)
(***************************************************************************)
EXTENDS Integers, FiniteSets

CONSTANTS
  Requests,      \* calls that reserve, each with a reservation_owner of its own
  Tasks,         \* ids of source_tasks rows
  Tenants, TenantOf,   \* the tenants, and the tenant of each request and task
  GlobalLimit,   \* RAG_INGEST_BACKLOG_LIMIT
  TenantLimit,   \* RAG_INGEST_TENANT_BACKLOG_LIMIT
  Nobody         \* owner of a free slot

ASSUME AdmissionAssumption ==
  /\ IsFiniteSet(Tasks)
  /\ Nobody \notin Requests
  /\ "*" \notin Tenants
  /\ TenantOf \in [Requests \cup Tasks -> Tenants]
  /\ GlobalLimit \in Nat \ {0}
  /\ TenantLimit \in Nat \ {0}

VARIABLES
  req,     \* where each request stands
  slots,   \* reservation_owner of each row of upload_admission_slots
  lease,   \* lease_expires_at of the two rows of each request
  task     \* the source_tasks rows: "none", "active" or "failed"

vars == <<req, slots, lease, task>>

-----------------------------------------------------------------------------

Scopes == {"*"} \cup Tenants

Limit(s) == IF s = "*" THEN GlobalLimit ELSE TenantLimit

\* The keys of the table: a scope and a slot_index, which runs from 0.
Slots ==
  {x \in Scopes \X (0 .. GlobalLimit + TenantLimit) : x[2] < Limit(x[1])}

ScopesOf(x) == {"*", TenantOf[x]}

\* active_source_task_count of a scope, and the slots of a scope that are taken.
Active(s) == {t \in Tasks : task[t] = "active" /\ s \in ScopesOf(t)}
Held(s) == {i \in 0 .. Limit(s) - 1 : slots[<<s, i>>] # Nobody}

SlotsOf(o) == {x \in Slots : slots[x] = o}

\* The table with the slots of the owners in S deleted.
Freed(S) == [x \in Slots |-> IF slots[x] \in S THEN Nobody ELSE slots[x]]

\* Mutant: nothing is purged.
ExpiredUnpurged == {}

Expired == {o \in Requests : lease[o] = "expired"}

\* The two rows a conversion or a release expects to delete.
HasReservation(o) == Cardinality(SlotsOf(o)) = 2

Init ==
  /\ req = [o \in Requests |-> "new"]
  /\ slots = [x \in Slots |-> Nobody]
  /\ lease = [o \in Requests |-> "none"]
  /\ task = [t \in Tasks |-> "none"]

-----------------------------------------------------------------------------

\* Mutant: active tasks are not subtracted.
AvailableInAll(s) == Limit(s)

\* What limit - active_tasks leaves for reservations, and its free slots once
\* the expired ones are gone.
Available(s) == Limit(s) - Cardinality(Active(s))

FreeSlots(s) ==
  {x \in Slots : x[1] = s /\ x[2] < Available(s) /\ Freed(Expired)[x] = Nobody}

FirstFree(s, x) == x \in FreeSlots(s) /\ \A y \in FreeSlots(s) : x[2] <= y[2]

\* The slots in X become o's, and the other expired ones nobody's.
Reserve(o, X) ==
  /\ slots' = [z \in Slots |-> IF z \in X THEN o ELSE Freed(Expired)[z]]
  /\ lease' = [p \in Requests |-> CASE p = o -> "live"
                                    [] p \in Expired -> "none"
                                    [] OTHER -> lease[p]]
  /\ req' = [req EXCEPT ![o] = "reserved"]
  /\ UNCHANGED task

\* acquire_upload_admission_reservation.
Acquire(o) ==
  /\ req[o] = "new"
  /\ \E x, y \in Slots :
       FirstFree("*", x) /\ FirstFree(TenantOf[o], y) /\ Reserve(o, {x, y})

\* Both transactions that consume a reservation: its two rows are deleted and
\* the task is active.
Consume(o, t) ==
  /\ req[o] = "reserved"
  /\ TenantOf[t] = TenantOf[o]
  /\ HasReservation(o)
  /\ task' = [task EXCEPT ![t] = "active"]
  /\ slots' = Freed({o})
  /\ lease' = [lease EXCEPT ![o] = "none"]
  /\ req' = [req EXCEPT ![o] = "done"]

\* create_source_task, with a new id.
CreateTask(o, t) == task[t] = "none" /\ Consume(o, t)

\* retry_failed_source_task, for a user's retry or an administrator's redrive.
RetryTask(o, t) == task[t] = "failed" /\ Consume(o, t)

\* Delete what is left of the reservation, if anything.
GiveUp(o) ==
  /\ slots' = Freed({o})
  /\ lease' = [lease EXCEPT ![o] = "none"]
  /\ req' = [req EXCEPT ![o] = "done"]
  /\ UNCHANGED task

\* UploadReservationLostError: the transaction is rolled back.
LoseReservation(o) == req[o] = "reserved" /\ ~HasReservation(o) /\ GiveUp(o)

\* The file is not saved, or the task cannot be retried: the handler releases.
Release(o) == req[o] = "reserved" /\ GiveUp(o)

\* The process dies, the release raises, or retry_source_ingestion meets an
\* exception it has no handler for: the slots stay until their lease runs out.
Vanish(o) ==
  /\ req[o] = "reserved"
  /\ req' = [req EXCEPT ![o] = "done"]
  /\ UNCHANGED <<slots, lease, task>>

LeaseExpires(o) ==
  /\ lease[o] = "live"
  /\ lease' = [lease EXCEPT ![o] = "expired"]
  /\ UNCHANGED <<req, slots, task>>

\* Another call, with another reservation owner.
NewRequest(o) ==
  /\ req[o] = "done"
  /\ SlotsOf(o) = {}
  /\ req' = [req EXCEPT ![o] = "new"]
  /\ UNCHANGED <<slots, lease, task>>

\* Ingestion ends (completed, deleted or dead-lettered); a failed task is deleted.
TaskLeaves(t) ==
  /\ \/ task[t] = "active" /\ task' = [task EXCEPT ![t] = "none"]
     \/ task[t] = "active" /\ task' = [task EXCEPT ![t] = "failed"]
     \/ task[t] = "failed" /\ task' = [task EXCEPT ![t] = "none"]
  /\ UNCHANGED <<req, slots, lease>>

\* The handler of a request that holds a reservation.
Handle(o) ==
  \/ LoseReservation(o) \/ Release(o) \/ Vanish(o)
  \/ \E t \in Tasks : CreateTask(o, t) \/ RetryTask(o, t)

Next ==
  \/ \E o \in Requests : Acquire(o) \/ Handle(o) \/ LeaseExpires(o) \/ NewRequest(o)
  \/ \E t \in Tasks : TaskLeaves(t)

Spec == Init /\ [][Next]_vars

\* Handlers end, leases run out and tasks leave the backlog; a rejected client
\* calls again, and is served if a slot is free for it again and again.
Fairness ==
  /\ \A o \in Requests : WF_vars(Handle(o)) /\ WF_vars(LeaseExpires(o)) /\ SF_vars(Acquire(o))
  /\ \A t \in Tasks : WF_vars(task[t] = "active" /\ TaskLeaves(t))

FairSpec == Spec /\ Fairness

-----------------------------------------------------------------------------

\* Slots belong to requests, and a lease is kept for each request.
TypeOK ==
  /\ req \in [Requests -> {"new", "reserved", "done"}]
  /\ slots \in [Slots -> Requests \cup {Nobody}]
  /\ lease \in [Requests -> {"none", "live", "expired"}]
  /\ task \in [Tasks -> {"none", "active", "failed"}]

\* A request holds nothing, or exactly one slot of the global backlog and one of
\* its tenant's: what lets a conversion decide by counting two deleted rows.
PairedSlots ==
  \A o \in Requests :
    \/ SlotsOf(o) = {} /\ lease[o] = "none"
    \/ /\ lease[o] # "none"
       /\ \E x, y \in Slots : x[1] = "*" /\ y[1] = TenantOf[o] /\ SlotsOf(o) = {x, y}

\* The bound the code really keeps: tasks and reservations of a scope together
\* stay below twice its limit.
BacklogBounded ==
  \A s \in Scopes : Cardinality(Active(s)) + Cardinality(Held(s)) <= 2 * Limit(s) - 1

\* A task that enters the backlog replaces a reservation in each of its scopes.
Paid(t) ==
  task[t] # "active" /\ task'[t] = "active" =>
    \A s \in ScopesOf(t) : Cardinality(Held(s)') = Cardinality(Held(s)) - 1

ConversionIsPaid == [][\A t \in Tasks : Paid(t)]_vars

\* Reservations of requests that died do not block the backlog for ever: a client
\* that keeps asking is admitted.
EveryRequestAdmitted == \A o \in Requests : req[o] = "new" ~> req[o] # "new"

\* The indexes a live lease keeps, and the scopes whose tasks and live reservations
\* together reach the limit.
LiveSlots(s) ==
  {i \in 0 .. Limit(s) - 1 : \E o \in Requests : slots[<<s, i>>] = o /\ lease[o] = "live"}
Full(s) == Cardinality(Active(s)) + Cardinality(LiveSlots(s)) >= Limit(s)

\* Nobody is turned away but at a limit: wherever in the table earlier reservations
\* have left their holes, and whatever slots dead requests still hold, a scope that is
\* not full has a free index below limit - active_tasks.
RejectedOnlyIfFull ==
  \A o \in Requests :
    \/ \E x, y \in Slots : FirstFree("*", x) /\ FirstFree(TenantOf[o], y)
    \/ \E s \in ScopesOf(o) : Full(s)

\* What the name of the limits says: no scope has more active tasks than its
\* backlog limit.
BacklogLimitKept == \A s \in Scopes : Cardinality(Active(s)) <= Limit(s)

\* A call that has not reserved yet holds nothing.
FreshRequests == \A o \in Requests : req[o] = "new" => lease[o] = "none"

\* The inductive invariant.
IInv == TypeOK /\ PairedSlots /\ FreshRequests /\ BacklogBounded
=============================================================================

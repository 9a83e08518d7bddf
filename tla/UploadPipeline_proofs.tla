------------------------ MODULE UploadPipeline_proofs ------------------------
(***************************************************************************)
(* Proofs about UploadPipeline: the pipeline runs both components as they  *)
(* are specified, so that each keeps what was proved of it alone, and the  *)
(* bounds on the backlog hold for the tasks IngestionJobs really has.      *)
(***************************************************************************)
EXTENDS UploadPipeline, IngestionJobs_proofs

AdmissionProofs == INSTANCE UploadAdmission_proofs WITH
  TenantOf <- TenantOfAny,
  Nobody   <- None,
  slots    <- reservations,
  lease    <- expiry,
  task     <- Backlog

\* The constants of the pipeline are constants UploadAdmission allows.
LEMMA PipelineConstants ==
  /\ IsFiniteSet(Tasks)
  /\ None \notin Requests
  /\ "*" \notin Tenants
  /\ TenantOfAny \in [Requests \cup Tasks -> Tenants]
  /\ GlobalLimit \in Nat \ {0}
  /\ TenantLimit \in Nat \ {0}
BY PipelineAssumption, IngestionAssumption DEF TenantOfAny

\* The status of a row names what the admission sees of it.
LEMMA BacklogStates ==
  /\ BacklogState["absent"] = "none" /\ BacklogState["queued"] = "active"
  /\ BacklogState["processing"] = "active" /\ BacklogState["failed"] = "failed"
  /\ BacklogState["completed"] = "none" /\ BacklogState["deleted"] = "none"
BY DEF BacklogState

\* A step that replaces the row of one task moves one task of the backlog.
LEMMA MoveTask ==
  ASSUME TypeOK, NEW t \in Tasks, NEW row \in Row, rows' = [rows EXCEPT ![t] = row]
  PROVE  Backlog' = [Backlog EXCEPT ![t] = BacklogState[row.status]]
BY DEF TypeOK, Backlog

LEMMA SameBacklog ==
  ASSUME \A t \in Tasks : BacklogState[rows'[t].status] = BacklogState[rows[t].status]
  PROVE  Backlog' = Backlog
BY DEF Backlog

-----------------------------------------------------------------------------
(* Every step of the pipeline is a step of the ingestion queue.             *)

LEMMA PipelineStepIsJobStep == [PipelineNext]_pipelineVars => [Next]_vars
<1> SUFFICES ASSUME [PipelineNext]_pipelineVars
             PROVE  [Next]_vars
  OBVIOUS
<1>1. ASSUME NEW o \in Requests, NEW t \in Tasks, Upload(o, t) \/ Retry(o, t) \/ Redrive(o, t)
      PROVE  Next
  BY <1>1 DEF Upload, Retry, Redrive, Next, Request
<1>2. ASSUME NEW o \in Requests, Reserving(o)
      PROVE  UNCHANGED vars
  BY <1>2 DEF Reserving
<1>3. CASE Ingesting
  BY <1>3 DEF Ingesting, Next, Request
<1>4. CASE UNCHANGED pipelineVars
  BY <1>4 DEF pipelineVars
<1> QED
  BY <1>1, <1>2, <1>3, <1>4 DEF PipelineNext

\* The pipeline runs the queue: all that is proved of IngestionJobs holds in it.
THEOREM PipelineRunsTheQueue == PipelineSpec => Spec
<1>1. PipelineInit => Init
  BY DEF PipelineInit
<1> QED
  BY <1>1, PipelineStepIsJobStep, PTL DEF PipelineSpec, Spec

LEMMA PipelineIngestionInvariant == PipelineSpec => []IInv
BY PipelineRunsTheQueue, IngestionInvariant, PTL

-----------------------------------------------------------------------------
(* Every step of the pipeline is a step of the admission.                   *)

LEMMA InitAdmission == PipelineInit => Admission!Init
BY BacklogStates DEF PipelineInit, Init, Admission!Init, Backlog, UnleasedRow

\* Rows that jobs, reapers and deletions change leave the backlog or stay in it.
LEMMA IngestingIsLeaving ==
  ASSUME IInv, Ingesting
  PROVE  Admission!Next \/ UNCHANGED Admission!vars
<1> USE BacklogStates
<1>1. TypeOK /\ UNCHANGED <<req, reservations, expiry>> /\ [Next]_vars
  BY DEF IInv, Ingesting, admissionVars, Next, Request
<1>2. ASSUME NEW t \in Tasks, NEW row \in Row, rows' = [rows EXCEPT ![t] = row],
             \/ rows[t].status \in {"queued", "processing", "failed"}
                /\ row.status \in {"completed", "deleted"}
             \/ rows[t].status = "processing" /\ row.status \in {"queued", "failed"}
      PROVE  Admission!Next \/ UNCHANGED Admission!vars
  <2> DEFINE old == BacklogState[rows[t].status]
             new == BacklogState[row.status]
  <2>1. Backlog' = [Backlog EXCEPT ![t] = new]
    BY <1>1, <1>2, MoveTask
  <2>2. Backlog = [Backlog EXCEPT ![t] = old] /\ Backlog[t] = old
    BY DEF Backlog
  <2>3. \/ old = "active" /\ new \in {"none", "failed", "active"}
        \/ old = "failed" /\ new = "none"
    BY <1>2
  <2> HIDE DEF old, new
  <2>4. CASE old = new
    <3>1. Backlog' = Backlog
      BY <2>1, <2>2, <2>4
    <3> QED
      BY <1>1, <3>1 DEF Admission!vars
  <2>5. CASE old # new
    <3>1. Admission!TaskLeaves(t)
      BY <1>1, <2>1, <2>2, <2>3, <2>5 DEF Admission!TaskLeaves
    <3> QED
      BY <3>1 DEF Admission!Next
  <2> QED
    BY <2>4, <2>5
<1>3. ASSUME \A t \in Tasks : BacklogState[rows'[t].status] = BacklogState[rows[t].status]
      PROVE  UNCHANGED Admission!vars
  BY <1>1, <1>3, SameBacklog DEF Admission!vars
<1>4. ASSUME NEW t \in Tasks, DeleteSource(t)
      PROVE  Admission!Next \/ UNCHANGED Admission!vars
  <2>1. UnleasedRow("deleted", "due", 0, 0) \in Row
    BY RowTypes, IngestionAssumption DEF Statuses
  <2>2. UnleasedRow("deleted", "due", 0, 0).status = "deleted"
    BY DEF UnleasedRow
  <2> QED
    BY <1>2, <1>4, <2>1, <2>2 DEF DeleteSource
<1>5. ASSUME NEW l \in Leases, CompleteTask(l) \/ RetryOrFail(l)
      PROVE  Admission!Next \/ UNCHANGED Admission!vars
  <2>1. PICK t \in Tasks : t = jobs[l].task
    BY <1>5 DEF IInv, CompleteTask, RetryOrFail, JobsAreAssigned
  <2> DEFINE row == IF CompleteTask(l) THEN UnleasedRow("completed", "due", 0, 0)
                                       ELSE FailedAttemptRow(rows[t].attempts)
  <2>2. row \in Row /\ row.status \in {"completed", "queued", "failed"}
    BY <1>1, <2>1, RowTypes, IngestionAssumption
       DEF Statuses, TypeOK, Row, UnleasedRow, FailedAttemptRow
  <2>3. rows' = rows \/ (Owns(l, t) /\ rows' = [rows EXCEPT ![t] = row])
    BY <1>5, <2>1 DEF CompleteTask, RetryOrFail
  <2>4. Owns(l, t) => rows[t].status = "processing"
    BY DEF Owns
  <2> HIDE DEF row
  <2> QED
    BY <1>2, <1>3, <2>2, <2>3, <2>4
<1>6. ASSUME RowsTouched \/ RowClaimed \/ \E S \in SUBSET Stale : RequeueStale(S)
      PROVE  UNCHANGED Admission!vars
  <2>1. CASE RowsTouched
    BY <1>1, <1>3, <2>1 DEF RowsTouched, SameTask, TypeOK
  <2>2. CASE RowClaimed
    BY <1>1, <1>3, <2>2 DEF RowClaimed, Claimable, ClaimedRow, TypeOK
  <2>3. CASE \E S \in SUBSET Stale : RequeueStale(S)
    BY <1>3, <2>3 DEF RequeueStale, Stale, UnleasedRow
  <2> QED
    BY <1>6, <2>1, <2>2, <2>3
<1>7. UNCHANGED rows => UNCHANGED Admission!vars
  BY <1>3
<1>8. CASE \E t \in Tasks : DeleteSource(t)
  BY <1>4, <1>8
<1>9. CASE Unasked
  BY <1>5, <1>6, <1>7, <1>9, KindsOfWork
<1> QED
  BY <1>8, <1>9 DEF Ingesting, Unasked

\* A conversion changes the row and spends the reservation in one step of both.
LEMMA TransactionIsConversion ==
  ASSUME IInv, NEW o \in Requests, NEW t \in Tasks,
         Upload(o, t) \/ Retry(o, t) \/ Redrive(o, t)
  PROVE  Admission!Next
<1> USE BacklogStates
<1>1. CASE CreateTask(t) /\ Admission!Consume(o, t)
  <2>1. Backlog[t] = "none"
    BY <1>1 DEF CreateTask, Backlog
  <2> QED
    BY <1>1, <2>1 DEF Admission!CreateTask, Admission!Handle, Admission!Next
<1>2. CASE RequeueFailed(t) /\ Admission!Consume(o, t)
  <2>1. Backlog[t] = "failed"
    BY <1>2 DEF RequeueFailed, Backlog
  <2> QED
    BY <1>2, <2>1 DEF Admission!RetryTask, Admission!Handle, Admission!Next
<1> QED
  BY <1>1, <1>2 DEF Upload, Retry, Redrive, RetryTask, RedriveTask

LEMMA PipelineStepIsAdmissionStep ==
  IInv /\ [PipelineNext]_pipelineVars => [Admission!Next]_(Admission!vars)
<1> SUFFICES ASSUME IInv, [PipelineNext]_pipelineVars
             PROVE  [Admission!Next]_(Admission!vars)
  OBVIOUS
<1>1. ASSUME NEW o \in Requests, Reserving(o)
      PROVE  Admission!Next
  BY <1>1 DEF Reserving, Admission!Handle, Admission!Next
<1>2. CASE UNCHANGED pipelineVars
  BY <1>2 DEF pipelineVars, admissionVars, vars, Backlog, Admission!vars
<1> QED
  BY <1>1, <1>2, IngestingIsLeaving, TransactionIsConversion DEF PipelineNext

\* What runners, reapers, retries and deletions do to the table is what the admission
\* was proved to cope with.
THEOREM PipelineImplementsAdmission == PipelineSpec => ImplementsAdmission
<1> QED
  BY InitAdmission, PipelineStepIsAdmissionStep, PipelineIngestionInvariant, PTL
     DEF PipelineSpec, ImplementsAdmission, Admission!Spec

-----------------------------------------------------------------------------
(* What was proved of UploadAdmission is true of the pipeline.              *)

\* AdmissionProofs is the same instance, with theorems.
LEMMA SameCounting == \A S : Admission!Cardinality(S) = AdmissionProofs!Cardinality(S)
BY DEF Admission!Cardinality, AdmissionProofs!Cardinality

LEMMA SameAdmission ==
  /\ Admission!Init <=> AdmissionProofs!Init
  /\ [Admission!Next]_(Admission!vars) <=> [AdmissionProofs!Next]_(AdmissionProofs!vars)
<1>1. Admission!Init <=> AdmissionProofs!Init
  BY DEF Admission!Init, AdmissionProofs!Init, Admission!Slots, AdmissionProofs!Slots,
       Admission!Scopes, AdmissionProofs!Scopes, Admission!Limit,
       AdmissionProofs!Limit
<1>2. ASSUME NEW o
      PROVE  Admission!Acquire(o) <=> AdmissionProofs!Acquire(o)
  BY SameCounting
   DEF Admission!Scopes, AdmissionProofs!Scopes, Admission!Limit,
       AdmissionProofs!Limit, Admission!Slots, AdmissionProofs!Slots,
       Admission!ScopesOf, AdmissionProofs!ScopesOf, Admission!Active,
       AdmissionProofs!Active, Admission!SlotsOf, AdmissionProofs!SlotsOf,
       Admission!Freed, AdmissionProofs!Freed, Admission!Expired,
       AdmissionProofs!Expired, Admission!Available, AdmissionProofs!Available,
       Admission!FreeSlots, AdmissionProofs!FreeSlots, Admission!FirstFree,
       AdmissionProofs!FirstFree, Admission!Acquire, AdmissionProofs!Acquire,
       Admission!Reserve, AdmissionProofs!Reserve
<1>3. ASSUME NEW o
      PROVE  Admission!Handle(o) <=> AdmissionProofs!Handle(o)
  BY SameCounting
   DEF Admission!Scopes, AdmissionProofs!Scopes, Admission!Limit,
       AdmissionProofs!Limit, Admission!Slots, AdmissionProofs!Slots,
       Admission!SlotsOf, AdmissionProofs!SlotsOf, Admission!Freed,
       AdmissionProofs!Freed, Admission!HasReservation,
       AdmissionProofs!HasReservation, Admission!Consume, AdmissionProofs!Consume,
       Admission!CreateTask, AdmissionProofs!CreateTask, Admission!RetryTask,
       AdmissionProofs!RetryTask, Admission!GiveUp, AdmissionProofs!GiveUp,
       Admission!LoseReservation, AdmissionProofs!LoseReservation,
       Admission!Release, AdmissionProofs!Release, Admission!Vanish,
       AdmissionProofs!Vanish, Admission!Handle, AdmissionProofs!Handle
<1>4. ASSUME NEW o
      PROVE  /\ Admission!LeaseExpires(o) <=> AdmissionProofs!LeaseExpires(o)
             /\ Admission!NewRequest(o) <=> AdmissionProofs!NewRequest(o)
  BY DEF Admission!Scopes, AdmissionProofs!Scopes, Admission!Limit,
       AdmissionProofs!Limit, Admission!Slots, AdmissionProofs!Slots,
       Admission!SlotsOf, AdmissionProofs!SlotsOf, Admission!LeaseExpires,
       AdmissionProofs!LeaseExpires, Admission!NewRequest,
       AdmissionProofs!NewRequest
<1>5. Admission!Next <=> AdmissionProofs!Next
  BY <1>2, <1>3, <1>4 DEF Admission!Next, AdmissionProofs!Next, Admission!TaskLeaves, AdmissionProofs!TaskLeaves
<1> QED
  BY <1>1, <1>5 DEF Admission!vars, AdmissionProofs!vars

LEMMA SameSpec == PipelineSpec => AdmissionProofs!Spec
BY InitAdmission, PipelineStepIsAdmissionStep, PipelineIngestionInvariant, SameAdmission, PTL
   DEF PipelineSpec, AdmissionProofs!Spec

LEMMA SameFinite ==
  \A S : /\ AdmissionProofs!IsFiniteSet(S) <=> IsFiniteSet(S)
         /\ AdmissionProofs!Cardinality(S) = Cardinality(S)
BY DEF AdmissionProofs!IsFiniteSet, IsFiniteSet, AdmissionProofs!Cardinality, Cardinality

LEMMA PipelineAdmissionInvariant == PipelineSpec => []AdmissionProofs!IInv
<1>1. AdmissionProofs!Spec => []AdmissionProofs!IInv
  BY PipelineConstants, SameFinite, AdmissionProofs!AdmissionInvariant
<1> QED
  BY <1>1, SameSpec, PTL

\* The places of a scope are those the admission counts.
SamePlaces ==
  \A s \in Admission!Scopes :
    Places(s) = AdmissionProofs!Cardinality(AdmissionProofs!Active(s))
              + AdmissionProofs!Cardinality(AdmissionProofs!Held(s))

LEMMA PlacesAre == TypeOK => SamePlaces
<1> SUFFICES ASSUME TypeOK, NEW s \in Admission!Scopes
             PROVE  /\ RowsOf(s) = AdmissionProofs!Active(s)
                    /\ Admission!Held(s) = AdmissionProofs!Held(s)
  BY SameFinite DEF SamePlaces, Places
<1>1. \A t \in Tasks : rows[t].status \in {"queued", "processing"} <=> Backlog[t] = "active"
  BY BacklogStates DEF TypeOK, Row, Statuses, Backlog
<1>2. \A t \in Tasks : AdmissionProofs!ScopesOf(t) = {"*", TenantOf[t]}
  BY DEF AdmissionProofs!ScopesOf, TenantOfAny
<1>3. RowsOf(s) = AdmissionProofs!Active(s)
  BY <1>1, <1>2 DEF RowsOf, AdmissionProofs!Active
<1>4. Admission!Held(s) = AdmissionProofs!Held(s)
  BY DEF Admission!Held, AdmissionProofs!Held, Admission!Limit, AdmissionProofs!Limit
<1> QED
  BY <1>3, <1>4

LEMMA SameScopes ==
  /\ Admission!Scopes = AdmissionProofs!Scopes
  /\ \A s : Admission!Limit(s) = AdmissionProofs!Limit(s)
BY DEF Admission!Scopes, AdmissionProofs!Scopes, Admission!Limit, AdmissionProofs!Limit

\* Through claims, crashes, requeues and retries, the rows and reservations of a scope
\* stay below twice its limit.
THEOREM TableIsBounded == PipelineSpec => []TableBounded
<1>1. TypeOK /\ AdmissionProofs!IInv => TableBounded
  BY PlacesAre, SameScopes
     DEF SamePlaces, TableBounded, AdmissionProofs!IInv, AdmissionProofs!BacklogBounded
<1>2. IInv => TypeOK
  BY DEF IInv
<1> QED
  BY <1>1, <1>2, PipelineIngestionInvariant, PipelineAdmissionInvariant, PTL

\* Nothing a runner, the reaper, a retry or a crash does takes a place in the backlog
\* that no request has reserved.
THEOREM PlacesAreAlwaysReserved == PipelineSpec => PlacesAreReserved
<1>1. ASSUME SamePlaces, SamePlaces', AdmissionProofs!IInv,
             [AdmissionProofs!Next]_(AdmissionProofs!vars), NEW s \in Admission!Scopes,
             Places(s)' > Places(s)
      PROVE  \E o \in Requests : /\ req[o] = "new" /\ req'[o] = "reserved"
                                 /\ s \in {"*", RequestTenant[o]}
  <2> SUFFICES ASSUME \A o \in Requests : req[o] = "new" /\ req'[o] = "reserved" =>
                                             s \notin {"*", RequestTenant[o]}
               PROVE  FALSE
    OBVIOUS
  <2> DEFINE active == AdmissionProofs!Active(s)
             held == AdmissionProofs!Held(s)
  <2>1. s \in AdmissionProofs!Scopes /\ s' = s
    BY SameScopes
  <2>2. \A o \in Requests : AdmissionProofs!ScopesOf(o) = {"*", RequestTenant[o]}
    BY PipelineAssumption DEF AdmissionProofs!ScopesOf, TenantOfAny
  <2>3. AdmissionProofs!Cardinality(active') + AdmissionProofs!Cardinality(held')
          <= AdmissionProofs!Cardinality(active) + AdmissionProofs!Cardinality(held)
    BY <1>1, <2>1, <2>2, PipelineConstants, SameFinite, AdmissionProofs!PlacesOnlyReserved
  <2>4. /\ Places(s) = Cardinality(active) + Cardinality(held)
        /\ Places(s)' = Cardinality(active') + Cardinality(held')
    BY <1>1, SameFinite DEF SamePlaces
  <2>5. /\ Cardinality(active) \in Nat /\ Cardinality(held) \in Nat
        /\ Cardinality(active') \in Nat /\ Cardinality(held') \in Nat
    BY <2>1, PipelineConstants, SameFinite, AdmissionProofs!Counts, AdmissionProofs!CountsAfter
  <2> HIDE DEF active, held
  <2> QED
    BY <1>1, <2>3, <2>4, <2>5, SameFinite
<1>2. SamePlaces /\ SamePlaces' /\ AdmissionProofs!IInv
      /\ [AdmissionProofs!Next]_(AdmissionProofs!vars)
      => [\A s \in Admission!Scopes : Places(s)' > Places(s) =>
            \E o \in Requests : /\ req[o] = "new" /\ req'[o] = "reserved"
                                /\ s \in {"*", RequestTenant[o]}]_pipelineVars
  BY <1>1
<1>3. IInv => SamePlaces
  BY PlacesAre DEF IInv
<1> QED
  BY <1>2, <1>3, SameSpec, PipelineIngestionInvariant, PipelineAdmissionInvariant, PTL
     DEF PlacesAreReserved, PipelineSpec, AdmissionProofs!Spec
=============================================================================

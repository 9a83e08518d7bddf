---------------------------- MODULE QueryStreams ----------------------------
(***************************************************************************)
(* Admission and delivery of streamed queries: query_stream in serve.py    *)
(* and rag_core/query_admission.py.  A call takes one permit of its API    *)
(* process in each of its scopes (global, tenant, user), then a lease on   *)
(* one slot per scope in the database, which all processes share, and      *)
(* hands both to a job of the process's thread pool.  The job sends events *)
(* through a bounded queue to the generator that feeds the client.         *)
(*                                                                         *)
(* Three threads act for a call: its handler, which becomes its generator  *)
(* (phase), its job, and the guard that renews the lease.  All slots of a  *)
(* call are inserted, renewed, purged and deleted by one transaction with  *)
(* one expiry, so they are one lease, "fresh" or "due" for renewal while   *)
(* it lives.  What the job computes, and under which query result, is      *)
(* module QueryResults; here it reports stages and ends in a verdict.      *)
(* Shared admission is enabled, as it is by default.                       *)
(***************************************************************************)
EXTENDS Naturals, Sequences, FiniteSets

CONSTANTS
  Calls, Procs, ProcOf,     \* calls of query_stream; API processes; who serves whom
  Scopes, ScopesOf, Limit,  \* scopes; those of a call, in order; capacity of each
  Replays,     \* calls that repeat a request whose answer is saved
  Workers,     \* RAG_QUERY_STREAM_WORKERS
  EventLimit,  \* RAG_QUERY_STREAM_EVENT_QUEUE_LIMIT
  Faults,      \* "thread": no thread can be started; "release": a lease cannot be deleted
  MaxStages,   \* bound: stages a job reports
  MaxCrashes   \* bound: crashes of processes

ASSUME StreamAssumption ==
  /\ IsFiniteSet(Calls)
  /\ ProcOf \in [Calls -> Procs]
  /\ ScopesOf \in [Calls -> Seq(Scopes)]
  /\ \A c \in Calls : \A i, j \in 1 .. Len(ScopesOf[c]) :
       ScopesOf[c][i] = ScopesOf[c][j] => i = j
  /\ Limit \in [Scopes -> Nat \ {0}]
  /\ Replays \subseteq Calls
  /\ Faults \subseteq {"thread", "release"}
  /\ {Workers, EventLimit} \subseteq Nat \ {0}
  /\ {MaxStages, MaxCrashes} \subseteq Nat

VARIABLES
  phase,    \* where the handler, later the generator, of a call stands
  taken,    \* how many permits the handler answers for
  permits,  \* the semaphores of each process
  lease,    \* the call's rows of query_admission_slots
  guard,    \* the thread that renews them
  job,      \* where run_query stands
  due,      \* how many permits the job has yet to give back
  queue,    \* event_queue
  stages,   \* stages the job has reported
  last,     \* the last event the client was sent
  crashes,  \* history: crashes so far
  starved   \* history: a thread could not be started

vars == <<phase, taken, permits, lease, guard, job, due, queue, stages, last, crashes, starved>>
local == <<taken, permits>>
shared == <<lease, guard>>
work == <<job, due, stages>>
stream == <<queue, last>>
history == <<crashes, starved>>

Phases == {"entering", "guarding", "rating", "accepted", "refusing", "unwinding", "refused",
           "failing", "returning", "telling", "ending", "pulling", "suspended",
           "finished", "gone", "abandoned", "broken", "dead"}
Leases == {"none", "fresh", "due", "expired"}
Guards == {"none", "renewing", "lost", "stopped"}
Jobs == {"none", "queued", "running", "answering", "erroring", "doomed", "closing",
         "releasing", "done", "broken", "dead"}
Events == {"stage", "result", "error", "end"}

Init ==
  /\ phase = [c \in Calls |-> "entering"]
  /\ taken = [c \in Calls |-> 0]
  /\ permits = [p \in Procs |-> Limit]
  /\ lease = [c \in Calls |-> "none"]
  /\ guard = [c \in Calls |-> "none"]
  /\ job = [c \in Calls |-> "none"]
  /\ due = [c \in Calls |-> 0]
  /\ queue = [c \in Calls |-> <<>>]
  /\ stages = [c \in Calls |-> 0]
  /\ last = [c \in Calls |-> "none"]
  /\ crashes = 0
  /\ starved = FALSE

Goto(c, p) == phase' = [phase EXCEPT ![c] = p]
JobGoto(c, j) == job' = [job EXCEPT ![c] = j]

-----------------------------------------------------------------------------
(* Admission: the permits of the process.                                  *)

Arity(c) == Len(ScopesOf[c])
ScopeSet(c) == {ScopesOf[c][i] : i \in 1 .. Arity(c)}
Free(c, i) == permits[ProcOf[c]][ScopesOf[c][i]]

\* BoundedSemaphore.acquire(blocking=False).
TakePermit(c) ==
  /\ phase[c] = "entering"
  /\ taken[c] < Arity(c)
  /\ Free(c, taken[c] + 1) > 0
  /\ permits' = [permits EXCEPT ![ProcOf[c]][ScopesOf[c][taken[c] + 1]] = @ - 1]
  /\ taken' = [taken EXCEPT ![c] = @ + 1]
  /\ UNCHANGED <<phase, shared, work, stream, history>>

\* Mutant: the refusal gives back the permit it was refused, too.
FindOneMore(c) ==
  /\ phase[c] = "entering"
  /\ taken[c] < Arity(c)
  /\ Free(c, taken[c] + 1) = 0
  /\ taken' = [taken EXCEPT ![c] = @ + 1]
  /\ Goto(c, "unwinding")
  /\ UNCHANGED <<permits, shared, work, stream, history>>

FindNoPermit(c) ==
  /\ phase[c] = "entering"
  /\ taken[c] < Arity(c)
  /\ Free(c, taken[c] + 1) = 0
  /\ Goto(c, "unwinding")
  /\ UNCHANGED <<local, shared, work, stream, history>>

\* BoundedSemaphore.release of the call's i-th scope, inner scopes first.
GiveBack(c, i) ==
  /\ Free(c, i) < Limit[ScopesOf[c][i]]
  /\ permits' = [permits EXCEPT ![ProcOf[c]][ScopesOf[c][i]] = @ + 1]

Unwind(c) ==
  /\ phase[c] \in {"unwinding", "returning"}
  /\ taken[c] > 0
  /\ GiveBack(c, taken[c])
  /\ taken' = [taken EXCEPT ![c] = @ - 1]
  /\ UNCHANGED <<phase, shared, work, stream, history>>

\* The response is sent, or the generator goes on to tell of the failure.
Unwound(c) ==
  /\ phase[c] \in {"unwinding", "returning"}
  /\ taken[c] = 0
  /\ Goto(c, IF phase[c] = "unwinding" THEN "refused" ELSE "telling")
  /\ UNCHANGED <<local, shared, work, stream, history>>

-----------------------------------------------------------------------------
(* Admission: the lease and its guard.                                     *)

Live(c) == lease[c] \in {"fresh", "due"}
LiveIn(s) == {d \in Calls : Live(d) /\ s \in ScopeSet(d)}

\* Mutant: only the global scope is claimed.
RoomOutside(c) == Cardinality(LiveIn(ScopesOf[c][1])) < Limit[ScopesOf[c][1]]

\* claim_scope_slot finds a slot in each scope, once expired ones are purged.
RoomFor(c) == \A s \in ScopeSet(c) : Cardinality(LiveIn(s)) < Limit[s]

Purged == [d \in Calls |-> IF lease[d] = "expired" THEN "none" ELSE lease[d]]

AcquireLease(c) ==
  /\ phase[c] = "entering"
  /\ taken[c] = Arity(c)
  /\ RoomFor(c)
  /\ lease' = [Purged EXCEPT ![c] = "fresh"]
  /\ Goto(c, "guarding")
  /\ UNCHANGED <<local, guard, work, stream, history>>

\* QueryAdmissionRejected, or the database raises; either way a rollback.
LeaseRefused(c) ==
  /\ phase[c] = "entering"
  /\ taken[c] = Arity(c)
  /\ Goto(c, "unwinding")
  /\ UNCHANGED <<local, shared, work, stream, history>>

StartGuard(c) ==
  /\ phase[c] = "guarding"
  /\ guard' = [guard EXCEPT ![c] = "renewing"]
  /\ Goto(c, "rating")
  /\ UNCHANGED <<local, lease, work, stream, history>>

\* start() raises, and so does close(), which joins a thread never started: the
\* releases that follow it in the handler are not reached.
GuardStartFails(c) ==
  /\ "thread" \in Faults
  /\ phase[c] = "guarding"
  /\ Goto(c, "broken")
  /\ starved' = TRUE
  /\ UNCHANGED <<local, shared, work, stream, crashes>>

\* QueryAdmissionLeaseGuard.close: an exception of the deletion is swallowed.
CloseGuard(c) ==
  /\ guard' = [guard EXCEPT ![c] = IF @ = "renewing" THEN "stopped" ELSE @]
  /\ \/ lease' = [lease EXCEPT ![c] = "none"]
     \/ "release" \in Faults /\ UNCHANGED lease

\* The rate limit is off, passed, or bypassed by a replay.
RateAccepts(c) ==
  /\ phase[c] = "rating"
  /\ Goto(c, "accepted")
  /\ UNCHANGED <<local, shared, work, stream, history>>

RateRefuses(c) ==
  /\ phase[c] = "rating"
  /\ Goto(c, "refusing")
  /\ UNCHANGED <<local, shared, work, stream, history>>

\* A refusal by the rate limit, or an executor that took no job, gives up the lease.
GiveUpLease(c) ==
  /\ phase[c] \in {"refusing", "failing"}
  /\ CloseGuard(c)
  /\ Goto(c, IF phase[c] = "refusing" THEN "unwinding" ELSE "returning")
  /\ UNCHANGED <<local, work, stream, history>>

-----------------------------------------------------------------------------
(* The events of a stream, and its generator.                              *)

\* client_disconnected is set: the generator has run its finally clause.
Disconnected(c) == phase[c] \in {"finished", "gone"}

\* Mutant: an event is lost if the queue is full (put_nowait).
PutOrDrop(c, e) ==
  queue' = IF Disconnected(c) \/ Len(queue[c]) >= EventLimit
             THEN queue ELSE [queue EXCEPT ![c] = Append(@, e)]

\* Mutant: the put does not look at client_disconnected.
PutStubborn(c, e) ==
  /\ Len(queue[c]) < EventLimit
  /\ queue' = [queue EXCEPT ![c] = Append(@, e)]

\* enqueue_event: tries until the queue has room or the client is gone.
Put(c, e) ==
  \/ Disconnected(c) /\ UNCHANGED queue
  \/ /\ ~Disconnected(c)
     /\ Len(queue[c]) < EventLimit
     /\ queue' = [queue EXCEPT ![c] = Append(@, e)]

Submit(c) ==
  /\ phase[c] = "accepted"
  /\ Goto(c, "pulling")
  /\ JobGoto(c, "queued")
  /\ taken' = [taken EXCEPT ![c] = 0]
  /\ due' = [due EXCEPT ![c] = taken[c]]
  /\ UNCHANGED <<permits, shared, stages, stream, history>>

\* submit raises.  ThreadPoolExecutor queues the job before it starts a thread,
\* so if that is what failed, a thread it already has will run the job.
SubmitFails(c) ==
  /\ phase[c] = "accepted"
  /\ Goto(c, "failing")
  /\ \/ UNCHANGED <<job, due, starved>>
     \/ /\ "thread" \in Faults
        /\ JobGoto(c, "queued")
        /\ due' = [due EXCEPT ![c] = taken[c]]
        /\ starved' = TRUE
  /\ UNCHANGED <<local, shared, stages, stream, crashes>>

\* The client leaves before the first event is asked for: a generator that never
\* started has no finally clause to run, and nothing gives the capacity back.
Abandon(c) ==
  /\ phase[c] = "accepted"
  /\ Goto(c, "abandoned")
  /\ UNCHANGED <<local, shared, work, stream, history>>

\* The generator tells of a failed submit before it reads the queue itself.
TellFailure(c) ==
  /\ phase[c] = "telling"
  /\ Put(c, "error")
  /\ Goto(c, "ending")
  /\ UNCHANGED <<local, shared, work, last, history>>

TellEnd(c) ==
  /\ phase[c] = "ending"
  /\ Put(c, "end")
  /\ Goto(c, "pulling")
  /\ UNCHANGED <<local, shared, work, last, history>>

\* event_queue.get() returns an event for the client, or the end.
Pull(c) ==
  /\ phase[c] = "pulling"
  /\ queue[c] # <<>>
  /\ queue' = [queue EXCEPT ![c] = Tail(@)]
  /\ IF Head(queue[c]) = "end"
       THEN Goto(c, "finished") /\ UNCHANGED last
       ELSE Goto(c, "suspended") /\ last' = [last EXCEPT ![c] = Head(queue[c])]
  /\ UNCHANGED <<local, shared, work, history>>

Resume(c) ==
  /\ phase[c] = "suspended"
  /\ Goto(c, "pulling")
  /\ UNCHANGED <<local, shared, work, stream, history>>

\* The generator is closed where it is suspended, at its yield: a client that
\* leaves during get() is noticed after the next event.
Disconnect(c) ==
  /\ phase[c] = "suspended"
  /\ Goto(c, "gone")
  /\ UNCHANGED <<local, shared, work, stream, history>>

-----------------------------------------------------------------------------
(* The job: run_query.                                                     *)

Busy(p) == {d \in Calls : ProcOf[d] = p /\ job[d] \notin {"none", "queued", "done", "broken", "dead"}}

RunStarts(c) ==
  /\ job[c] = "queued"
  /\ Cardinality(Busy(ProcOf[c])) < Workers
  /\ JobGoto(c, "running")
  /\ UNCHANGED <<phase, local, shared, due, stages, stream, history>>

ReportStage(c) ==
  /\ job[c] = "running"
  /\ stages[c] < MaxStages
  /\ Put(c, "stage")
  /\ stages' = [stages EXCEPT ![c] = @ + 1]
  /\ UNCHANGED <<phase, local, shared, job, due, last, history>>

\* A saved answer is replayed as it is; a computed one is given only if the guard
\* has not found the lease lost.
Answer(c) ==
  /\ job[c] = "running"
  /\ c \in Replays \/ guard[c] # "lost"
  /\ JobGoto(c, "answering")
  /\ UNCHANGED <<phase, local, shared, due, stages, stream, history>>

\* Anything in the try block raises, also after the answer was saved.
Raise(c) ==
  /\ job[c] = "running"
  /\ JobGoto(c, "erroring")
  /\ UNCHANGED <<phase, local, shared, due, stages, stream, history>>

\* The thread of the query result's guard cannot be started; joining it in the
\* finally clause raises before anything is given back.
ResultGuardFails(c) ==
  /\ "thread" \in Faults
  /\ job[c] = "running"
  /\ JobGoto(c, "doomed")
  /\ starved' = TRUE
  /\ UNCHANGED <<phase, local, shared, due, stages, stream, crashes>>

\* Mutant: the answer is logged after it was sent, and logging may raise.
PutVerdictThenRaise(c) ==
  /\ job[c] \in {"answering", "erroring"}
  /\ Put(c, IF job[c] = "answering" THEN "result" ELSE "error")
  /\ JobGoto(c, IF job[c] = "answering" THEN "erroring" ELSE "closing")
  /\ UNCHANGED <<phase, local, shared, due, stages, last, history>>

PutVerdict(c) ==
  /\ job[c] \in {"answering", "erroring", "doomed"}
  /\ Put(c, IF job[c] = "answering" THEN "result" ELSE "error")
  /\ JobGoto(c, IF job[c] = "doomed" THEN "broken" ELSE "closing")
  /\ UNCHANGED <<phase, local, shared, due, stages, last, history>>

ReleaseLease(c) ==
  /\ job[c] = "closing"
  /\ CloseGuard(c)
  /\ JobGoto(c, "releasing")
  /\ UNCHANGED <<phase, local, due, stages, stream, history>>

ReleasePermit(c) ==
  /\ job[c] = "releasing"
  /\ due[c] > 0
  /\ GiveBack(c, due[c])
  /\ due' = [due EXCEPT ![c] = @ - 1]
  /\ UNCHANGED <<phase, taken, shared, job, stages, stream, history>>

\* Mutant: the end is sent, and the job ends, before all permits are given back.
PutEndAnyway(c) ==
  /\ job[c] = "releasing"
  /\ Put(c, "end")
  /\ JobGoto(c, "done")
  /\ UNCHANGED <<phase, local, shared, due, stages, last, history>>

PutEnd(c) ==
  /\ job[c] = "releasing"
  /\ due[c] = 0
  /\ Put(c, "end")
  /\ JobGoto(c, "done")
  /\ UNCHANGED <<phase, local, shared, due, stages, last, history>>

\* BoundedSemaphore.release raises ValueError if no permit is out.
ReleaseRaises(c) ==
  \/ /\ job[c] = "releasing"
     /\ due[c] > 0
     /\ Free(c, due[c]) >= Limit[ScopesOf[c][due[c]]]
     /\ JobGoto(c, "broken")
     /\ UNCHANGED <<phase, local, shared, due, stages, stream, history>>
  \/ /\ phase[c] \in {"unwinding", "returning"}
     /\ taken[c] > 0
     /\ Free(c, taken[c]) >= Limit[ScopesOf[c][taken[c]]]
     /\ Goto(c, "broken")
     /\ UNCHANGED <<local, shared, work, stream, history>>

-----------------------------------------------------------------------------
(* Renewal, the clock, crashes.                                            *)

Renew(c) ==
  /\ guard[c] = "renewing"
  /\ lease[c] = "due"
  /\ lease' = [lease EXCEPT ![c] = "fresh"]
  /\ UNCHANGED <<phase, local, guard, work, stream, history>>

\* The slots have expired or are gone, or the database raises: the thread ends.
RenewFails(c) ==
  /\ guard[c] = "renewing"
  /\ guard' = [guard EXCEPT ![c] = "lost"]
  /\ UNCHANGED <<phase, local, lease, work, stream, history>>

\* Mutant: the renewal inserts the slots if they are gone.
LateUpsert(c) ==
  /\ guard[c] = "stopped"
  /\ guard' = [guard EXCEPT ![c] = "none"]
  /\ lease' = [lease EXCEPT ![c] = "fresh"]
  /\ UNCHANGED <<phase, local, work, stream, history>>

\* The thread ends, perhaps with a renewal that was under way when close() gave
\* up waiting for it.
LateRenew(c) ==
  /\ guard[c] = "stopped"
  /\ guard' = [guard EXCEPT ![c] = "none"]
  /\ \/ UNCHANGED lease
     \/ Live(c) /\ lease' = [lease EXCEPT ![c] = "fresh"]
  /\ UNCHANGED <<phase, local, work, stream, history>>

LeaseAges(c) ==
  /\ Live(c)
  /\ lease' = [lease EXCEPT ![c] = IF @ = "fresh" THEN "due" ELSE "expired"]
  /\ UNCHANGED <<phase, local, guard, work, stream, history>>

\* The memory of the process is lost, the slots remain; a new process starts.
Crash(p) ==
  LET mine == {c \in Calls : ProcOf[c] = p}
      over == {c \in mine : \/ phase[c] \in {"refused", "finished", "gone"}
                            \/ phase[c] = "entering" /\ taken[c] = 0}
  IN  /\ crashes < MaxCrashes
      /\ crashes' = crashes + 1
      /\ phase' = [c \in Calls |-> IF c \in mine \ over THEN "dead" ELSE phase[c]]
      /\ job' = [c \in Calls |->
                   IF c \in mine /\ job[c] \notin {"none", "done"} THEN "dead" ELSE job[c]]
      /\ guard' = [c \in Calls |-> IF c \in mine THEN "none" ELSE guard[c]]
      /\ taken' = [c \in Calls |-> IF c \in mine THEN 0 ELSE taken[c]]
      /\ due' = [c \in Calls |-> IF c \in mine THEN 0 ELSE due[c]]
      /\ permits' = [permits EXCEPT ![p] = Limit]
      /\ UNCHANGED <<lease, stages, stream, starved>>

-----------------------------------------------------------------------------

\* What the handler and later the generator of a call do.
Handle(c) ==
  \/ TakePermit(c) \/ FindNoPermit(c) \/ AcquireLease(c) \/ LeaseRefused(c)
  \/ StartGuard(c) \/ RateAccepts(c) \/ RateRefuses(c) \/ GiveUpLease(c)
  \/ Unwind(c) \/ Unwound(c) \/ Submit(c) \/ TellFailure(c) \/ TellEnd(c)
  \/ Pull(c) \/ Resume(c)

\* What the job of a call does.
Run(c) ==
  \/ RunStarts(c) \/ ReportStage(c) \/ Answer(c) \/ Raise(c) \/ PutVerdict(c)
  \/ ReleaseLease(c) \/ ReleasePermit(c) \/ PutEnd(c)

Fail(c) ==
  \/ GuardStartFails(c) \/ SubmitFails(c) \/ Abandon(c) \/ Disconnect(c)
  \/ ResultGuardFails(c) \/ ReleaseRaises(c)

Tick(c) == Renew(c) \/ RenewFails(c) \/ LateRenew(c) \/ LeaseAges(c)

Next ==
  \/ \E c \in Calls : Handle(c) \/ Run(c) \/ Fail(c) \/ Tick(c)
  \/ \E p \in Procs : Crash(p)

Spec == Init /\ [][Next]_vars

\* Threads run, and a client that is sent events reads on or leaves.
Fairness ==
  \A c \in Calls :
    /\ WF_vars(Handle(c) \/ Disconnect(c))
    /\ WF_vars(Run(c))

FairSpec == Spec /\ Fairness

-----------------------------------------------------------------------------
(* Properties.                                                             *)

TypeOK ==
  /\ phase \in [Calls -> Phases]
  /\ taken \in [Calls -> Nat] /\ \A c \in Calls : taken[c] <= Arity(c)
  /\ due \in [Calls -> Nat] /\ \A c \in Calls : due[c] <= Arity(c)
  /\ permits \in [Procs -> [Scopes -> Nat]]
  /\ lease \in [Calls -> Leases]
  /\ guard \in [Calls -> Guards]
  /\ job \in [Calls -> Jobs]
  /\ queue \in [Calls -> Seq(Events)]
  /\ stages \in [Calls -> 0 .. MaxStages]
  /\ last \in [Calls -> Events \cup {"none"}]
  /\ crashes \in 0 .. MaxCrashes
  /\ starved \in BOOLEAN

\* The calls of a process that hold its permit of a scope.
Holders(p, s) ==
  {c \in Calls : ProcOf[c] = p /\ \E i \in 1 .. taken[c] + due[c] : ScopesOf[c][i] = s}

\* No permit is lost or given back twice: those that are out are held by a call,
\* whichever way calls are refused, fail, or are cut short, as long as threads
\* can be started.
PermitsBalanced ==
  ~starved => \A p \in Procs, s \in Scopes : permits[p][s] + Cardinality(Holders(p, s)) = Limit[s]

\* Over all processes, the calls whose lease has not run out are within the limit
\* of every scope, through expiry, purges, late renewals and crashes.
SharedCapacityKept ==
  \A s \in Scopes : Cardinality(LiveIn(s)) <= Limit[s]

\* A call that is over, that its client sees ended, or that was refused, holds
\* neither permits nor (if it could be deleted) a lease, and nothing renews one:
\* a client that asks again after the end of its stream does not compete with
\* itself, and a lease that was left behind runs out.  (As long as threads can be
\* started.)
Over(c) == phase[c] \in {"refused", "finished", "broken"} \/ job[c] \in {"done", "broken"}

OverHoldsNothing ==
  ~starved => \A c \in Calls : Over(c) =>
    /\ taken[c] = 0 /\ due[c] = 0
    /\ guard[c] # "renewing"
    /\ "release" \in Faults \/ lease[c] = "none"

\* A lease that ran out, was purged or was given up never lives again, whenever
\* its renewals arrive.
LeaseNeverRevives ==
  [][\A c \in Calls : ~Live(c) /\ Live(c)' => phase[c] = "entering"]_vars

\* A stream has one verdict, an answer or an error, and ends right after it (again
\* as long as threads can be started).
OneVerdictAtTheEnd ==
  [][~starved => \A c \in Calls :
       /\ last[c] \in {"result", "error"} => last'[c] = last[c]
       /\ phase[c] = "pulling" /\ phase'[c] = "finished" => last[c] \in {"result", "error"}]_vars

\* A stream whose job the executor took comes to its end, unless the client
\* leaves or the process dies.
EveryStreamEnds ==
  \A c \in Calls : phase[c] = "pulling" ~> phase[c] \in {"finished", "gone", "dead"}

\* So does a stream whose job the executor refused: the client is told (serve.py:
\* "streamed API must serialize failures").
FailuresAreTold ==
  \A c \in Calls : phase[c] = "failing" ~> phase[c] \in {"finished", "gone", "dead"}

\* A job comes to its end, and gives back what it holds, even if its client reads
\* slowly or is gone.
EveryJobReturns ==
  \A c \in Calls : job[c] = "queued" ~> job[c] \in {"done", "dead"}

\* Phases in which the handler answers for the permits, and no job does.
Handling == {"entering", "guarding", "rating", "accepted", "refusing", "unwinding",
             "failing", "returning"}

\* Permits pass from the handler to the job; they are never with both.
PermitsHeldOnce ==
  ~starved => \A c \in Calls : /\ phase[c] \in Handling => due[c] = 0
                               /\ due[c] > 0 => taken[c] = 0

\* The inductive invariant.
IInv ==
  /\ TypeOK
  /\ PermitsHeldOnce
  /\ PermitsBalanced
  /\ SharedCapacityKept

\* How calls come to hold nothing: what is idle, and where each call stands when
\* it is.
Idle(c) == guard[c] # "renewing" /\ ("release" \in Faults \/ lease[c] = "none")

\* Phases of a call that has, or may have, a job.
Serving == {"pulling", "suspended", "finished", "gone", "dead"}

EndSent(c) == \E i \in 1 .. Len(queue[c]) : queue[c][i] = "end"

Placed(c) ==
  /\ phase[c] # "broken" /\ job[c] \notin {"doomed", "broken"}
  /\ phase[c] \in {"entering", "unwinding", "returning", "refused", "telling", "ending"} => Idle(c)
  /\ phase[c] \in {"refused", "telling", "ending"} \cup Serving => taken[c] = 0
  /\ phase[c] \notin Serving => job[c] = "none" /\ ~EndSent(c)
  /\ phase[c] = "dead" => job[c] \in {"none", "done", "dead"}
  /\ job[c] \in {"none", "done"} => due[c] = 0
  /\ job[c] = "none" /\ phase[c] \in {"pulling", "suspended", "finished"} => Idle(c)
  /\ job[c] \in {"releasing", "done"} => Idle(c)
  /\ phase[c] = "finished" \/ EndSent(c) => job[c] \in {"none", "done"}

AllPlaced == ~starved => \A c \in Calls : Placed(c)

\* How the verdict of a stream travels: none while its sender is undecided, then
\* one, with nothing but the end after it and the end nowhere else.
Verdicts == {"result", "error"}

Without(q, E) == \A i \in 1 .. Len(q) : q[i] \notin E

\* The events under way, after the last one the client was sent.
InOrder(q, sent) ==
  /\ sent \in Verdicts => \A j \in 1 .. Len(q) : q[j] = "end"
  /\ \A i, j \in 1 .. Len(q) : /\ q[i] \in Verdicts /\ i < j => q[j] = "end"
                               /\ q[i] = "end" => j <= i
  /\ \A i \in 1 .. Len(q) : q[i] = "end" =>
       IF i = 1 THEN sent \in Verdicts ELSE q[i - 1] \in Verdicts

Undecided(c) ==
  \/ job[c] \in {"queued", "running", "answering", "erroring"}
  \/ job[c] = "none" /\ phase[c] \notin {"ending"} \cup Serving

NoVerdictYet(c) == last[c] \notin Verdicts /\ Without(queue[c], Verdicts)

Orderly(c) ==
  /\ InOrder(queue[c], last[c])
  /\ Undecided(c) => NoVerdictYet(c)
  /\ phase[c] \in {"ending", "pulling", "suspended"} /\ ~Undecided(c) => ~NoVerdictYet(c)

AllOrderly == ~starved => \A c \in Calls : Orderly(c)

\* Who waits for whom.  A generator waits for an event, or for room in its own queue;
\* a job for a thread of the pool, or for room in the queue; whoever gives back a
\* permit, for nobody: it is out.
HandlerUnderWay(c) ==
  phase[c] \notin {"refused", "finished", "gone", "abandoned", "broken", "dead"}

HandlerGoesOn(c) ==
  /\ HandlerUnderWay(c)
  /\ phase[c] \in {"telling", "ending"} => Len(queue[c]) < EventLimit
  /\ phase[c] = "pulling" => queue[c] # <<>>
  /\ phase[c] \in {"unwinding", "returning"} /\ taken[c] > 0 =>
       Free(c, taken[c]) < Limit[ScopesOf[c][taken[c]]]

JobUnderWay(c) == job[c] \notin {"none", "done", "broken", "dead"}

RoomToPut(c) == Disconnected(c) \/ Len(queue[c]) < EventLimit

JobGoesOn(c) ==
  /\ JobUnderWay(c)
  /\ job[c] = "queued" => Cardinality(Busy(ProcOf[c])) < Workers
  /\ job[c] \in {"answering", "erroring"} => RoomToPut(c)
  /\ job[c] = "releasing" => IF due[c] > 0
                               THEN Free(c, due[c]) < Limit[ScopesOf[c][due[c]]]
                               ELSE RoomToPut(c)

\* Nobody waits in vain, however small the pool and the queues, however slow the
\* clients: a generator without an event has a job, a job that cannot go on has a
\* client that reads, and one without a thread waits for threads of which each is
\* used by a job that goes on or has a client that reads.  (As long as threads can be
\* started; the generator of a failed submit needs room for two events of its own.)
NoStreamIsStuck ==
  ~starved => \A c \in Calls :
    /\ HandlerUnderWay(c) =>
         \/ HandlerGoesOn(c)
         \/ phase[c] = "pulling" /\ JobUnderWay(c)
         \/ phase[c] = "ending" /\ EventLimit = 1
    /\ JobUnderWay(c) => JobGoesOn(c) \/ HandlerGoesOn(c) \/ job[c] = "queued"
    /\ job[c] = "queued" /\ ~JobGoesOn(c) =>
         /\ Busy(ProcOf[c]) # {}
         /\ \A d \in Busy(ProcOf[c]) : JobGoesOn(d) \/ HandlerGoesOn(d)

\* What a generator waits for comes: it has a job, or the end is in its queue, which
\* holds nothing before the stream begins.
Fed(c) ==
  /\ phase[c] \in {"pulling", "suspended"} => JobUnderWay(c) \/ EndSent(c)
  /\ phase[c] \notin {"ending"} \cup Serving => Len(queue[c]) = 0
  /\ phase[c] = "ending" => Len(queue[c]) <= 1

AllFed == ~starved => \A c \in Calls : Fed(c)
=============================================================================

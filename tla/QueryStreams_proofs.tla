------------------------ MODULE QueryStreams_proofs ------------------------
(***************************************************************************)
(* Proofs about QueryStreams, for any number of calls, processes and       *)
(* scopes, any limits, and any faults.                                     *)
(***************************************************************************)
EXTENDS QueryStreams, FiniteSetTheorems, SequenceTheorems, TLAPS

\* The scopes of a call, and their places.
LEMMA ScopePlaces ==
  ASSUME NEW c \in Calls
  PROVE  /\ Arity(c) \in Nat
         /\ \A i \in 1 .. Arity(c) : ScopesOf[c][i] \in Scopes
         /\ \A i, j \in 1 .. Arity(c) : ScopesOf[c][i] = ScopesOf[c][j] => i = j
         /\ ScopeSet(c) \subseteq Scopes
         /\ ProcOf[c] \in Procs
BY StreamAssumption DEF Arity, ScopeSet

\* What the event queue of a call may become.
LEMMA PutType ==
  ASSUME NEW c \in Calls, NEW e \in Events, queue \in [Calls -> Seq(Events)], Put(c, e)
  PROVE  queue' \in [Calls -> Seq(Events)]
<1>1. queue[c] \in Seq(Events)
  OBVIOUS
<1>2. Append(queue[c], e) \in Seq(Events)
  BY <1>1, AppendProperties
<1>3. queue' = queue \/ queue' = [queue EXCEPT ![c] = Append(queue[c], e)]
  BY DEF Put
<1> QED
  BY <1>2, <1>3

\* One more member, or one fewer.
LEMMA AddOne ==
  ASSUME NEW S, NEW x, IsFiniteSet(S)
  PROVE  /\ IsFiniteSet(S \cup {x})
         /\ Cardinality(S) \in Nat /\ Cardinality(S \cup {x}) \in Nat
         /\ Cardinality(S \cup {x}) <= Cardinality(S) + 1
         /\ x \notin S => Cardinality(S \cup {x}) = Cardinality(S) + 1
<1>1. /\ IsFiniteSet(S \cup {x})
      /\ Cardinality(S \cup {x}) = IF x \in S THEN Cardinality(S) ELSE Cardinality(S) + 1
  BY FS_AddElement
<1>2. Cardinality(S) \in Nat /\ Cardinality(S \cup {x}) \in Nat
  BY <1>1, FS_CardinalityType
<1> QED
  BY <1>1, <1>2

LEMMA RemoveOne ==
  ASSUME NEW S, NEW x \in S, IsFiniteSet(S)
  PROVE  /\ Cardinality(S) \in Nat /\ Cardinality(S \ {x}) \in Nat
         /\ Cardinality(S \ {x}) = Cardinality(S) - 1
<1>1. /\ IsFiniteSet(S \ {x})
      /\ Cardinality(S \ {x}) = IF x \in S THEN Cardinality(S) - 1 ELSE Cardinality(S)
  BY FS_RemoveElement
<1>2. Cardinality(S) \in Nat /\ Cardinality(S \ {x}) \in Nat
  BY <1>1, FS_CardinalityType
<1> QED
  BY <1>1, <1>2

-----------------------------------------------------------------------------
(* Type correctness.                                                       *)

LEMMA InitTypeOK == Init => TypeOK
<1> SUFFICES ASSUME Init PROVE TypeOK
  OBVIOUS
<1>1. \A c \in Calls : taken[c] <= Arity(c) /\ due[c] <= Arity(c)
  BY ScopePlaces DEF Init
<1>2. permits \in [Procs -> [Scopes -> Nat]]
  BY StreamAssumption DEF Init
<1>3. MaxStages \in Nat /\ MaxCrashes \in Nat
  BY StreamAssumption
<1>4. stages \in [Calls -> 0 .. MaxStages] /\ crashes \in 0 .. MaxCrashes
  BY <1>3 DEF Init
<1>5. queue \in [Calls -> Seq(Events)] /\ last \in [Calls -> Events \cup {"none"}]
  BY DEF Init
<1>6. /\ phase \in [Calls -> Phases] /\ lease \in [Calls -> Leases]
      /\ guard \in [Calls -> Guards] /\ job \in [Calls -> Jobs]
  BY DEF Init, Phases, Leases, Guards, Jobs
<1> QED
  BY <1>1, <1>2, <1>4, <1>5, <1>6 DEF Init, TypeOK

\* The handler and the generator.
LEMMA HandleTypeOK ==
  ASSUME TypeOK, NEW c \in Calls, Handle(c)
  PROVE  TypeOK'
<1> USE DEF TypeOK, local, shared, work, stream, history, Goto, Phases
<1>1. CASE TakePermit(c)
  <2>1. taken[c] + 1 \in 1 .. Arity(c) /\ ScopesOf[c][taken[c] + 1] \in Scopes
    BY <1>1, ScopePlaces DEF TakePermit
  <2>2. permits' \in [Procs -> [Scopes -> Nat]]
    BY <1>1, <2>1, ScopePlaces DEF TakePermit, Free
  <2>3. taken' \in [Calls -> Nat] /\ \A d \in Calls : taken'[d] <= Arity(d)
    BY <1>1, <2>1, ScopePlaces DEF TakePermit
  <2> QED
    BY <1>1, <2>2, <2>3 DEF TakePermit
<1>2. CASE FindNoPermit(c)
  BY <1>2 DEF FindNoPermit
<1>3. CASE AcquireLease(c)
  BY <1>3 DEF AcquireLease, Purged, Leases
<1>4. CASE LeaseRefused(c)
  BY <1>4 DEF LeaseRefused
<1>5. CASE StartGuard(c)
  BY <1>5 DEF StartGuard, Guards
<1>6. CASE RateAccepts(c) \/ RateRefuses(c)
  BY <1>6 DEF RateAccepts, RateRefuses
<1>7. CASE GiveUpLease(c)
  BY <1>7 DEF GiveUpLease, CloseGuard, Leases, Guards
<1>8. CASE Unwind(c)
  <2>1. taken[c] \in 1 .. Arity(c) /\ ScopesOf[c][taken[c]] \in Scopes
    BY <1>8, ScopePlaces DEF Unwind
  <2>2. permits' \in [Procs -> [Scopes -> Nat]]
    BY <1>8, <2>1, ScopePlaces DEF Unwind, GiveBack, Free
  <2>3. taken' \in [Calls -> Nat] /\ \A d \in Calls : taken'[d] <= Arity(d)
    BY <1>8, <2>1, ScopePlaces DEF Unwind
  <2> QED
    BY <1>8, <2>2, <2>3 DEF Unwind
<1>9. CASE Unwound(c)
  BY <1>9 DEF Unwound
<1>10. CASE Submit(c)
  <2>1. taken' \in [Calls -> Nat] /\ \A d \in Calls : taken'[d] <= Arity(d)
    BY <1>10, ScopePlaces DEF Submit
  <2>2. due' \in [Calls -> Nat] /\ \A d \in Calls : due'[d] <= Arity(d)
    BY <1>10 DEF Submit
  <2> QED
    BY <1>10, <2>1, <2>2 DEF Submit, JobGoto, Jobs
<1>11. CASE TellFailure(c)
  BY <1>11, PutType DEF TellFailure, Events
<1>12. CASE TellEnd(c)
  BY <1>12, PutType DEF TellEnd, Events
<1>13. CASE Pull(c)
  <2>1. Head(queue[c]) \in Events /\ Tail(queue[c]) \in Seq(Events)
    BY <1>13 DEF Pull
  <2>2. queue' \in [Calls -> Seq(Events)]
    BY <1>13, <2>1 DEF Pull
  <2>3. last' \in [Calls -> Events \cup {"none"}] /\ phase' \in [Calls -> Phases]
    BY <1>13, <2>1 DEF Pull
  <2> QED
    BY <1>13, <2>2, <2>3 DEF Pull
<1>14. CASE Resume(c)
  BY <1>14 DEF Resume
<1> QED
  BY <1>1, <1>2, <1>3, <1>4, <1>5, <1>6, <1>7, <1>8, <1>9, <1>10, <1>11, <1>12, <1>13,
     <1>14 DEF Handle

\* The job.
LEMMA RunTypeOK ==
  ASSUME TypeOK, NEW c \in Calls, Run(c)
  PROVE  TypeOK'
<1> USE DEF TypeOK, local, shared, work, stream, history, JobGoto, Jobs
<1>1. CASE RunStarts(c)
  BY <1>1 DEF RunStarts
<1>2. CASE ReportStage(c)
  <2>1. queue' \in [Calls -> Seq(Events)]
    BY <1>2, PutType DEF ReportStage, Events
  <2>2. stages' \in [Calls -> 0 .. MaxStages]
    BY <1>2, StreamAssumption DEF ReportStage
  <2> QED
    BY <1>2, <2>1, <2>2 DEF ReportStage
<1>3. CASE Answer(c)
  BY <1>3 DEF Answer
<1>4. CASE Raise(c)
  BY <1>4 DEF Raise
<1>5. CASE PutVerdict(c)
  <2>1. queue' \in [Calls -> Seq(Events)]
    BY <1>5, PutType DEF PutVerdict, Events
  <2> QED
    BY <1>5, <2>1 DEF PutVerdict
<1>6. CASE ReleaseLease(c)
  BY <1>6 DEF ReleaseLease, CloseGuard, Leases, Guards
<1>7. CASE ReleasePermit(c)
  <2>1. due[c] \in 1 .. Arity(c) /\ ScopesOf[c][due[c]] \in Scopes
    BY <1>7, ScopePlaces DEF ReleasePermit
  <2>2. permits' \in [Procs -> [Scopes -> Nat]]
    BY <1>7, <2>1, ScopePlaces DEF ReleasePermit, GiveBack, Free
  <2>3. due' \in [Calls -> Nat] /\ \A d \in Calls : due'[d] <= Arity(d)
    BY <1>7, <2>1, ScopePlaces DEF ReleasePermit
  <2> QED
    BY <1>7, <2>2, <2>3 DEF ReleasePermit
<1>8. CASE PutEnd(c)
  <2>1. queue' \in [Calls -> Seq(Events)]
    BY <1>8, PutType DEF PutEnd, Events
  <2> QED
    BY <1>8, <2>1 DEF PutEnd
<1> QED
  BY <1>1, <1>2, <1>3, <1>4, <1>5, <1>6, <1>7, <1>8 DEF Run

\* Failures, renewal, the clock.
LEMMA FailTypeOK ==
  ASSUME TypeOK, NEW c \in Calls, Fail(c) \/ Tick(c)
  PROVE  TypeOK'
<1> USE DEF TypeOK, local, shared, work, stream, history, Goto, JobGoto
<1>1. CASE GuardStartFails(c)
  BY <1>1 DEF GuardStartFails, Phases
<1>2. CASE SubmitFails(c)
  <2>1. due' \in [Calls -> Nat] /\ \A d \in Calls : due'[d] <= Arity(d)
    BY <1>2 DEF SubmitFails
  <2> QED
    BY <1>2, <2>1 DEF SubmitFails, Phases, Jobs
<1>3. CASE Abandon(c) \/ Disconnect(c)
  BY <1>3 DEF Abandon, Disconnect, Phases
<1>4. CASE ResultGuardFails(c)
  BY <1>4 DEF ResultGuardFails, Jobs
<1>5. CASE ReleaseRaises(c)
  BY <1>5 DEF ReleaseRaises, Jobs, Phases
<1>6. CASE Renew(c) \/ RenewFails(c) \/ LateRenew(c)
  BY <1>6 DEF Renew, RenewFails, LateRenew, Leases, Guards
<1>7. CASE LeaseAges(c)
  BY <1>7 DEF LeaseAges, Leases
<1> QED
  BY <1>1, <1>2, <1>3, <1>4, <1>5, <1>6, <1>7 DEF Fail, Tick

LEMMA CrashTypeOK ==
  ASSUME TypeOK, NEW p \in Procs, Crash(p)
  PROVE  TypeOK'
<1> USE DEF TypeOK, Crash, stream
<1>1. phase' \in [Calls -> Phases] /\ job' \in [Calls -> Jobs] /\ guard' \in [Calls -> Guards]
  BY DEF Phases, Jobs, Guards
<1>2. taken' \in [Calls -> Nat] /\ \A c \in Calls : taken'[c] <= Arity(c)
  BY ScopePlaces
<1>3. due' \in [Calls -> Nat] /\ \A c \in Calls : due'[c] <= Arity(c)
  BY ScopePlaces
<1>4. permits' \in [Procs -> [Scopes -> Nat]]
  BY StreamAssumption
<1>5. crashes' \in 0 .. MaxCrashes
  BY StreamAssumption
<1> QED
  BY <1>1, <1>2, <1>3, <1>4, <1>5

LEMMA NextTypeOK == TypeOK /\ [Next]_vars => TypeOK'
<1> SUFFICES ASSUME TypeOK, [Next]_vars PROVE TypeOK'
  OBVIOUS
<1>1. CASE UNCHANGED vars
  BY <1>1 DEF TypeOK, vars
<1>2. CASE Next
  BY <1>2, HandleTypeOK, RunTypeOK, FailTypeOK, CrashTypeOK DEF Next
<1> QED
  BY <1>1, <1>2

\* Every variable keeps its type: no permit count falls below zero, no call
\* answers for more permits than it has scopes, crashes or not.
THEOREM StreamTypes == Spec => []TypeOK
  BY InitTypeOK, NextTypeOK, PTL DEF Spec

-----------------------------------------------------------------------------
(* The shared capacity.                                                    *)

\* Only a call that enters gets a lease; all else renews, ages or ends leases.
LEMMA LeaseEffect ==
  ASSUME TypeOK, [Next]_vars
  PROVE  \/ \A d \in Calls : Live(d)' => Live(d)
         \/ \E c \in Calls : AcquireLease(c)
<1> USE DEF TypeOK, Live
<1>1. CASE UNCHANGED vars
  BY <1>1 DEF vars
<1>2. ASSUME NEW c \in Calls, Handle(c), ~AcquireLease(c)
      PROVE  \A d \in Calls : Live(d)' => Live(d)
  <2>1. CASE GiveUpLease(c)
    BY <2>1 DEF GiveUpLease, CloseGuard
  <2>2. CASE ~GiveUpLease(c)
    BY <1>2, <2>2 DEF Handle, TakePermit, FindNoPermit, LeaseRefused, StartGuard, RateAccepts,
         RateRefuses, Unwind, Unwound, Submit, TellFailure, TellEnd, Pull, Resume, shared
  <2> QED
    BY <2>1, <2>2
<1>3. ASSUME NEW c \in Calls, Run(c)
      PROVE  \A d \in Calls : Live(d)' => Live(d)
  <2>1. CASE ReleaseLease(c)
    BY <2>1 DEF ReleaseLease, CloseGuard
  <2>2. CASE ~ReleaseLease(c)
    BY <1>3, <2>2 DEF Run, RunStarts, ReportStage, Answer, Raise, PutVerdict, ReleasePermit,
         PutEnd, shared
  <2> QED
    BY <2>1, <2>2
<1>4. ASSUME NEW c \in Calls, Fail(c)
      PROVE  \A d \in Calls : Live(d)' => Live(d)
  BY <1>4 DEF Fail, GuardStartFails, SubmitFails, Abandon, Disconnect, ResultGuardFails,
       ReleaseRaises, shared
<1>5. ASSUME NEW c \in Calls, Tick(c)
      PROVE  \A d \in Calls : Live(d)' => Live(d)
  BY <1>5 DEF Tick, Renew, RenewFails, LateRenew, LeaseAges
<1>6. ASSUME NEW p \in Procs, Crash(p)
      PROVE  \A d \in Calls : Live(d)' => Live(d)
  BY <1>6 DEF Crash
<1> QED
  BY <1>1, <1>2, <1>3, <1>4, <1>5, <1>6 DEF Next

LEMMA LiveFinite ==
  ASSUME NEW s
  PROVE  /\ IsFiniteSet(LiveIn(s)) /\ Cardinality(LiveIn(s)) \in Nat
         /\ IsFiniteSet(LiveIn(s)') /\ Cardinality(LiveIn(s)') \in Nat
<1>1. LiveIn(s) \in SUBSET Calls /\ LiveIn(s)' \in SUBSET Calls
  BY DEF LiveIn
<1>2. IsFiniteSet(Calls)
  BY StreamAssumption
<1>3. IsFiniteSet(LiveIn(s)) /\ IsFiniteSet(LiveIn(s)')
  BY <1>1, <1>2, FS_Subset
<1> QED
  BY <1>3, FS_CardinalityType

LEMMA InitCapacity == Init => SharedCapacityKept
<1> SUFFICES ASSUME Init, NEW s \in Scopes PROVE Cardinality(LiveIn(s)) <= Limit[s]
  BY DEF SharedCapacityKept
<1>1. LiveIn(s) = {}
  BY DEF Init, LiveIn, Live
<1>2. Cardinality(LiveIn(s)) = 0
  BY <1>1, FS_EmptySet
<1> QED
  BY <1>2, StreamAssumption

LEMMA NextCapacity ==
  ASSUME TypeOK, SharedCapacityKept, [Next]_vars
  PROVE  SharedCapacityKept'
<1> SUFFICES ASSUME NEW s \in Scopes
             PROVE  Cardinality(LiveIn(s)') <= Limit[s]
  BY DEF SharedCapacityKept
<1>0. Limit[s] \in Nat /\ Cardinality(LiveIn(s)) <= Limit[s]
  BY StreamAssumption DEF SharedCapacityKept
<1>1. CASE \A d \in Calls : Live(d)' => Live(d)
  <2>1. LiveIn(s)' \in SUBSET LiveIn(s)
    BY <1>1 DEF LiveIn, ScopeSet, Arity
  <2>2. Cardinality(LiveIn(s)') <= Cardinality(LiveIn(s))
    BY <2>1, LiveFinite, FS_Subset
  <2> QED
    BY <1>0, <2>2, LiveFinite
<1>2. ASSUME NEW c \in Calls, AcquireLease(c)
      PROVE  Cardinality(LiveIn(s)') <= Limit[s]
  <2>1. \A d \in Calls : Live(d)' => d = c \/ Live(d)
    BY <1>2 DEF AcquireLease, Purged, Live, TypeOK
  <2>2. CASE s \in ScopeSet(c)
    <3>1. LiveIn(s)' \in SUBSET (LiveIn(s) \cup {c})
      BY <2>1 DEF LiveIn, ScopeSet, Arity
    <3>2. /\ IsFiniteSet(LiveIn(s) \cup {c})
          /\ Cardinality(LiveIn(s) \cup {c}) <= Cardinality(LiveIn(s)) + 1
      BY LiveFinite, AddOne
    <3>3. Cardinality(LiveIn(s)') <= Cardinality(LiveIn(s) \cup {c})
      BY <3>1, <3>2, FS_Subset
    <3>4. Cardinality(LiveIn(s)) < Limit[s]
      BY <1>2, <2>2 DEF AcquireLease, RoomFor
    <3>5. Cardinality(LiveIn(s) \cup {c}) \in Nat
      BY <3>2, FS_CardinalityType
    <3> QED
      BY <1>0, <3>2, <3>3, <3>4, <3>5, LiveFinite
  <2>3. CASE s \notin ScopeSet(c)
    <3>1. LiveIn(s)' \in SUBSET LiveIn(s)
      BY <2>1, <2>3 DEF LiveIn, ScopeSet, Arity
    <3>2. Cardinality(LiveIn(s)') <= Cardinality(LiveIn(s))
      BY <3>1, LiveFinite, FS_Subset
    <3> QED
      BY <1>0, <3>2, LiveFinite
  <2> QED
    BY <2>2, <2>3
<1> QED
  BY <1>1, <1>2, LeaseEffect

\* In every scope, the calls whose lease has not run out are within the limit:
\* over all processes, through expiry, purges, late renewals and crashes.
THEOREM SharedCapacity == Spec => []SharedCapacityKept
<1>1. TypeOK /\ SharedCapacityKept /\ [Next]_vars => SharedCapacityKept'
  BY NextCapacity
<1> QED
  BY <1>1, InitCapacity, StreamTypes, PTL DEF Spec

\* A lease that ran out, was purged or was given up never lives again.
THEOREM LeasesStayDead == Spec => LeaseNeverRevives
<1>1. ASSUME TypeOK, [Next]_vars
      PROVE  [\A c \in Calls : ~Live(c) /\ Live(c)' => phase[c] = "entering"]_vars
  <2>1. CASE \A d \in Calls : Live(d)' => Live(d)
    BY <2>1
  <2>2. ASSUME NEW d \in Calls, AcquireLease(d)
        PROVE  \A c \in Calls : ~Live(c) /\ Live(c)' => phase[c] = "entering"
    BY <1>1, <2>2 DEF AcquireLease, Purged, Live, TypeOK
  <2> QED
    BY <1>1, <2>1, <2>2, LeaseEffect
<1> QED
  BY <1>1, StreamTypes, PTL DEF Spec, LeaseNeverRevives

-----------------------------------------------------------------------------
(* The permits of the processes.                                           *)

\* A permit is held by the handler of a call, or by its job.
LEMMA HoldersFinite ==
  ASSUME NEW p, NEW s
  PROVE  /\ IsFiniteSet(Holders(p, s)) /\ Cardinality(Holders(p, s)) \in Nat
         /\ IsFiniteSet(Holders(p, s)') /\ Cardinality(Holders(p, s)') \in Nat
<1>1. Holders(p, s) \in SUBSET Calls /\ Holders(p, s)' \in SUBSET Calls
  BY DEF Holders
<1>2. IsFiniteSet(Calls)
  BY StreamAssumption
<1>3. IsFiniteSet(Holders(p, s)) /\ IsFiniteSet(Holders(p, s)')
  BY <1>1, <1>2, FS_Subset
<1> QED
  BY <1>3, FS_CardinalityType

LEMMA InitPermits == Init => PermitsHeldOnce /\ PermitsBalanced
<1> SUFFICES ASSUME Init PROVE PermitsHeldOnce /\ PermitsBalanced
  OBVIOUS
<1>1. PermitsHeldOnce
  BY DEF Init, PermitsHeldOnce
<1>2. ASSUME NEW p \in Procs, NEW s \in Scopes
      PROVE  permits[p][s] + Cardinality(Holders(p, s)) = Limit[s]
  <2>1. Holders(p, s) = {}
    BY DEF Init, Holders
  <2>2. Cardinality(Holders(p, s)) = 0
    BY <2>1, FS_EmptySet
  <2>3. permits[p][s] = Limit[s] /\ Limit[s] \in Nat
    BY StreamAssumption DEF Init
  <2> QED
    BY <2>2, <2>3
<1> QED
  BY <1>1, <1>2 DEF PermitsBalanced

\* What a step does to permits, seen from outside.
Moves(c) == TakePermit(c) \/ Unwind(c) \/ Submit(c) \/ ReleasePermit(c)

LEMMA PermitEffect ==
  ASSUME [Next]_vars, ~starved'
  PROVE  /\ ~starved
         /\ \/ UNCHANGED <<taken, due, permits>>
            \/ \E c \in Calls : Moves(c)
            \/ \E p \in Procs : Crash(p)
<1> USE DEF local, work, shared, stream, history
<1>1. CASE UNCHANGED vars
  BY <1>1 DEF vars
<1>2. ASSUME NEW c \in Calls, Handle(c), ~Moves(c)
      PROVE  UNCHANGED <<taken, due, permits, starved>>
  BY <1>2 DEF Moves, Handle, FindNoPermit, AcquireLease, LeaseRefused, StartGuard,
       RateAccepts, RateRefuses, GiveUpLease, Unwound, TellFailure, TellEnd, Pull, Resume
<1>3. ASSUME NEW c \in Calls, Run(c), ~Moves(c)
      PROVE  UNCHANGED <<taken, due, permits, starved>>
  BY <1>3 DEF Moves, Run, RunStarts, ReportStage, Answer, Raise, PutVerdict, ReleaseLease,
       PutEnd
<1>4. ASSUME NEW c \in Calls, Fail(c)
      PROVE  UNCHANGED <<taken, due, permits, starved>>
  BY <1>4 DEF Fail, GuardStartFails, SubmitFails, Abandon, Disconnect, ResultGuardFails,
       ReleaseRaises
<1>5. ASSUME NEW c \in Calls, Tick(c)
      PROVE  UNCHANGED <<taken, due, permits, starved>>
  BY <1>5 DEF Tick, Renew, RenewFails, LateRenew, LeaseAges
<1>6. ASSUME NEW c \in Calls, Moves(c)
      PROVE  UNCHANGED starved
  BY <1>6 DEF Moves, TakePermit, Unwind, Submit, ReleasePermit
<1>7. ASSUME NEW p \in Procs, Crash(p)
      PROVE  UNCHANGED starved
  BY <1>7 DEF Crash
<1> QED
  BY <1>1, <1>2, <1>3, <1>4, <1>5, <1>6, <1>7 DEF Next

\* No call returns to a phase in which its handler answers for permits.
LEMMA HandlingEffect ==
  ASSUME TypeOK, [Next]_vars, NEW c \in Calls, phase'[c] \in Handling
  PROVE  phase[c] \in Handling
<1> USE DEF TypeOK, Handling, Goto, local, work, shared, stream, history
<1>1. CASE UNCHANGED vars
  BY <1>1 DEF vars
<1>2. ASSUME NEW d \in Calls, Handle(d)
      PROVE  phase[c] \in Handling
  BY <1>2 DEF Handle, TakePermit, FindNoPermit, AcquireLease, LeaseRefused, StartGuard,
       RateAccepts, RateRefuses, GiveUpLease, Unwind, Unwound, Submit, TellFailure, TellEnd,
       Pull, Resume
<1>3. ASSUME NEW d \in Calls, Run(d)
      PROVE  phase[c] \in Handling
  BY <1>3 DEF Run, RunStarts, ReportStage, Answer, Raise, PutVerdict, ReleaseLease,
       ReleasePermit, PutEnd
<1>4. ASSUME NEW d \in Calls, Fail(d)
      PROVE  phase[c] \in Handling
  BY <1>4 DEF Fail, GuardStartFails, SubmitFails, Abandon, Disconnect, ResultGuardFails,
       ReleaseRaises
<1>5. ASSUME NEW d \in Calls, Tick(d)
      PROVE  phase[c] \in Handling
  BY <1>5 DEF Tick, Renew, RenewFails, LateRenew, LeaseAges
<1>6. ASSUME NEW p \in Procs, Crash(p)
      PROVE  phase[c] \in Handling
  BY <1>6 DEF Crash
<1> QED
  BY <1>1, <1>2, <1>3, <1>4, <1>5, <1>6 DEF Next

LEMMA NextHeldOnce ==
  ASSUME TypeOK, PermitsHeldOnce, [Next]_vars
  PROVE  PermitsHeldOnce'
<1> SUFFICES ASSUME ~starved', NEW c \in Calls
             PROVE  /\ phase'[c] \in Handling => due'[c] = 0
                    /\ due'[c] > 0 => taken'[c] = 0
  BY DEF PermitsHeldOnce
<1> USE DEF TypeOK
<1>1. /\ ~starved
      /\ phase[c] \in Handling => due[c] = 0
      /\ due[c] > 0 => taken[c] = 0
      /\ phase'[c] \in Handling => phase[c] \in Handling
  BY PermitEffect, HandlingEffect DEF PermitsHeldOnce
<1>2. CASE UNCHANGED <<taken, due, permits>>
  BY <1>1, <1>2
<1>3. ASSUME NEW d \in Calls, TakePermit(d)
      PROVE  /\ phase'[c] \in Handling => due'[c] = 0
             /\ due'[c] > 0 => taken'[c] = 0
  BY <1>1, <1>3 DEF TakePermit, Handling, work
<1>4. ASSUME NEW d \in Calls, Unwind(d)
      PROVE  /\ phase'[c] \in Handling => due'[c] = 0
             /\ due'[c] > 0 => taken'[c] = 0
  BY <1>1, <1>4 DEF Unwind, Handling, work
<1>5. ASSUME NEW d \in Calls, Submit(d)
      PROVE  /\ phase'[c] \in Handling => due'[c] = 0
             /\ due'[c] > 0 => taken'[c] = 0
  BY <1>1, <1>5 DEF Submit, Handling, Goto
<1>6. ASSUME NEW d \in Calls, ReleasePermit(d)
      PROVE  /\ phase'[c] \in Handling => due'[c] = 0
             /\ due'[c] > 0 => taken'[c] = 0
  BY <1>1, <1>6 DEF ReleasePermit
<1>7. ASSUME NEW p \in Procs, Crash(p)
      PROVE  /\ phase'[c] \in Handling => due'[c] = 0
             /\ due'[c] > 0 => taken'[c] = 0
  BY <1>1, <1>7 DEF Crash
<1> QED
  BY <1>2, <1>3, <1>4, <1>5, <1>6, <1>7, PermitEffect DEF Moves

\* The permits a call answers for, with its handler or its job: those of its first
\* so many scopes.
Held(c) == taken[c] + due[c]
Balanced == \A p \in Procs, s \in Scopes :
              permits[p][s] + Cardinality(Holders(p, s)) = Limit[s]

LEMMA HeldHolds ==
  ASSUME TypeOK, TypeOK', NEW c \in Calls
  PROVE  /\ Held(c) \in Nat /\ Held(c)' \in Nat
         /\ \A p, s : c \in Holders(p, s) <=>
              ProcOf[c] = p /\ \E i \in 1 .. Held(c) : ScopesOf[c][i] = s
         /\ \A p, s : c \in Holders(p, s)' <=>
              ProcOf[c] = p /\ \E i \in 1 .. Held(c)' : ScopesOf[c][i] = s
<1>1. Held(c) \in Nat
  BY DEF TypeOK, Held
<1>2. Held(c)' \in Nat
  BY DEF TypeOK, Held
<1>3. ASSUME NEW p, NEW s
      PROVE  c \in Holders(p, s) <=>
               ProcOf[c] = p /\ \E i \in 1 .. Held(c) : ScopesOf[c][i] = s
  BY Zenon DEF Held, Holders
<1>4. ASSUME NEW p, NEW s
      PROVE  c \in Holders(p, s)' <=>
               ProcOf[c] = p /\ \E i \in 1 .. Held(c)' : ScopesOf[c][i] = s
  BY Zenon DEF Held, Holders
<1> QED
  BY <1>1, <1>2, <1>3, <1>4

\* A permit is taken: its scope has one holder more, the others the same.
LEMMA OneMore ==
  ASSUME TypeOK, TypeOK', Balanced, NEW c \in Calls,
         Held(c)' = Held(c) + 1, Held(c)' <= Arity(c),
         \A d \in Calls \ {c} : Held(d)' = Held(d),
         permits' = [permits EXCEPT ![ProcOf[c]][ScopesOf[c][Held(c) + 1]] = @ - 1]
  PROVE  Balanced'
<1> DEFINE q == ProcOf[c]
<1>a. PICK n \in Nat : n = Held(c) + 1
  BY HeldHolds
<1>b. PICK t : t = ScopesOf[c][n]
  OBVIOUS
<1>1. n \in 1 .. Arity(c) /\ t \in Scopes /\ q \in Procs
  BY <1>a, <1>b, HeldHolds, ScopePlaces
<1>2. \A i \in 1 .. Held(c) : ScopesOf[c][i] # t
  BY <1>a, <1>b, <1>1, HeldHolds, ScopePlaces
<1>3. c \notin Holders(q, t) /\ c \in Holders(q, t)'
  <2>1. /\ c \in Holders(q, t) <=> \E i \in 1 .. Held(c) : ScopesOf[c][i] = t
        /\ c \in Holders(q, t)' <=> \E i \in 1 .. Held(c)' : ScopesOf[c][i] = t
    BY HeldHolds
  <2>2. n \in 1 .. Held(c)' /\ ScopesOf[c][n] = t
    BY <1>a, <1>b, <1>1, HeldHolds
  <2> QED
    BY <1>2, <2>1, <2>2
<1>4. \A d \in Calls \ {c} : \A p, s : d \in Holders(p, s)' <=> d \in Holders(p, s)
  BY HeldHolds
<1>5. \A p, s : p # q \/ s # t => (c \in Holders(p, s)' <=> c \in Holders(p, s))
  <2> SUFFICES ASSUME NEW p, NEW s, p # q \/ s # t
               PROVE  c \in Holders(p, s)' <=> c \in Holders(p, s)
    OBVIOUS
  <2>1. /\ c \in Holders(p, s) <=> q = p /\ \E i \in 1 .. Held(c) : ScopesOf[c][i] = s
        /\ c \in Holders(p, s)' <=> q = p /\ \E i \in 1 .. Held(c)' : ScopesOf[c][i] = s
    BY HeldHolds
  <2>2. \A i : i \in 1 .. Held(c)' <=> i \in 1 .. Held(c) \/ i = n
    BY <1>a, HeldHolds
  <2>3. q = p => ScopesOf[c][n] # s
    BY <1>b
  <2> QED
    BY <2>1, <2>2, <2>3
<1>6. Holders(q, t)' = Holders(q, t) \cup {c}
  BY <1>3, <1>4 DEF Holders
<1>7. ASSUME NEW p \in Procs, NEW s \in Scopes
      PROVE  permits'[p][s] + Cardinality(Holders(p, s)') = Limit[s]
  <2>1. /\ permits[p][s] + Cardinality(Holders(p, s)) = Limit[s]
        /\ permits[p][s] \in Nat /\ permits'[p][s] \in Nat
    BY DEF Balanced, TypeOK
  <2>2. CASE p = q /\ s = t
    <3>1. Cardinality(Holders(q, t)') = Cardinality(Holders(q, t)) + 1
      BY <1>3, <1>6, HoldersFinite, AddOne
    <3>2. permits'[q][t] = permits[q][t] - 1
      BY <1>a, <1>b, <1>1 DEF TypeOK
    <3> QED
      BY <2>1, <2>2, <3>1, <3>2, HoldersFinite
  <2>3. CASE p # q \/ s # t
    <3>1. Holders(p, s)' = Holders(p, s)
      BY <1>4, <1>5, <2>3 DEF Holders
    <3>2. permits'[p][s] = permits[p][s]
      BY <1>a, <1>b, <1>1, <2>3 DEF TypeOK
    <3> QED
      BY <2>1, <3>1, <3>2
  <2> QED
    BY <2>2, <2>3
<1> QED
  BY <1>7 DEF Balanced

\* A permit is given back: its scope has one holder fewer.
LEMMA OneFewer ==
  ASSUME TypeOK, TypeOK', Balanced, NEW c \in Calls,
         Held(c) > 0, Held(c) <= Arity(c), Held(c)' = Held(c) - 1,
         \A d \in Calls \ {c} : Held(d)' = Held(d),
         permits' = [permits EXCEPT ![ProcOf[c]][ScopesOf[c][Held(c)]] = @ + 1]
  PROVE  Balanced'
<1> DEFINE q == ProcOf[c]
<1>a. PICK n \in Nat : n = Held(c)
  BY HeldHolds
<1>b. PICK t : t = ScopesOf[c][n]
  OBVIOUS
<1>1. n \in 1 .. Arity(c) /\ t \in Scopes /\ q \in Procs
  BY <1>a, <1>b, HeldHolds, ScopePlaces
<1>2. \A i \in 1 .. Held(c)' : ScopesOf[c][i] # t
  BY <1>a, <1>b, <1>1, HeldHolds, ScopePlaces
<1>3. c \in Holders(q, t) /\ c \notin Holders(q, t)'
  <2>1. /\ c \in Holders(q, t) <=> \E i \in 1 .. Held(c) : ScopesOf[c][i] = t
        /\ c \in Holders(q, t)' <=> \E i \in 1 .. Held(c)' : ScopesOf[c][i] = t
    BY HeldHolds
  <2>2. n \in 1 .. Held(c) /\ ScopesOf[c][n] = t
    BY <1>a, <1>b, <1>1, HeldHolds
  <2> QED
    BY <1>2, <2>1, <2>2
<1>4. \A d \in Calls \ {c} : \A p, s : d \in Holders(p, s)' <=> d \in Holders(p, s)
  BY HeldHolds
<1>5. \A p, s : p # q \/ s # t => (c \in Holders(p, s)' <=> c \in Holders(p, s))
  <2> SUFFICES ASSUME NEW p, NEW s, p # q \/ s # t
               PROVE  c \in Holders(p, s)' <=> c \in Holders(p, s)
    OBVIOUS
  <2>1. /\ c \in Holders(p, s) <=> q = p /\ \E i \in 1 .. Held(c) : ScopesOf[c][i] = s
        /\ c \in Holders(p, s)' <=> q = p /\ \E i \in 1 .. Held(c)' : ScopesOf[c][i] = s
    BY HeldHolds
  <2>2. \A i : i \in 1 .. Held(c) <=> i \in 1 .. Held(c)' \/ i = n
    BY <1>a, HeldHolds
  <2>3. q = p => ScopesOf[c][n] # s
    BY <1>b
  <2> QED
    BY <2>1, <2>2, <2>3
<1>6. Holders(q, t)' = Holders(q, t) \ {c}
  BY <1>3, <1>4 DEF Holders
<1>7. ASSUME NEW p \in Procs, NEW s \in Scopes
      PROVE  permits'[p][s] + Cardinality(Holders(p, s)') = Limit[s]
  <2>1. /\ permits[p][s] + Cardinality(Holders(p, s)) = Limit[s]
        /\ permits[p][s] \in Nat /\ permits'[p][s] \in Nat
    BY DEF Balanced, TypeOK
  <2>2. CASE p = q /\ s = t
    <3>1. Cardinality(Holders(q, t)') = Cardinality(Holders(q, t)) - 1
      BY <1>3, <1>6, HoldersFinite, RemoveOne
    <3>2. permits'[q][t] = permits[q][t] + 1
      BY <1>a, <1>b, <1>1 DEF TypeOK
    <3> QED
      BY <2>1, <2>2, <3>1, <3>2, HoldersFinite
  <2>3. CASE p # q \/ s # t
    <3>1. Holders(p, s)' = Holders(p, s)
      BY <1>4, <1>5, <2>3 DEF Holders
    <3>2. permits'[p][s] = permits[p][s]
      BY <1>a, <1>b, <1>1, <2>3 DEF TypeOK
    <3> QED
      BY <2>1, <3>1, <3>2
  <2> QED
    BY <2>2, <2>3
<1> QED
  BY <1>7 DEF Balanced

\* If every call holds what it held, so does every scope.
LEMMA SameHeld ==
  ASSUME TypeOK, TypeOK', Balanced, \A d \in Calls : Held(d)' = Held(d), UNCHANGED permits
  PROVE  Balanced'
<1>1. \A d \in Calls : \A p, s : d \in Holders(p, s)' <=> d \in Holders(p, s)
  BY HeldHolds
<1>2. \A p, s : Holders(p, s)' = Holders(p, s)
  BY <1>1 DEF Holders
<1> QED
  BY <1>2 DEF Balanced

LEMMA NextBalanced ==
  ASSUME TypeOK, TypeOK', PermitsHeldOnce, PermitsBalanced, [Next]_vars
  PROVE  PermitsBalanced'
<1> SUFFICES ASSUME ~starved' PROVE Balanced'
  BY DEF PermitsBalanced, Balanced
<1>1. ~starved /\ Balanced
  BY PermitEffect DEF PermitsBalanced, Balanced
<1>2. \A c \in Calls : /\ phase[c] \in Handling => due[c] = 0
                       /\ due[c] > 0 => taken[c] = 0
  BY <1>1 DEF PermitsHeldOnce
<1>3. CASE UNCHANGED <<taken, due, permits>>
  BY <1>1, <1>3, SameHeld DEF Held
<1>4. ASSUME NEW c \in Calls, TakePermit(c) PROVE Balanced'
  <2>1. due[c] = 0 /\ UNCHANGED due
    BY <1>2, <1>4 DEF TakePermit, Handling, work
  <2>2. Held(c) = taken[c] /\ Held(c)' = Held(c) + 1 /\ Held(c)' <= Arity(c)
    BY <1>4, <2>1, ScopePlaces DEF TakePermit, Held, TypeOK
  <2>3. \A d \in Calls \ {c} : Held(d)' = Held(d)
    BY <1>4, <2>1 DEF TakePermit, Held, TypeOK
  <2> QED
    BY <1>1, <1>4, <2>2, <2>3, OneMore DEF TakePermit
<1>5. ASSUME NEW c \in Calls, Unwind(c) PROVE Balanced'
  <2>1. due[c] = 0 /\ UNCHANGED due
    BY <1>2, <1>5 DEF Unwind, Handling, work
  <2>2. Held(c) = taken[c] /\ Held(c)' = Held(c) - 1 /\ Held(c) > 0 /\ Held(c) <= Arity(c)
    BY <1>5, <2>1 DEF Unwind, Held, TypeOK
  <2>3. \A d \in Calls \ {c} : Held(d)' = Held(d)
    BY <1>5, <2>1 DEF Unwind, Held, TypeOK
  <2> QED
    BY <1>1, <1>5, <2>2, <2>3, OneFewer DEF Unwind, GiveBack
<1>6. ASSUME NEW c \in Calls, Submit(c) PROVE Balanced'
  <2>1. due[c] = 0 /\ UNCHANGED permits
    BY <1>2, <1>6 DEF Submit, Handling
  <2>2. \A d \in Calls : Held(d)' = Held(d)
    BY <1>6, <2>1 DEF Submit, Held, TypeOK
  <2> QED
    BY <1>1, <2>1, <2>2, SameHeld
<1>7. ASSUME NEW c \in Calls, ReleasePermit(c) PROVE Balanced'
  <2>1. taken[c] = 0 /\ UNCHANGED taken
    BY <1>2, <1>7 DEF ReleasePermit
  <2>2. Held(c) = due[c] /\ Held(c)' = Held(c) - 1 /\ Held(c) > 0 /\ Held(c) <= Arity(c)
    BY <1>7, <2>1 DEF ReleasePermit, Held, TypeOK
  <2>3. \A d \in Calls \ {c} : Held(d)' = Held(d)
    BY <1>7, <2>1 DEF ReleasePermit, Held, TypeOK
  <2> QED
    BY <1>1, <1>7, <2>2, <2>3, OneFewer DEF ReleasePermit, GiveBack
<1>8. ASSUME NEW p \in Procs, Crash(p) PROVE Balanced'
  <2>1. \A d \in Calls : Held(d)' = IF ProcOf[d] = p THEN 0 ELSE Held(d)
    BY <1>8 DEF Crash, Held
  <2>2. \A r, s : Holders(r, s)' = IF r = p THEN {} ELSE Holders(r, s)
    <3>1. \A d \in Calls : \A r, s :
            d \in Holders(r, s)' <=> r # p /\ d \in Holders(r, s)
      BY <2>1, HeldHolds
    <3> QED
      BY <3>1 DEF Holders
  <2>3. ASSUME NEW r \in Procs, NEW s \in Scopes
        PROVE  permits'[r][s] + Cardinality(Holders(r, s)') = Limit[s]
    <3>1. CASE r = p
      <4>1. Cardinality(Holders(r, s)') = 0
        BY <2>2, <3>1, FS_EmptySet
      <4>2. permits'[r][s] = Limit[s] /\ Limit[s] \in Nat
        BY <1>8, <3>1, StreamAssumption DEF Crash, TypeOK
      <4> QED
        BY <4>1, <4>2
    <3>2. CASE r # p
      BY <1>1, <1>8, <2>2, <3>2 DEF Crash, Balanced, TypeOK
    <3> QED
      BY <3>1, <3>2
  <2> QED
    BY <2>3 DEF Balanced
<1> QED
  BY <1>3, <1>4, <1>5, <1>6, <1>7, <1>8, PermitEffect DEF Moves

\* The inductive invariant, for all values of the constants.
THEOREM StreamInvariant == Spec => []IInv
<1>1. Init => PermitsHeldOnce /\ PermitsBalanced
  BY InitPermits
<1>2. TypeOK /\ TypeOK' /\ PermitsHeldOnce /\ PermitsBalanced /\ [Next]_vars
        => PermitsHeldOnce' /\ PermitsBalanced'
  BY NextHeldOnce, NextBalanced
<1>3. TypeOK /\ PermitsHeldOnce /\ PermitsBalanced /\ SharedCapacityKept => IInv
  BY DEF IInv
<1> QED
  BY <1>1, <1>2, <1>3, StreamTypes, SharedCapacity, PTL DEF Spec

\* No permit of a process is lost or given back twice, whichever way its calls are
\* refused, fail or are cut short, as long as threads can be started.
THEOREM PermitsAreKept == Spec => []PermitsBalanced
  BY StreamInvariant, PTL DEF IInv

-----------------------------------------------------------------------------
(* What is over holds nothing.                                             *)

\* The permit a call gives back is out: BoundedSemaphore.release never raises.
LEMMA PermitIsOut ==
  ASSUME TypeOK, Balanced, NEW c \in Calls, NEW i \in 1 .. Held(c), i <= Arity(c)
  PROVE  Free(c, i) < Limit[ScopesOf[c][i]]
<1> DEFINE p == ProcOf[c]
           s == ScopesOf[c][i]
<1>1. p \in Procs /\ s \in Scopes /\ i \in Nat
  BY ScopePlaces DEF Held, TypeOK
<1>2. c \in Holders(p, s)
  BY DEF Holders, Held
<1>3. Cardinality(Holders(p, s)) > 0
  <2>1. IsFiniteSet(Holders(p, s)) /\ Cardinality(Holders(p, s)) \in Nat
    BY HoldersFinite
  <2>2. /\ Cardinality(Holders(p, s) \ {c}) \in Nat
        /\ Cardinality(Holders(p, s) \ {c}) = Cardinality(Holders(p, s)) - 1
    BY <1>2, <2>1, RemoveOne
  <2> QED
    BY <2>1, <2>2
<1>4. permits[p][s] + Cardinality(Holders(p, s)) = Limit[s]
  BY <1>1 DEF Balanced
<1>5. permits[p][s] \in Nat /\ Limit[s] \in Nat
  BY <1>1, StreamAssumption DEF TypeOK
<1> QED
  BY <1>3, <1>4, <1>5, HoldersFinite DEF Free

LEMMA NoReleaseRaises ==
  ASSUME IInv, ~starved, NEW c \in Calls
  PROVE  ~ReleaseRaises(c)
<1>1. TypeOK /\ Balanced
  BY DEF IInv, PermitsBalanced, Balanced
<1>2. due[c] > 0 => due[c] \in 1 .. Held(c) /\ due[c] <= Arity(c)
  BY <1>1 DEF TypeOK, Held
<1>3. taken[c] > 0 => taken[c] \in 1 .. Held(c) /\ taken[c] <= Arity(c)
  BY <1>1 DEF TypeOK, Held
<1>4. due[c] > 0 => Free(c, due[c]) < Limit[ScopesOf[c][due[c]]]
  BY <1>1, <1>2, PermitIsOut
<1>5. taken[c] > 0 => Free(c, taken[c]) < Limit[ScopesOf[c][taken[c]]]
  BY <1>1, <1>3, PermitIsOut
<1>6. \A i \in 1 .. Arity(c) : Free(c, i) \in Nat /\ Limit[ScopesOf[c][i]] \in Nat
  BY <1>1, ScopePlaces, StreamAssumption DEF TypeOK, Free
<1> QED
  BY <1>1, <1>4, <1>5, <1>6 DEF ReleaseRaises, TypeOK

\* What a step of one call leaves of another: it may purge its lease.
Kept(d) ==
  /\ phase'[d] = phase[d] /\ taken'[d] = taken[d] /\ due'[d] = due[d] /\ job'[d] = job[d]
  /\ queue'[d] = queue[d] /\ last'[d] = last[d]
  /\ guard'[d] = guard[d] /\ lease'[d] \in {lease[d], "none"}

LEMMA PutKeeps ==
  ASSUME TypeOK, NEW c \in Calls, NEW d \in Calls, d # c, NEW e, Put(c, e)
  PROVE  queue'[d] = queue[d]
BY DEF Put, TypeOK

LEMMA OthersKept ==
  ASSUME TypeOK, NEW c \in Calls, NEW d \in Calls, d # c,
         Handle(c) \/ Run(c) \/ Fail(c) \/ Tick(c)
  PROVE  Kept(d)
<1> USE DEF TypeOK, Kept, Goto, JobGoto, local, shared, work, stream, history
<1>1. CASE TakePermit(c) \/ FindNoPermit(c) \/ LeaseRefused(c) \/ StartGuard(c)
             \/ RateAccepts(c) \/ RateRefuses(c) \/ Unwind(c) \/ Unwound(c)
  BY <1>1 DEF TakePermit, FindNoPermit, LeaseRefused, StartGuard, RateAccepts, RateRefuses,
       Unwind, Unwound
<1>2. CASE AcquireLease(c)
  BY <1>2 DEF AcquireLease, Purged
<1>3. CASE GiveUpLease(c)
  BY <1>3 DEF GiveUpLease, CloseGuard
<1>4. CASE Submit(c) \/ Pull(c) \/ Resume(c)
  BY <1>4 DEF Submit, Pull, Resume
<1>5. CASE TellFailure(c) \/ TellEnd(c)
  BY <1>5, PutKeeps DEF TellFailure, TellEnd
<1>6. CASE RunStarts(c) \/ Answer(c) \/ Raise(c) \/ ReleasePermit(c)
  BY <1>6 DEF RunStarts, Answer, Raise, ReleasePermit
<1>7. CASE ReportStage(c) \/ PutVerdict(c) \/ PutEnd(c)
  BY <1>7, PutKeeps DEF ReportStage, PutVerdict, PutEnd
<1>8. CASE ReleaseLease(c)
  BY <1>8 DEF ReleaseLease, CloseGuard
<1>9. CASE Fail(c)
  BY <1>9 DEF Fail, GuardStartFails, SubmitFails, Abandon, Disconnect, ResultGuardFails,
       ReleaseRaises
<1>10. CASE Tick(c)
  BY <1>10 DEF Tick, Renew, RenewFails, LateRenew, LeaseAges
<1> QED
  BY <1>1, <1>2, <1>3, <1>4, <1>5, <1>6, <1>7, <1>8, <1>9, <1>10 DEF Handle, Run

LEMMA KeptPlaced ==
  ASSUME NEW d \in Calls, Kept(d), Placed(d)
  PROVE  Placed(d)'
BY DEF Kept, Placed, Idle, EndSent

\* An event other than the end does not send the end; nothing is lost.
LEMMA PutAppends ==
  ASSUME TypeOK, NEW c \in Calls, NEW e \in Events, Put(c, e)
  PROVE  \/ queue'[c] = queue[c] /\ Disconnected(c)
         \/ /\ queue'[c] \in Seq(Events) /\ queue[c] \in Seq(Events)
            /\ Len(queue[c]) \in Nat /\ Len(queue'[c]) = Len(queue[c]) + 1
            /\ queue'[c][Len(queue[c]) + 1] = e
            /\ \A i \in 1 .. Len(queue[c]) : queue'[c][i] = queue[c][i]
<1>1. queue[c] \in Seq(Events) /\ Len(queue[c]) \in Nat
  BY DEF TypeOK
<1>2. CASE Disconnected(c) /\ UNCHANGED queue
  BY <1>2
<1>3. CASE queue' = [queue EXCEPT ![c] = Append(@, e)]
  <2>1. queue'[c] = Append(queue[c], e)
    BY <1>3 DEF TypeOK
  <2> QED
    BY <1>1, <2>1, AppendProperties
<1> QED
  BY <1>2, <1>3 DEF Put

LEMMA PutEndSent ==
  ASSUME TypeOK, NEW c \in Calls, NEW e \in Events, Put(c, e), e # "end"
  PROVE  EndSent(c)' => EndSent(c)
<1>1. CASE queue'[c] = queue[c]
  BY <1>1 DEF EndSent
<1>2. CASE queue'[c] # queue[c]
  <2>1. /\ Len(queue[c]) \in Nat /\ Len(queue'[c]) = Len(queue[c]) + 1
        /\ queue'[c][Len(queue[c]) + 1] = e
        /\ \A i \in 1 .. Len(queue[c]) : queue'[c][i] = queue[c][i]
    BY <1>2, PutAppends
  <2>2. \A i \in 1 .. Len(queue'[c]) : i \in 1 .. Len(queue[c]) \/ i = Len(queue[c]) + 1
    BY <2>1
  <2> QED
    BY <2>1, <2>2 DEF EndSent
<1> QED
  BY <1>1, <1>2

\* The queue after a pull.
LEMMA PullShifts ==
  ASSUME TypeOK, NEW c \in Calls, Pull(c)
  PROVE  /\ Len(queue[c]) \in Nat \ {0} /\ Len(queue'[c]) = Len(queue[c]) - 1
         /\ \A i \in 1 .. Len(queue'[c]) : queue'[c][i] = queue[c][i + 1]
         /\ Head(queue[c]) = queue[c][1]
BY DEF Pull, TypeOK

LEMMA HandlePlaced ==
  ASSUME TypeOK, NEW c \in Calls, Placed(c), Handle(c)
  PROVE  Placed(c)'
<1> USE DEF TypeOK, Placed, Idle, Serving, Goto, JobGoto, local, shared, work, stream, history
<1>1. CASE TakePermit(c) \/ FindNoPermit(c) \/ LeaseRefused(c)
  BY <1>1 DEF TakePermit, FindNoPermit, LeaseRefused, EndSent
<1>2. CASE StartGuard(c) \/ RateAccepts(c) \/ RateRefuses(c)
  BY <1>2 DEF StartGuard, RateAccepts, RateRefuses, EndSent
<1>3. CASE AcquireLease(c)
  BY <1>3 DEF AcquireLease, Purged, EndSent
<1>4. CASE GiveUpLease(c)
  BY <1>4 DEF GiveUpLease, CloseGuard, EndSent, Guards
<1>5. CASE Unwind(c) \/ Unwound(c)
  BY <1>5 DEF Unwind, Unwound, EndSent
<1>6. CASE Submit(c)
  BY <1>6 DEF Submit, EndSent
<1>7. CASE TellFailure(c)
  <2>1. EndSent(c)' => EndSent(c)
    BY <1>7, PutEndSent DEF TellFailure, Events
  <2> QED
    BY <1>7, <2>1 DEF TellFailure
<1>8. CASE TellEnd(c)
  BY <1>8 DEF TellEnd
<1>9. CASE Pull(c)
  <2>0. /\ Len(queue[c]) \in Nat \ {0} /\ Len(queue'[c]) = Len(queue[c]) - 1
        /\ \A i \in 1 .. Len(queue'[c]) : queue'[c][i] = queue[c][i + 1]
        /\ Head(queue[c]) = queue[c][1]
    BY <1>9, PullShifts
  <2>1. EndSent(c)' => EndSent(c)
    <3>1. \A i \in 1 .. Len(queue'[c]) : i + 1 \in 1 .. Len(queue[c])
      BY <2>0
    <3> QED
      BY <2>0, <3>1 DEF EndSent
  <2>2. Head(queue[c]) = "end" => EndSent(c)
    <3>1. 1 \in 1 .. Len(queue[c])
      BY <2>0
    <3> QED
      BY <2>0, <3>1 DEF EndSent
  <2>3. phase'[c] \in {"finished", "suspended"} /\ (phase'[c] = "finished" => EndSent(c))
    BY <1>9, <2>2 DEF Pull
  <2> QED
    BY <1>9, <2>1, <2>3 DEF Pull
<1>10. CASE Resume(c)
  BY <1>10 DEF Resume, EndSent
<1> QED
  BY <1>1, <1>2, <1>3, <1>4, <1>5, <1>6, <1>7, <1>8, <1>9, <1>10 DEF Handle

LEMMA RunPlaced ==
  ASSUME TypeOK, NEW c \in Calls, Placed(c), Run(c)
  PROVE  Placed(c)'
<1> USE DEF TypeOK, Placed, Idle, Serving, JobGoto, local, shared, work, stream, history
<1>1. CASE RunStarts(c) \/ Answer(c) \/ Raise(c) \/ ReleasePermit(c)
  BY <1>1 DEF RunStarts, Answer, Raise, ReleasePermit, EndSent
<1>2. CASE ReportStage(c)
  <2>1. EndSent(c)' => EndSent(c)
    BY <1>2, PutEndSent DEF ReportStage, Events
  <2> QED
    BY <1>2, <2>1 DEF ReportStage
<1>3. CASE PutVerdict(c)
  <2>1. EndSent(c)' => EndSent(c)
    BY <1>3, PutEndSent DEF PutVerdict, Events
  <2> QED
    BY <1>3, <2>1 DEF PutVerdict
<1>4. CASE ReleaseLease(c)
  BY <1>4 DEF ReleaseLease, CloseGuard, EndSent, Guards
<1>5. CASE PutEnd(c)
  BY <1>5 DEF PutEnd
<1> QED
  BY <1>1, <1>2, <1>3, <1>4, <1>5 DEF Run

LEMMA FailPlaced ==
  ASSUME IInv, ~starved', NEW c \in Calls, Placed(c), Fail(c) \/ Tick(c), ~starved
  PROVE  Placed(c)'
<1> USE DEF Placed, Idle, Serving, Goto, JobGoto, local, shared, work, stream, history
<1>0. TypeOK
  BY DEF IInv
<1>1. CASE Fail(c)
  <2>1. CASE SubmitFails(c)
    BY <1>0, <2>1 DEF SubmitFails, TypeOK, EndSent
  <2>2. CASE Abandon(c) \/ Disconnect(c)
    BY <1>0, <2>2 DEF Abandon, Disconnect, TypeOK, EndSent
  <2>3. CASE GuardStartFails(c) \/ ResultGuardFails(c)
    BY <2>3 DEF GuardStartFails, ResultGuardFails
  <2> QED
    BY <1>1, <2>1, <2>2, <2>3, NoReleaseRaises DEF Fail
<1>2. CASE Tick(c)
  BY <1>0, <1>2 DEF Tick, Renew, RenewFails, LateRenew, LeaseAges, Live, TypeOK, EndSent
<1> QED
  BY <1>1, <1>2

LEMMA CrashPlaced ==
  ASSUME TypeOK, NEW p \in Procs, Crash(p), NEW d \in Calls, Placed(d)
  PROVE  Placed(d)'
<1>1. queue' = queue /\ lease' = lease
  BY DEF Crash, stream
<1>2. CASE ProcOf[d] # p
  <2>1. /\ phase'[d] = phase[d] /\ taken'[d] = taken[d] /\ due'[d] = due[d]
        /\ job'[d] = job[d] /\ guard'[d] = guard[d]
    BY <1>2 DEF Crash
  <2> QED
    BY <1>1, <2>1 DEF Placed, Idle, EndSent
<1>3. CASE ProcOf[d] = p
  <2>1. taken'[d] = 0 /\ due'[d] = 0 /\ guard'[d] = "none"
    BY <1>3 DEF Crash
  <2>2. job'[d] = IF job[d] \notin {"none", "done"} THEN "dead" ELSE job[d]
    BY <1>3 DEF Crash
  <2>3. \/ phase'[d] = "dead"
        \/ phase'[d] = phase[d] /\ phase[d] \in {"refused", "finished", "gone", "entering"}
    BY <1>3 DEF Crash
  <2> QED
    BY <1>1, <2>1, <2>2, <2>3 DEF Placed, Idle, EndSent, Serving
<1> QED
  BY <1>2, <1>3

LEMMA NextPlaced == IInv /\ AllPlaced /\ [Next]_vars => AllPlaced'
<1> SUFFICES ASSUME IInv, AllPlaced, [Next]_vars, ~starved', NEW d \in Calls
             PROVE  Placed(d)'
  BY DEF AllPlaced
<1>1. TypeOK /\ ~starved
  BY PermitEffect DEF IInv
<1>2. \A e \in Calls : Placed(e)
  BY <1>1 DEF AllPlaced
<1>3. CASE UNCHANGED vars
  BY <1>2, <1>3 DEF vars, Placed, Idle, EndSent
<1>4. ASSUME NEW c \in Calls, Handle(c) \/ Run(c) \/ Fail(c) \/ Tick(c)
      PROVE  Placed(d)'
  <2>1. CASE d = c
    BY <1>1, <1>2, <1>4, <2>1, HandlePlaced, RunPlaced, FailPlaced
  <2>2. CASE d # c
    BY <1>1, <1>2, <1>4, <2>2, OthersKept, KeptPlaced
  <2> QED
    BY <2>1, <2>2
<1>5. ASSUME NEW p \in Procs, Crash(p)
      PROVE  Placed(d)'
  BY <1>1, <1>2, <1>5, CrashPlaced
<1> QED
  BY <1>3, <1>4, <1>5 DEF Next

LEMMA InitPlaced == Init => AllPlaced
BY DEF Init, AllPlaced, Placed, Idle, EndSent, Serving

\* A call that is over, that its client sees ended, or that was refused, holds
\* neither permits nor, if it could be deleted, a lease, and nothing renews one.
THEOREM NothingIsLeftBehind == Spec => []OverHoldsNothing
<1>1. AllPlaced => OverHoldsNothing
  BY DEF AllPlaced, Placed, OverHoldsNothing, Over, Idle, Serving
<1> QED
  BY <1>1, InitPlaced, NextPlaced, StreamInvariant, PTL DEF Spec

-----------------------------------------------------------------------------
(* Every stream has one verdict.                                           *)

\* r is q with one event more.
Extends(r, q, e) ==
  /\ Len(q) \in Nat /\ Len(r) = Len(q) + 1 /\ r[Len(q) + 1] = e
  /\ \A i \in 1 .. Len(q) : r[i] = q[i]

\* A stage, or the verdict, goes into a queue that has neither verdict nor end.
LEMMA StageInOrder ==
  ASSUME NEW q, NEW r, NEW l, NEW e \in Events, Extends(r, q, e), e # "end",
         Without(q, {"end"}), Without(q, Verdicts), l \notin Verdicts
  PROVE  InOrder(r, l) /\ (e \notin Verdicts => Without(r, Verdicts))
         /\ (e \in Verdicts => ~Without(r, Verdicts))
<1>1. \A i \in 1 .. Len(r) : i \in 1 .. Len(q) \/ i = Len(q) + 1
  BY DEF Extends
<1>2. Len(q) + 1 \in 1 .. Len(r) /\ Len(q) \in Nat
  BY DEF Extends
<1>3. \A i \in 1 .. Len(r) : r[i] # "end" /\ (r[i] \in Verdicts => i = Len(r))
  BY <1>1 DEF Extends, Without
<1>4. \A i, j \in 1 .. Len(r) : i = Len(r) => ~(i < j)
  BY <1>2 DEF Extends
<1>5. InOrder(r, l)
  BY <1>3, <1>4 DEF InOrder
<1>6. e \notin Verdicts => Without(r, Verdicts)
  BY <1>1 DEF Extends, Without
<1> QED
  BY <1>2, <1>5, <1>6 DEF Extends, Without

\* The end goes behind the verdict.
LEMMA EndInOrder ==
  ASSUME NEW q, NEW r, NEW l, Extends(r, q, "end"), InOrder(q, l),
         Without(q, {"end"}), l \in Verdicts \/ ~Without(q, Verdicts)
  PROVE  InOrder(r, l) /\ (Without(r, Verdicts) => Without(q, Verdicts))
<1>1. \A i \in 1 .. Len(r) : i \in 1 .. Len(q) \/ i = Len(q) + 1
  BY DEF Extends
<1>2. Len(q) \in Nat /\ Len(r) = Len(q) + 1 /\ \A i \in 1 .. Len(q) : i \in 1 .. Len(r)
  BY DEF Extends
<1>3. l \in Verdicts => Len(q) = 0
  <2>1. Len(q) > 0 => 1 \in 1 .. Len(q)
    BY <1>2
  <2> QED
    BY <1>2, <2>1 DEF InOrder, Without
<1>4. \A i \in 1 .. Len(q) : q[i] \in Verdicts => i = Len(q)
  <2>1. \A i \in 1 .. Len(q) : i # Len(q) => i < Len(q) /\ Len(q) \in 1 .. Len(q)
    BY <1>2
  <2> QED
    BY <2>1 DEF InOrder, Without
<1>5. IF Len(q) = 0 THEN l \in Verdicts ELSE q[Len(q)] \in Verdicts
  <2>1. CASE Len(q) = 0
    <3>1. \A i \in 1 .. Len(q) : FALSE
      BY <2>1
    <3> QED
      BY <2>1, <3>1 DEF Without
  <2>2. CASE Len(q) # 0
    <3>1. l \notin Verdicts
      BY <1>3, <2>2
    <3>2. PICK i \in 1 .. Len(q) : q[i] \in Verdicts
      BY <3>1 DEF Without
    <3> QED
      BY <1>4, <2>2, <3>2
  <2> QED
    BY <2>1, <2>2
<1>6. \A i \in 1 .. Len(r) : r[i] = "end" => i = Len(q) + 1
  BY <1>1 DEF Extends, Without
<1>7. \A i \in 1 .. Len(r) : r[i] \in Verdicts => i = Len(q)
  BY <1>1, <1>4 DEF Extends, Verdicts
<1>8. l \in Verdicts => \A j \in 1 .. Len(r) : r[j] = "end"
  BY <1>1, <1>2, <1>3 DEF Extends
<1>9. \A i, j \in 1 .. Len(r) : /\ r[i] \in Verdicts /\ i < j => r[j] = "end"
                                /\ r[i] = "end" => j <= i
  <2> SUFFICES ASSUME NEW i \in 1 .. Len(r), NEW j \in 1 .. Len(r)
               PROVE  /\ r[i] \in Verdicts /\ i < j => r[j] = "end"
                      /\ r[i] = "end" => j <= i
    OBVIOUS
  <2>1. r[i] \in Verdicts /\ i < j => j = Len(q) + 1
    BY <1>2, <1>7
  <2>2. r[i] = "end" => j <= i
    BY <1>2, <1>6
  <2> QED
    BY <2>1, <2>2 DEF Extends
<1>10. \A i \in 1 .. Len(r) : r[i] = "end" =>
         IF i = 1 THEN l \in Verdicts ELSE r[i - 1] \in Verdicts
  <2> SUFFICES ASSUME NEW i \in 1 .. Len(r), r[i] = "end"
               PROVE  IF i = 1 THEN l \in Verdicts ELSE r[i - 1] \in Verdicts
    OBVIOUS
  <2>1. i = Len(q) + 1 /\ (i # 1 => Len(q) \in 1 .. Len(q)) /\ (i = 1 => Len(q) = 0) /\ i - 1 = Len(q)
    BY <1>2, <1>6
  <2> QED
    BY <1>2, <1>5, <2>1 DEF Extends
<1>11. Without(r, Verdicts) => Without(q, Verdicts)
  BY <1>2 DEF Extends, Without
<1> QED
  BY <1>8, <1>9, <1>10, <1>11 DEF InOrder

\* The client is sent the head of the queue.
LEMMA RestInOrder ==
  ASSUME NEW q, NEW r, NEW l, Len(q) \in Nat \ {0}, Len(r) = Len(q) - 1,
         \A i \in 1 .. Len(r) : r[i] = q[i + 1], InOrder(q, l)
  PROVE  /\ q[1] = "end" => l \in Verdicts /\ InOrder(r, l)
         /\ q[1] # "end" => l \notin Verdicts /\ InOrder(r, q[1])
         /\ Without(q, Verdicts) => Without(r, Verdicts)
         /\ ~Without(q, Verdicts) => q[1] \in Verdicts \/ ~Without(r, Verdicts)
<1>1. 1 \in 1 .. Len(q) /\ \A i \in 1 .. Len(r) : i + 1 \in 1 .. Len(q) /\ 1 < i + 1
  OBVIOUS
<1>2. \A i \in 1 .. Len(q) : i = 1 \/ (i - 1 \in 1 .. Len(r) /\ r[i - 1] = q[i])
  OBVIOUS
<1>3. q[1] = "end" => l \in Verdicts
  BY <1>1 DEF InOrder
<1>4. q[1] # "end" => l \notin Verdicts
  BY <1>1 DEF InOrder
<1>5. q[1] = "end" => Len(r) = 0
  <2>1. q[1] = "end" => \A j \in 1 .. Len(q) : j <= 1
    BY <1>1 DEF InOrder
  <2>2. Len(q) \in 1 .. Len(q)
    OBVIOUS
  <2> QED
    BY <2>1, <2>2
<1>6. q[1] = "end" => InOrder(r, l)
  BY <1>5 DEF InOrder
<1>7. ASSUME q[1] # "end" PROVE InOrder(r, q[1])
  <2>1. q[1] \in Verdicts => \A j \in 1 .. Len(r) : r[j] = "end"
    BY <1>1 DEF InOrder
  <2>2. \A i, j \in 1 .. Len(r) : /\ r[i] \in Verdicts /\ i < j => r[j] = "end"
                                  /\ r[i] = "end" => j <= i
    <3> SUFFICES ASSUME NEW i \in 1 .. Len(r), NEW j \in 1 .. Len(r)
                 PROVE  /\ r[i] \in Verdicts /\ i < j => r[j] = "end"
                        /\ r[i] = "end" => j <= i
      OBVIOUS
    <3>1. /\ i + 1 \in 1 .. Len(q) /\ j + 1 \in 1 .. Len(q)
          /\ r[i] = q[i + 1] /\ r[j] = q[j + 1]
          /\ i < j <=> i + 1 < j + 1
          /\ j <= i <=> j + 1 <= i + 1
      BY <1>1
    <3> QED
      BY <3>1 DEF InOrder
  <2>3. \A i \in 1 .. Len(r) : r[i] = "end" =>
          IF i = 1 THEN q[1] \in Verdicts ELSE r[i - 1] \in Verdicts
    <3> SUFFICES ASSUME NEW i \in 1 .. Len(r), r[i] = "end"
                 PROVE  IF i = 1 THEN q[1] \in Verdicts ELSE r[i - 1] \in Verdicts
      OBVIOUS
    <3>1. i + 1 \in 1 .. Len(q) /\ q[i + 1] = "end" /\ i + 1 # 1 /\ (i + 1) - 1 = i
      BY <1>1
    <3>2. q[i] \in Verdicts
      BY <3>1 DEF InOrder
    <3>3. i # 1 => i \in 1 .. Len(q) /\ r[i - 1] = q[i]
      BY <1>1, <1>2
    <3> QED
      BY <3>2, <3>3
  <2> QED
    BY <2>1, <2>2, <2>3 DEF InOrder
<1>8. Without(q, Verdicts) => Without(r, Verdicts)
  BY <1>1 DEF Without
<1>9. ~Without(q, Verdicts) => q[1] \in Verdicts \/ ~Without(r, Verdicts)
  BY <1>2 DEF Without
<1> QED
  BY <1>3, <1>4, <1>6, <1>7, <1>8, <1>9

\* What a put does to the queue of its call.
LEMMA PutExtends ==
  ASSUME TypeOK, NEW c \in Calls, NEW e \in Events, Put(c, e)
  PROVE  \/ queue'[c] = queue[c] /\ Disconnected(c)
         \/ Extends(queue'[c], queue[c], e)
BY PutAppends DEF Extends

LEMMA NoEnd ==
  ASSUME NEW c \in Calls
  PROVE  ~EndSent(c) <=> Without(queue[c], {"end"})
BY DEF EndSent, Without

\* A step that leaves the queue and what the client was sent.
LEMMA QuietOrderly ==
  ASSUME NEW c \in Calls, Orderly(c), queue'[c] = queue[c], last'[c] = last[c],
         Undecided(c)' => Undecided(c),
         phase'[c] \in {"ending", "pulling", "suspended"} /\ ~Undecided(c)' =>
           phase[c] \in {"ending", "pulling", "suspended"} /\ ~Undecided(c)
  PROVE  Orderly(c)'
BY DEF Orderly, NoVerdictYet

LEMMA HandleOrderly ==
  ASSUME TypeOK, NEW c \in Calls, Placed(c), Orderly(c), Handle(c)
  PROVE  Orderly(c)'
<1> USE DEF TypeOK, Goto, JobGoto, local, shared, work, stream, history
<1>1. CASE \/ TakePermit(c) \/ FindNoPermit(c) \/ LeaseRefused(c) \/ AcquireLease(c)
           \/ StartGuard(c) \/ RateAccepts(c) \/ RateRefuses(c) \/ GiveUpLease(c)
           \/ Unwind(c) \/ Unwound(c) \/ Resume(c)
  <2>1. queue' = queue /\ last' = last /\ job' = job
    BY <1>1 DEF TakePermit, FindNoPermit, LeaseRefused, AcquireLease, StartGuard, RateAccepts,
         RateRefuses, GiveUpLease, Unwind, Unwound, Resume
  <2>2. \/ phase'[c] \notin {"ending"} \cup Serving /\ phase[c] \notin {"ending"} \cup Serving
        \/ phase[c] = "suspended" /\ phase'[c] = "pulling"
    BY <1>1 DEF TakePermit, FindNoPermit, LeaseRefused, AcquireLease, StartGuard, RateAccepts,
         RateRefuses, GiveUpLease, Unwind, Unwound, Resume, Serving
  <2>3. phase[c] \notin Serving => job[c] = "none"
    BY DEF Placed
  <2> QED
    BY <2>1, <2>2, <2>3, QuietOrderly DEF Undecided, Serving
<1>2. CASE Submit(c)
  <2>1. /\ queue' = queue /\ last' = last /\ job'[c] = "queued"
        /\ phase[c] = "accepted" /\ phase'[c] = "pulling" /\ job[c] = "none"
    BY <1>2 DEF Submit, Placed, Serving
  <2> QED
    BY <2>1, QuietOrderly DEF Undecided, Serving
<1>3. CASE TellFailure(c)
  <2>1. /\ phase[c] = "telling" /\ phase'[c] = "ending" /\ job' = job /\ last' = last
        /\ Put(c, "error") /\ "error" \in Events /\ job[c] = "none" /\ ~EndSent(c)
    BY <1>3 DEF TellFailure, Placed, Serving, Events
  <2>2. Extends(queue'[c], queue[c], "error")
    BY <2>1, PutExtends DEF Disconnected
  <2>3. NoVerdictYet(c)
    BY <2>1 DEF Orderly, Undecided, Serving
  <2>4. InOrder(queue'[c], last[c]) /\ ~Without(queue'[c], Verdicts)
    BY <2>1, <2>2, <2>3, NoEnd, StageInOrder DEF NoVerdictYet, Verdicts
  <2> QED
    BY <2>1, <2>4 DEF Orderly, NoVerdictYet, Undecided
<1>4. CASE TellEnd(c)
  <2>1. /\ phase[c] = "ending" /\ phase'[c] = "pulling" /\ job' = job /\ last' = last
        /\ Put(c, "end") /\ "end" \in Events /\ job[c] = "none" /\ ~EndSent(c)
    BY <1>4 DEF TellEnd, Placed, Serving, Events
  <2>2. Extends(queue'[c], queue[c], "end")
    BY <2>1, PutExtends DEF Disconnected
  <2>3. ~NoVerdictYet(c) /\ InOrder(queue[c], last[c])
    BY <2>1 DEF Orderly, Undecided
  <2>4. InOrder(queue'[c], last[c]) /\ (Without(queue'[c], Verdicts) => Without(queue[c], Verdicts))
    BY <2>1, <2>2, <2>3, NoEnd, EndInOrder DEF NoVerdictYet
  <2> QED
    BY <2>1, <2>3, <2>4 DEF Orderly, NoVerdictYet, Undecided, Serving
<1>5. CASE Pull(c)
  <2>1. /\ Len(queue[c]) \in Nat \ {0} /\ Len(queue'[c]) = Len(queue[c]) - 1
        /\ \A i \in 1 .. Len(queue'[c]) : queue'[c][i] = queue[c][i + 1]
        /\ Head(queue[c]) = queue[c][1]
    BY <1>5, PullShifts
  <2>2. /\ phase[c] = "pulling" /\ job' = job
        /\ \/ queue[c][1] = "end" /\ phase'[c] = "finished" /\ last'[c] = last[c]
           \/ queue[c][1] # "end" /\ phase'[c] = "suspended" /\ last'[c] = queue[c][1]
    BY <1>5, <2>1 DEF Pull
  <2>3. InOrder(queue[c], last[c])
    BY DEF Orderly
  <2>4. /\ queue[c][1] = "end" => last[c] \in Verdicts /\ InOrder(queue'[c], last[c])
        /\ queue[c][1] # "end" => last[c] \notin Verdicts /\ InOrder(queue'[c], queue[c][1])
        /\ Without(queue[c], Verdicts) => Without(queue'[c], Verdicts)
        /\ ~Without(queue[c], Verdicts) =>
             queue[c][1] \in Verdicts \/ ~Without(queue'[c], Verdicts)
    BY <2>1, <2>3, RestInOrder
  <2>5. Undecided(c)' <=> Undecided(c)
    BY <2>2 DEF Undecided, Serving
  <2>6. queue[c][1] \in Verdicts => ~Without(queue[c], Verdicts)
    <3>1. 1 \in 1 .. Len(queue[c])
      BY <2>1
    <3> QED
      BY <3>1 DEF Without
  <2> QED
    BY <2>2, <2>4, <2>5, <2>6 DEF Orderly, NoVerdictYet
<1> QED
  BY <1>1, <1>2, <1>3, <1>4, <1>5 DEF Handle

LEMMA RunOrderly ==
  ASSUME TypeOK, NEW c \in Calls, Placed(c), Orderly(c), Run(c)
  PROVE  Orderly(c)'
<1> USE DEF TypeOK, JobGoto, local, shared, work, stream, history
<1>1. CASE RunStarts(c) \/ Answer(c) \/ Raise(c) \/ ReleasePermit(c) \/ ReleaseLease(c)
  <2>1. queue' = queue /\ last' = last /\ phase' = phase
    BY <1>1 DEF RunStarts, Answer, Raise, ReleasePermit, ReleaseLease
  <2>2. \/ /\ job[c] \in {"queued", "running"}
           /\ job'[c] \in {"running", "answering", "erroring"}
        \/ job[c] \in {"closing", "releasing"} /\ job'[c] = "releasing"
    BY <1>1 DEF RunStarts, Answer, Raise, ReleasePermit, ReleaseLease
  <2> QED
    BY <2>1, <2>2, QuietOrderly DEF Undecided
<1>2. CASE ReportStage(c)
  <2>1. /\ phase' = phase /\ job' = job /\ last' = last /\ job[c] = "running"
        /\ Put(c, "stage") /\ "stage" \in Events /\ ~EndSent(c)
    BY <1>2 DEF ReportStage, Placed, Events
  <2>2. NoVerdictYet(c) /\ Undecided(c) /\ Undecided(c)'
    BY <2>1 DEF Orderly, Undecided
  <2>3. CASE queue'[c] = queue[c]
    BY <2>1, <2>2, <2>3, QuietOrderly
  <2>4. CASE Extends(queue'[c], queue[c], "stage")
    <3>1. InOrder(queue'[c], last[c]) /\ Without(queue'[c], Verdicts)
      BY <2>1, <2>2, <2>4, NoEnd, StageInOrder DEF NoVerdictYet, Verdicts
    <3> QED
      BY <2>1, <2>2, <3>1 DEF Orderly, NoVerdictYet
  <2> QED
    BY <2>1, <2>3, <2>4, PutExtends
<1>3. CASE PutVerdict(c)
  <2>1. /\ phase' = phase /\ last' = last /\ job[c] \in {"answering", "erroring"}
        /\ job'[c] = "closing" /\ ~EndSent(c)
    BY <1>3 DEF PutVerdict, Placed
  <2>2. PICK e \in Events : e \in Verdicts /\ Put(c, e)
    BY <1>3 DEF PutVerdict, Verdicts, Events
  <2>3. NoVerdictYet(c) /\ ~Undecided(c)'
    BY <2>1 DEF Orderly, Undecided
  <2>4. CASE queue'[c] = queue[c] /\ Disconnected(c)
    BY <2>1, <2>3, <2>4 DEF Orderly, NoVerdictYet, Disconnected
  <2>5. CASE Extends(queue'[c], queue[c], e)
    <3>1. InOrder(queue'[c], last[c]) /\ ~Without(queue'[c], Verdicts)
      BY <2>1, <2>2, <2>3, <2>5, NoEnd, StageInOrder DEF NoVerdictYet, Verdicts
    <3> QED
      BY <2>1, <2>3, <3>1 DEF Orderly, NoVerdictYet
  <2> QED
    BY <2>2, <2>4, <2>5, PutExtends
<1>4. CASE PutEnd(c)
  <2>1. /\ phase' = phase /\ last' = last /\ job[c] = "releasing" /\ job'[c] = "done"
        /\ Put(c, "end") /\ "end" \in Events /\ ~EndSent(c)
        /\ phase[c] \in Serving \ {"dead"}
    BY <1>4 DEF PutEnd, Placed, Events
  <2>2. ~Undecided(c) /\ ~Undecided(c)'
    BY <2>1 DEF Undecided
  <2>3. CASE queue'[c] = queue[c] /\ Disconnected(c)
    BY <2>1, <2>2, <2>3, QuietOrderly DEF Disconnected
  <2>4. CASE ~Disconnected(c) /\ Extends(queue'[c], queue[c], "end")
    <3>1. ~NoVerdictYet(c) /\ InOrder(queue[c], last[c])
      BY <2>1, <2>2, <2>4 DEF Orderly, Disconnected, Serving
    <3>2. InOrder(queue'[c], last[c]) /\ (Without(queue'[c], Verdicts) => Without(queue[c], Verdicts))
      BY <2>1, <2>4, <3>1, NoEnd, EndInOrder DEF NoVerdictYet
    <3> QED
      BY <2>1, <2>2, <3>1, <3>2 DEF Orderly, NoVerdictYet
  <2>5. Disconnected(c) => queue'[c] = queue[c]
    BY <2>1 DEF Put
  <2> QED
    BY <2>1, <2>3, <2>4, <2>5, PutExtends
<1> QED
  BY <1>1, <1>2, <1>3, <1>4 DEF Run

LEMMA FailOrderly ==
  ASSUME IInv, ~starved, ~starved', NEW c \in Calls, Placed(c), Orderly(c), Fail(c) \/ Tick(c)
  PROVE  Orderly(c)'
<1>1. CASE Tick(c)
  <2>1. UNCHANGED <<queue, last, job, phase>>
    BY <1>1 DEF Tick, Renew, RenewFails, LateRenew, LeaseAges, work, stream
  <2> QED
    BY <2>1, QuietOrderly DEF Undecided
<1>2. CASE Fail(c)
  <2>1. CASE SubmitFails(c) \/ Abandon(c) \/ Disconnect(c)
    <3>1. queue' = queue /\ last' = last /\ job' = job
      BY <2>1 DEF SubmitFails, Abandon, Disconnect, work, stream
    <3>2. \/ phase[c] = "accepted" /\ phase'[c] \in {"failing", "abandoned"}
          \/ phase[c] = "suspended" /\ phase'[c] = "gone"
      BY <2>1 DEF SubmitFails, Abandon, Disconnect, Goto, IInv, TypeOK
    <3> QED
      BY <3>1, <3>2, QuietOrderly DEF Undecided, Serving
  <2>2. CASE GuardStartFails(c) \/ ResultGuardFails(c)
    BY <2>2 DEF GuardStartFails, ResultGuardFails
  <2> QED
    BY <1>2, <2>1, <2>2, NoReleaseRaises DEF Fail
<1> QED
  BY <1>1, <1>2

LEMMA CrashOrderly ==
  ASSUME TypeOK, NEW p \in Procs, Crash(p), NEW d \in Calls, Orderly(d)
  PROVE  Orderly(d)'
<1>1. queue' = queue /\ last' = last
  BY DEF Crash, stream
<1>2. \/ phase'[d] = phase[d]
      \/ phase'[d] = "dead"
  BY DEF Crash
<1>3. \/ job'[d] = job[d]
      \/ job'[d] = "dead" /\ job[d] \notin {"none", "done"}
         /\ phase'[d] \in {"dead", "refused", "finished", "gone", "entering"}
  BY DEF Crash
<1> QED
  BY <1>1, <1>2, <1>3, QuietOrderly DEF Undecided, Serving

LEMMA KeptOrderly ==
  ASSUME NEW d \in Calls, Kept(d), Orderly(d)
  PROVE  Orderly(d)'
BY QuietOrderly DEF Kept, Undecided

LEMMA NextOrderly == IInv /\ AllPlaced /\ AllOrderly /\ [Next]_vars => AllOrderly'
<1> SUFFICES ASSUME IInv, AllPlaced, AllOrderly, [Next]_vars, ~starved', NEW d \in Calls
             PROVE  Orderly(d)'
  BY DEF AllOrderly
<1>1. TypeOK /\ ~starved
  BY PermitEffect DEF IInv
<1>2. \A e \in Calls : Placed(e) /\ Orderly(e)
  BY <1>1 DEF AllPlaced, AllOrderly
<1>3. CASE UNCHANGED vars
  BY <1>2, <1>3, QuietOrderly DEF vars, Undecided
<1>4. ASSUME NEW c \in Calls, Handle(c) \/ Run(c) \/ Fail(c) \/ Tick(c)
      PROVE  Orderly(d)'
  <2>1. CASE d = c
    BY <1>1, <1>2, <1>4, <2>1, HandleOrderly, RunOrderly, FailOrderly
  <2>2. CASE d # c
    BY <1>1, <1>2, <1>4, <2>2, OthersKept, KeptOrderly
  <2> QED
    BY <2>1, <2>2
<1>5. ASSUME NEW p \in Procs, Crash(p)
      PROVE  Orderly(d)'
  BY <1>1, <1>2, <1>5, CrashOrderly
<1> QED
  BY <1>3, <1>4, <1>5 DEF Next

LEMMA InitOrderly == Init => AllOrderly
BY DEF Init, AllOrderly, Orderly, InOrder, NoVerdictYet, Without, Verdicts, Undecided, Serving

\* Only a pull sends something to the client, or ends its stream.
LEMMA PullsTell ==
  ASSUME TypeOK, [Next]_vars, NEW c \in Calls
  PROVE  \/ Pull(c)
         \/ last'[c] = last[c] /\ ~(phase[c] = "pulling" /\ phase'[c] = "finished")
<1> USE DEF TypeOK, Goto, local, shared, work, stream, history
<1>1. CASE UNCHANGED vars
  BY <1>1 DEF vars
<1>2. ASSUME NEW d \in Calls, Handle(d), d = c, ~Pull(c)
      PROVE  last' = last /\ ~(phase[c] = "pulling" /\ phase'[c] = "finished")
  BY <1>2 DEF Handle, TakePermit, FindNoPermit, AcquireLease, LeaseRefused, StartGuard,
       RateAccepts, RateRefuses, GiveUpLease, Unwind, Unwound, Submit, TellFailure, TellEnd,
       Resume
<1>3. ASSUME NEW d \in Calls, Run(d)
      PROVE  last' = last /\ phase' = phase
  BY <1>3 DEF Run, RunStarts, ReportStage, Answer, Raise, PutVerdict, ReleaseLease,
       ReleasePermit, PutEnd
<1>4. ASSUME NEW d \in Calls, Fail(d)
      PROVE  last' = last /\ ~(phase[c] = "pulling" /\ phase'[c] = "finished")
  BY <1>4 DEF Fail, GuardStartFails, SubmitFails, Abandon, Disconnect, ResultGuardFails,
       ReleaseRaises
<1>5. ASSUME NEW d \in Calls, Tick(d)
      PROVE  last' = last /\ phase' = phase
  BY <1>5 DEF Tick, Renew, RenewFails, LateRenew, LeaseAges
<1>6. ASSUME NEW p \in Procs, Crash(p)
      PROVE  last' = last /\ ~(phase[c] = "pulling" /\ phase'[c] = "finished")
  BY <1>6 DEF Crash
<1>7. ASSUME NEW d \in Calls, Handle(d), d # c
      PROVE  last'[c] = last[c] /\ phase'[c] = phase[c]
  BY <1>7, OthersKept DEF Kept
<1> QED
  BY <1>1, <1>2, <1>3, <1>4, <1>5, <1>6, <1>7 DEF Next

\* A stream has one verdict, an answer or an error, and ends right after it.
THEOREM StreamsEndWithTheirVerdict == Spec => OneVerdictAtTheEnd
<1> DEFINE Told(c) ==
      /\ last[c] \in {"result", "error"} => last'[c] = last[c]
      /\ phase[c] = "pulling" /\ phase'[c] = "finished" => last[c] \in {"result", "error"}
<1>1. ASSUME IInv, AllOrderly, [Next]_vars
      PROVE  [~starved => \A c \in Calls : Told(c)]_vars
  <2> SUFFICES ASSUME Next, ~starved, NEW c \in Calls PROVE Told(c)
    BY <1>1
  <2>1. TypeOK /\ Orderly(c)
    BY <1>1 DEF IInv, AllOrderly
  <2>2. CASE Pull(c)
    <3>1. /\ Len(queue[c]) \in Nat \ {0} /\ Len(queue'[c]) = Len(queue[c]) - 1
          /\ \A i \in 1 .. Len(queue'[c]) : queue'[c][i] = queue[c][i + 1]
          /\ Head(queue[c]) = queue[c][1]
      BY <2>1, <2>2, PullShifts
    <3>2. /\ queue[c][1] = "end" => last[c] \in Verdicts
          /\ queue[c][1] # "end" => last[c] \notin Verdicts
      BY <2>1, <3>1, RestInOrder DEF Orderly
    <3>3. \/ queue[c][1] = "end" /\ UNCHANGED last
          \/ queue[c][1] # "end" /\ phase' = [phase EXCEPT ![c] = "suspended"]
      BY <2>2, <3>1 DEF Pull, Goto
    <3> QED
      BY <2>1, <3>2, <3>3 DEF Verdicts, TypeOK
  <2>3. CASE ~Pull(c)
    BY <1>1, <2>1, <2>3, PullsTell
  <2> QED
    BY <2>2, <2>3
<1> QED
  BY <1>1, InitPlaced, NextPlaced, InitOrderly, NextOrderly, StreamInvariant, PTL
  DEF Spec, OneVerdictAtTheEnd

-----------------------------------------------------------------------------
(* Nobody waits in vain.                                                   *)

\* A call whose phase, job and queue stay stays fed.
LEMMA QuietFed ==
  ASSUME NEW d \in Calls, Fed(d), phase'[d] = phase[d], job'[d] = job[d], queue'[d] = queue[d]
  PROVE  Fed(d)'
BY DEF Fed, JobUnderWay, EndSent, Serving

\* The end of a stream that is read is in its queue once it is put there, and what is
\* in a queue stays until it is pulled.
LEMMA PutSends ==
  ASSUME TypeOK, NEW c \in Calls, NEW e \in Events, Put(c, e), ~Disconnected(c)
  PROVE  /\ Len(queue'[c]) = Len(queue[c]) + 1 /\ Len(queue[c]) \in Nat
         /\ e = "end" => EndSent(c)'
<1>1. /\ Len(queue[c]) \in Nat /\ Len(queue'[c]) = Len(queue[c]) + 1
      /\ queue'[c][Len(queue[c]) + 1] = e
  BY PutAppends
<1>2. Len(queue[c]) + 1 \in 1 .. Len(queue'[c])
  BY <1>1
<1> QED
  BY <1>1, <1>2 DEF EndSent

LEMMA PullKeepsEnd ==
  ASSUME TypeOK, NEW c \in Calls, Pull(c), EndSent(c), Head(queue[c]) # "end"
  PROVE  EndSent(c)'
<1>1. /\ Len(queue[c]) \in Nat \ {0} /\ Len(queue'[c]) = Len(queue[c]) - 1
      /\ \A i \in 1 .. Len(queue'[c]) : queue'[c][i] = queue[c][i + 1]
      /\ Head(queue[c]) = queue[c][1]
  BY PullShifts
<1>2. PICK i \in 1 .. Len(queue[c]) : queue[c][i] = "end"
  BY DEF EndSent
<1>3. i - 1 \in 1 .. Len(queue'[c]) /\ (i - 1) + 1 = i
  BY <1>1, <1>2
<1>4. queue'[c][i - 1] = "end"
  BY <1>1, <1>2, <1>3
<1> QED
  BY <1>3, <1>4 DEF EndSent

LEMMA HandleFed ==
  ASSUME TypeOK, NEW c \in Calls, Placed(c), Fed(c), Handle(c)
  PROVE  Fed(c)'
<1> USE DEF TypeOK, Fed, Serving, JobUnderWay, Goto, JobGoto, local, shared, work, stream, history
<1>1. CASE \/ TakePermit(c) \/ FindNoPermit(c) \/ LeaseRefused(c) \/ AcquireLease(c)
           \/ StartGuard(c) \/ RateAccepts(c) \/ RateRefuses(c) \/ GiveUpLease(c)
           \/ Unwind(c) \/ Unwound(c)
  BY <1>1 DEF TakePermit, FindNoPermit, LeaseRefused, AcquireLease, StartGuard, RateAccepts,
       RateRefuses, GiveUpLease, Unwind, Unwound
<1>2. CASE Submit(c)
  BY <1>2 DEF Submit
<1>3. CASE TellFailure(c)
  <2>1. Len(queue[c]) = 0 /\ Len(queue'[c]) = Len(queue[c]) + 1
    BY <1>3, PutSends DEF TellFailure, Disconnected, Events
  <2> QED
    BY <1>3, <2>1 DEF TellFailure
<1>4. CASE TellEnd(c)
  <2>1. EndSent(c)'
    BY <1>4, PutSends DEF TellEnd, Disconnected, Events
  <2> QED
    BY <1>4, <2>1 DEF TellEnd
<1>5. CASE Pull(c)
  <2>1. Head(queue[c]) # "end" /\ EndSent(c) => EndSent(c)'
    BY <1>5, PullKeepsEnd
  <2>2. /\ phase[c] = "pulling" /\ job' = job
        /\ \/ Head(queue[c]) = "end" /\ phase'[c] = "finished"
           \/ Head(queue[c]) # "end" /\ phase'[c] = "suspended"
    BY <1>5 DEF Pull
  <2> QED
    BY <2>1, <2>2
<1>6. CASE Resume(c)
  BY <1>6 DEF Resume, EndSent
<1> QED
  BY <1>1, <1>2, <1>3, <1>4, <1>5, <1>6 DEF Handle

LEMMA RunFed ==
  ASSUME TypeOK, NEW c \in Calls, Placed(c), Fed(c), Run(c)
  PROVE  Fed(c)'
<1>1. phase' = phase /\ phase[c] \in Serving
  BY DEF Run, RunStarts, ReportStage, Answer, Raise, PutVerdict, ReleaseLease, ReleasePermit,
       PutEnd, Placed
<1>2. CASE ~PutEnd(c)
  <2>1. JobUnderWay(c)'
    BY <1>2 DEF Run, RunStarts, ReportStage, Answer, Raise, PutVerdict, ReleaseLease,
         ReleasePermit, JobUnderWay, JobGoto, TypeOK, Placed
  <2> QED
    BY <1>1, <2>1 DEF Fed, Serving
<1>3. CASE PutEnd(c)
  <2>1. ~Disconnected(c) => EndSent(c)'
    BY <1>3, PutSends DEF PutEnd, Events
  <2> QED
    BY <1>1, <2>1 DEF Fed, Serving, Disconnected
<1> QED
  BY <1>2, <1>3

LEMMA FailFed ==
  ASSUME IInv, ~starved, ~starved', NEW c \in Calls, Placed(c), Fed(c), Fail(c) \/ Tick(c)
  PROVE  Fed(c)'
<1>1. CASE Tick(c)
  BY <1>1, QuietFed DEF Tick, Renew, RenewFails, LateRenew, LeaseAges, work, stream
<1>2. CASE Fail(c)
  <2>1. SubmitFails(c) \/ Abandon(c) \/ Disconnect(c)
    BY <1>2, NoReleaseRaises DEF Fail, GuardStartFails, ResultGuardFails
  <2>2. /\ queue' = queue /\ job' = job
        /\ \/ phase[c] = "accepted" /\ phase'[c] \in {"failing", "abandoned"}
           \/ phase[c] = "suspended" /\ phase'[c] = "gone"
    BY <2>1 DEF SubmitFails, Abandon, Disconnect, Goto, stream, work, IInv, TypeOK
  <2> QED
    BY <2>2 DEF Fed, Serving
<1> QED
  BY <1>1, <1>2

LEMMA CrashFed ==
  ASSUME TypeOK, NEW p \in Procs, Crash(p), NEW d \in Calls, Fed(d)
  PROVE  Fed(d)'
<1>1. queue' = queue
  BY DEF Crash, stream
<1>2. \/ phase'[d] = phase[d] /\ job'[d] = job[d]
      \/ phase'[d] = "dead"
      \/ phase'[d] = phase[d] /\ phase[d] \in {"refused", "finished", "gone", "entering"}
  BY DEF Crash
<1> QED
  BY <1>1, <1>2, QuietFed DEF Fed, Serving

LEMMA NextFed == IInv /\ AllPlaced /\ AllFed /\ [Next]_vars => AllFed'
<1> SUFFICES ASSUME IInv, AllPlaced, AllFed, [Next]_vars, ~starved', NEW d \in Calls
             PROVE  Fed(d)'
  BY DEF AllFed
<1>1. TypeOK /\ ~starved
  BY PermitEffect DEF IInv
<1>2. \A e \in Calls : Placed(e) /\ Fed(e)
  BY <1>1 DEF AllPlaced, AllFed
<1>3. CASE UNCHANGED vars
  BY <1>2, <1>3, QuietFed DEF vars
<1>4. ASSUME NEW c \in Calls, Handle(c) \/ Run(c) \/ Fail(c) \/ Tick(c)
      PROVE  Fed(d)'
  <2>1. CASE d = c
    BY <1>1, <1>2, <1>4, <2>1, HandleFed, RunFed, FailFed
  <2>2. CASE d # c
    BY <1>1, <1>2, <1>4, <2>2, OthersKept, QuietFed DEF Kept
  <2> QED
    BY <2>1, <2>2
<1>5. ASSUME NEW p \in Procs, Crash(p)
      PROVE  Fed(d)'
  BY <1>1, <1>2, <1>5, CrashFed
<1> QED
  BY <1>3, <1>4, <1>5 DEF Next

LEMMA InitFed == Init => AllFed
BY DEF Init, AllFed, Fed

\* A job that cannot go on, and has a thread, has a client that reads.
LEMMA ReaderServes ==
  ASSUME IInv, ~starved, NEW c \in Calls, Placed(c), JobUnderWay(c), job[c] # "queued"
  PROVE  JobGoesOn(c) \/ HandlerGoesOn(c)
<1>1. TypeOK /\ Balanced
  BY DEF IInv, PermitsBalanced, Balanced
<1>2. due[c] > 0 => Free(c, due[c]) < Limit[ScopesOf[c][due[c]]]
  <2>1. due[c] > 0 => due[c] \in 1 .. Held(c) /\ due[c] <= Arity(c)
    BY <1>1 DEF TypeOK, Held
  <2> QED
    BY <1>1, <2>1, PermitIsOut
<1>3. CASE RoomToPut(c)
  BY <1>2, <1>3 DEF JobGoesOn
<1>4. CASE ~RoomToPut(c)
  <2>1. phase[c] \in {"pulling", "suspended"}
    BY <1>4 DEF Placed, JobUnderWay, Serving, RoomToPut, Disconnected
  <2>2. queue[c] # <<>>
    <3>1. 0 < EventLimit /\ EventLimit \in Nat
      BY StreamAssumption
    <3>2. ~(Len(queue[c]) < EventLimit)
      BY <1>4 DEF RoomToPut
    <3>3. queue[c] = <<>> => Len(queue[c]) = 0
      OBVIOUS
    <3> QED
      BY <3>1, <3>2, <3>3
  <2> QED
    BY <2>1, <2>2 DEF HandlerGoesOn, HandlerUnderWay
<1> QED
  BY <1>3, <1>4

\* A handler that cannot go on waits for an event, and has a job that sends one.
LEMMA GeneratorIsServed ==
  ASSUME IInv, ~starved, NEW c \in Calls, Placed(c), Fed(c), HandlerUnderWay(c)
  PROVE  \/ HandlerGoesOn(c)
         \/ phase[c] = "pulling" /\ JobUnderWay(c)
         \/ phase[c] = "ending" /\ EventLimit = 1
<1>1. TypeOK /\ Balanced
  BY DEF IInv, PermitsBalanced, Balanced
<1>2. EventLimit \in Nat \ {0} /\ Len(queue[c]) \in Nat
  BY <1>1, StreamAssumption DEF TypeOK
<1>3. taken[c] > 0 => Free(c, taken[c]) < Limit[ScopesOf[c][taken[c]]]
  <2>1. taken[c] > 0 => taken[c] \in 1 .. Held(c) /\ taken[c] <= Arity(c)
    BY <1>1 DEF TypeOK, Held
  <2> QED
    BY <1>1, <2>1, PermitIsOut
<1>4. CASE phase[c] = "telling"
  <2>1. Len(queue[c]) < EventLimit
    BY <1>2, <1>4 DEF Fed, Serving
  <2> QED
    BY <1>4, <2>1 DEF HandlerGoesOn
<1>5. CASE phase[c] = "ending"
  <2>1. EventLimit = 1 \/ Len(queue[c]) < EventLimit
    BY <1>2, <1>5 DEF Fed
  <2> QED
    BY <1>5, <2>1 DEF HandlerGoesOn
<1>6. CASE phase[c] = "pulling"
  <2>1. JobUnderWay(c) \/ queue[c] # <<>>
    <3>1. queue[c] = <<>> => ~EndSent(c)
      BY DEF EndSent
    <3> QED
      BY <1>6, <3>1 DEF Fed
  <2> QED
    BY <1>6, <2>1 DEF HandlerGoesOn
<1>7. CASE phase[c] \notin {"telling", "ending", "pulling"}
  BY <1>3, <1>7 DEF HandlerGoesOn
<1> QED
  BY <1>4, <1>5, <1>6, <1>7

\* Nobody waits in vain, whatever the size of the pool and of the queues: a generator
\* without an event has a job, a job with a thread goes on or has a client that reads,
\* and one without waits for threads of which each is used by such a job.
THEOREM NoDeadlock == Spec => []NoStreamIsStuck
<1>1. ASSUME IInv, AllPlaced, AllFed PROVE NoStreamIsStuck
  <2> SUFFICES ASSUME ~starved, NEW c \in Calls
               PROVE  /\ HandlerUnderWay(c) =>
                           \/ HandlerGoesOn(c)
                           \/ phase[c] = "pulling" /\ JobUnderWay(c)
                           \/ phase[c] = "ending" /\ EventLimit = 1
                      /\ JobUnderWay(c) => JobGoesOn(c) \/ HandlerGoesOn(c) \/ job[c] = "queued"
                      /\ job[c] = "queued" /\ ~JobGoesOn(c) =>
                           /\ Busy(ProcOf[c]) # {}
                           /\ \A d \in Busy(ProcOf[c]) : JobGoesOn(d) \/ HandlerGoesOn(d)
    BY DEF NoStreamIsStuck
  <2>1. \A d \in Calls : Placed(d) /\ Fed(d)
    BY <1>1 DEF AllPlaced, AllFed
  <2>2. \A d \in Calls : JobUnderWay(d) /\ job[d] # "queued" => JobGoesOn(d) \/ HandlerGoesOn(d)
    BY <1>1, <2>1, ReaderServes
  <2>3. ASSUME job[c] = "queued", ~JobGoesOn(c)
        PROVE  Busy(ProcOf[c]) # {}
    <3>1. ~(Cardinality(Busy(ProcOf[c])) < Workers)
      BY <2>3 DEF JobGoesOn, JobUnderWay
    <3>2. Busy(ProcOf[c]) = {} => Cardinality(Busy(ProcOf[c])) = 0
      BY FS_EmptySet
    <3>3. Workers \in Nat /\ 0 < Workers
      BY StreamAssumption
    <3> QED
      BY <3>1, <3>2, <3>3
  <2>4. \A d \in Busy(ProcOf[c]) : JobGoesOn(d) \/ HandlerGoesOn(d)
    BY <2>2 DEF Busy, JobUnderWay
  <2> QED
    BY <1>1, <2>1, <2>2, <2>3, <2>4, GeneratorIsServed
<1> QED
  BY <1>1, InitPlaced, NextPlaced, InitFed, NextFed, StreamInvariant, PTL DEF Spec
=============================================================================

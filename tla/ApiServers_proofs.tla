------------------------- MODULE ApiServers_proofs -------------------------
(***************************************************************************)
(* Proofs about ApiServers, for any number of threads, processes, users    *)
(* and tokens, any sizes of the pool and of the slots, and any faults.     *)
(***************************************************************************)
EXTENDS ApiServers, FiniteSetTheorems, TLAPS

\* One more member, or one fewer.
LEMMA OneIn ==
  ASSUME NEW S, NEW x, IsFiniteSet(S), x \notin S
  PROVE  /\ Cardinality(S) \in Nat /\ Cardinality(S \cup {x}) \in Nat
         /\ Cardinality(S \cup {x}) = Cardinality(S) + 1
BY FS_AddElement, FS_CardinalityType

LEMMA OneOut ==
  ASSUME NEW S, NEW x, IsFiniteSet(S), x \in S
  PROVE  /\ Cardinality(S) \in Nat /\ Cardinality(S \ {x}) \in Nat
         /\ Cardinality(S) = Cardinality(S \ {x}) + 1
<1>1. IsFiniteSet(S \ {x}) /\ Cardinality(S \ {x}) = Cardinality(S) - 1
  BY FS_RemoveElement
<1> QED
  BY <1>1, FS_CardinalityType

LEMMA ThreadSets ==
  ASSUME NEW p
  PROVE  /\ IsFiniteSet(Borrowers(p)) /\ Cardinality(Borrowers(p)) \in Nat
         /\ IsFiniteSet(Roused(p)) /\ Cardinality(Roused(p)) \in Nat
         /\ IsFiniteSet(Holders(p)) /\ Cardinality(Holders(p)) \in Nat
<1>1. /\ Borrowers(p) \subseteq Threads /\ Roused(p) \subseteq Threads
      /\ Holders(p) \subseteq Threads
  BY DEF Borrowers, Roused, Holders
<1> QED
  BY <1>1, ServerAssumption, FS_Subset, FS_CardinalityType

\* A thread with a job knows its process.
LEMMA ProcessOfJob ==
  ASSUME TypeOK, NEW t \in Threads, job[t] # NoJob
  PROVE  /\ job[t] \in Jobs /\ Of(t) \in Processes /\ job[t].kind \in Kinds
         /\ job[t].token \in Tokens \cup {NoToken} /\ job[t].users \subseteq Users
         /\ job[t].kind = "login" => job[t].user \in Users
         /\ job[t].kind \in {"authenticate", "refresh", "logout"} => job[t].token \in Tokens
BY ServerAssumption DEF TypeOK, Of

-----------------------------------------------------------------------------
(* What a notification does to the pool's sets of threads.                 *)

\* What happens in one process leaves the sets of the others alone.
LEMMA OthersSame ==
  ASSUME NEW p, NEW q, q # p,
         \A r \in Threads : Of(r)' = Of(r),
         \A r \in Threads : Of(r) # p => conn'[r] = conn[r]
  PROVE  /\ Borrowers(q)' = Borrowers(q) /\ Roused(q)' = Roused(q)
         /\ Sleepers(q)' = Sleepers(q)
<1>1. Borrowers(q)' = Borrowers(q)
  BY DEF Borrowers
<1>2. Roused(q)' = Roused(q)
  BY DEF Roused
<1>3. Sleepers(q)' = Sleepers(q)
  BY DEF Sleepers
<1> QED
  BY <1>1, <1>2, <1>3

LEMMA NotifyEffect ==
  ASSUME TypeOK, NEW t \in Threads, NEW p \in Processes, Of(t) = p,
         NEW s \in {"none", "refused"}, UNCHANGED job,
         conn[t] \in {"opening", "held"}, Notify(t, s)
  PROVE  /\ conn' \in [Threads -> ConnStates] /\ conn'[t] = s
         /\ \A r \in Threads \ {t} :
              conn'[r] = conn[r] \/ (conn[r] = "asleep" /\ conn'[r] = "woken")
         /\ Borrowers(p)' = Borrowers(p) \ {t} /\ t \in Borrowers(p)
         /\ \A q : q # p => /\ Borrowers(q)' = Borrowers(q) /\ Roused(q)' = Roused(q)
                            /\ Sleepers(q)' = Sleepers(q)
         /\ \/ Sleepers(p)' = {}
            \/ \E w \in Sleepers(p) :
                 w \notin Roused(p) /\ Roused(p)' = Roused(p) \cup {w}
<1> USE DEF TypeOK, ConnStates
<1>a. \A r \in Threads : Of(r)' = Of(r)
  BY DEF Of
<1>1. CASE Sleepers(p) = {} /\ conn' = [conn EXCEPT ![t] = s]
  <2>1. /\ conn' \in [Threads -> ConnStates] /\ conn'[t] = s
        /\ \A r \in Threads \ {t} : conn'[r] = conn[r]
    BY <1>1
  <2>2. Borrowers(p)' = Borrowers(p) \ {t} /\ t \in Borrowers(p)
    BY <1>a, <2>1 DEF Borrowers
  <2>3. \A q : q # p => /\ Borrowers(q)' = Borrowers(q) /\ Roused(q)' = Roused(q)
                        /\ Sleepers(q)' = Sleepers(q)
    <3>1. \A r \in Threads : Of(r) # p => conn'[r] = conn[r]
      BY <2>1
    <3> QED
      BY <1>a, <3>1, OthersSame
  <2>4. Sleepers(p)' = {}
    BY <1>a, <1>1, <2>1 DEF Sleepers
  <2> QED
    BY <2>1, <2>2, <2>3, <2>4
<1>2. CASE \E w \in Sleepers(p) : conn' = [conn EXCEPT ![t] = s, ![w] = "woken"]
  <2>1. PICK w \in Sleepers(p) : conn' = [conn EXCEPT ![t] = s, ![w] = "woken"]
    BY <1>2
  <2>2. w \in Threads /\ w # t /\ conn[w] = "asleep" /\ Of(w) = p
    BY <2>1 DEF Sleepers
  <2>3. /\ conn' \in [Threads -> ConnStates] /\ conn'[t] = s /\ conn'[w] = "woken"
        /\ \A r \in Threads \ {t, w} : conn'[r] = conn[r]
    BY <2>1, <2>2
  <2>5. Borrowers(p)' = Borrowers(p) \ {t} /\ t \in Borrowers(p)
    BY <1>a, <2>2, <2>3 DEF Borrowers
  <2>6. \A q : q # p => /\ Borrowers(q)' = Borrowers(q) /\ Roused(q)' = Roused(q)
                        /\ Sleepers(q)' = Sleepers(q)
    <3>1. \A r \in Threads : Of(r) # p => conn'[r] = conn[r]
      BY <2>2, <2>3
    <3> QED
      BY <1>a, <3>1, OthersSame
  <2>7. w \notin Roused(p) /\ Roused(p)' = Roused(p) \cup {w}
    BY <1>a, <2>2, <2>3 DEF Roused
  <2>8. \A r \in Threads \ {t} : conn'[r] = conn[r] \/ (conn[r] = "asleep" /\ conn'[r] = "woken")
    BY <2>2, <2>3
  <2> QED
    BY <2>1, <2>3, <2>5, <2>6, <2>7, <2>8
<1> QED
  BY <1>1, <1>2 DEF Notify

\* A connection goes back, or was not to be had, and somebody is told.
LEMMA GiveBackKept ==
  ASSUME TypeOK, PoolAccounted, NoWaiterForgotten,
         NEW t \in Threads, NEW s \in {"none", "refused"}, NEW reusable \in BOOLEAN,
         UNCHANGED job, job[t] # NoJob,
         conn[t] \in {"opening", "held"}, Notify(t, s),
         borrowed' = [borrowed EXCEPT ![Of(t)] = Less(@)],
         idle' = [idle EXCEPT ![Of(t)] = IF reusable THEN @ + 1 ELSE @],
         total' = [total EXCEPT ![Of(t)] = IF reusable THEN @ ELSE Less(@)]
  PROVE  /\ idle' \in [Processes -> Nat] /\ total' \in [Processes -> Nat]
         /\ borrowed' \in [Processes -> Nat]
         /\ PoolAccounted' /\ NoWaiterForgotten'
<1>1. Of(t) \in Processes
  BY ProcessOfJob
<1>a. PICK p \in Processes : p = Of(t)
  BY <1>1
<1>b. /\ Borrowers(p)' = Borrowers(p) \ {t} /\ t \in Borrowers(p)
      /\ \A q : q # p => /\ Borrowers(q)' = Borrowers(q) /\ Roused(q)' = Roused(q)
                         /\ Sleepers(q)' = Sleepers(q)
      /\ \/ Sleepers(p)' = {}
         \/ \E w \in Sleepers(p) :
              w \notin Roused(p) /\ Roused(p)' = Roused(p) \cup {w}
  BY <1>a, NotifyEffect
<1>2. /\ idle[p] \in Nat /\ total[p] \in Nat /\ borrowed[p] \in Nat /\ PoolSize \in Nat
      /\ total[p] = idle[p] + borrowed[p] /\ total[p] <= PoolSize
      /\ borrowed[p] = Cardinality(Borrowers(p))
  BY ServerAssumption DEF TypeOK, PoolAccounted
<1>3. Cardinality(Borrowers(p)') = borrowed[p] - 1 /\ borrowed[p] > 0
  BY <1>2, <1>b, ThreadSets, OneOut
<1>4. /\ borrowed'[p] = borrowed[p] - 1
      /\ reusable => idle'[p] = idle[p] + 1 /\ total'[p] = total[p]
      /\ ~reusable => idle'[p] = idle[p] /\ total'[p] = total[p] - 1
  BY <1>a, <1>2, <1>3 DEF TypeOK, Less
<1>5. \A q \in Processes \ {p} :
        idle'[q] = idle[q] /\ total'[q] = total[q] /\ borrowed'[q] = borrowed[q]
  BY <1>a DEF TypeOK
<1>6. /\ idle' \in [Processes -> Nat] /\ total' \in [Processes -> Nat]
      /\ borrowed' \in [Processes -> Nat]
  <2>1. /\ Less(total[p]) \in Nat /\ Less(borrowed[p]) \in Nat /\ idle[p] + 1 \in Nat
    BY <1>2 DEF Less
  <2> QED
    BY <1>a, <2>1 DEF TypeOK
<1>7. PoolAccounted'
  <2>1. \A q \in Processes : q # p =>
          /\ total'[q] = idle'[q] + borrowed'[q] /\ total'[q] <= PoolSize
          /\ borrowed'[q] = Cardinality(Borrowers(q)')
    BY <1>5, <1>b DEF PoolAccounted
  <2>2. /\ total'[p] = idle'[p] + borrowed'[p] /\ total'[p] <= PoolSize
        /\ borrowed'[p] = Cardinality(Borrowers(p)')
    BY <1>2, <1>3, <1>4
  <2> QED
    BY <2>1, <2>2 DEF PoolAccounted
<1>8. NoWaiterForgotten'
  <2>1. \A q \in Processes : q # p /\ Sleepers(q)' # {} =>
          idle'[q] + PoolSize <= total'[q] + Cardinality(Roused(q)')
    BY <1>5, <1>b DEF NoWaiterForgotten
  <2>2. ASSUME Sleepers(p)' # {}
        PROVE  idle'[p] + PoolSize <= total'[p] + Cardinality(Roused(p)')
    <3>1. PICK w \in Sleepers(p) :
            w \notin Roused(p) /\ Roused(p)' = Roused(p) \cup {w}
      BY <2>2, <1>b
    <3>2. idle[p] + PoolSize <= total[p] + Cardinality(Roused(p))
      BY <3>1 DEF NoWaiterForgotten
    <3>3. Cardinality(Roused(p)') = Cardinality(Roused(p)) + 1 /\ Cardinality(Roused(p)) \in Nat
      BY <3>1, ThreadSets, OneIn
    <3> QED
      BY <1>2, <1>4, <3>2, <3>3
  <2> QED
    BY <2>1, <2>2 DEF NoWaiterForgotten
<1> QED
  BY <1>6, <1>7, <1>8

\* A thread that has nothing to do with the pool before and after, or only asks.
LEMMA QuietStep ==
  ASSUME PoolAccounted, NoWaiterForgotten, UNCHANGED <<idle, total, borrowed>>,
         NEW t \in Threads,
         conn[t] \in {"none", "asked", "refused"}, conn'[t] \in {"none", "asked", "refused"},
         \A r \in Threads \ {t} : job'[r] = job[r] /\ conn'[r] = conn[r]
  PROVE  PoolAccounted' /\ NoWaiterForgotten'
<1>1. ASSUME NEW p \in Processes
      PROVE  /\ Borrowers(p)' = Borrowers(p) /\ Roused(p)' = Roused(p)
             /\ Sleepers(p)' = Sleepers(p)
  <2>1. Borrowers(p)' = Borrowers(p)
    BY DEF Borrowers, Of
  <2>2. Roused(p)' = Roused(p)
    BY DEF Roused, Of
  <2>3. Sleepers(p)' = Sleepers(p)
    BY DEF Sleepers, Of
  <2> QED
    BY <2>1, <2>2, <2>3
<1>2. PoolAccounted'
  BY <1>1 DEF PoolAccounted
<1>3. NoWaiterForgotten'
  BY <1>1 DEF NoWaiterForgotten
<1> QED
  BY <1>2, <1>3

PoolType ==
  /\ idle \in [Processes -> Nat] /\ total \in [Processes -> Nat]
  /\ borrowed \in [Processes -> Nat] /\ conn \in [Threads -> ConnStates]

PoolInv == PoolType /\ PoolAccounted /\ NoWaiterForgotten

\* Of the other threads, at most one is woken.
Nudged(t) ==
  \A r \in Threads \ {t} :
    conn'[r] = conn[r] \/ (conn[r] = "asleep" /\ conn'[r] = "woken")

LEMMA EndKept ==
  ASSUME TypeOK, PhasesFit, PoolInv, NEW t \in Threads, UNCHANGED job, EndTransaction(t)
  PROVE  PoolInv' /\ Nudged(t) /\ conn[t] = "held" /\ conn'[t] = "none"
<1>1. PICK reusable \in BOOLEAN : Release(t, reusable)
  BY DEF EndTransaction
<1>2. conn[t] = "held" /\ job[t] # NoJob
  BY DEF EndTransaction, PhasesFit, Fits
<1>3. PICK p \in Processes : p = Of(t)
  BY <1>2, ProcessOfJob
<1>4. conn' \in [Threads -> ConnStates] /\ conn'[t] = "none" /\ Nudged(t)
  BY <1>1, <1>2, <1>3, NotifyEffect DEF Release, Nudged
<1>5. /\ idle' \in [Processes -> Nat] /\ total' \in [Processes -> Nat]
      /\ borrowed' \in [Processes -> Nat]
      /\ PoolAccounted' /\ NoWaiterForgotten'
  BY <1>1, <1>2, GiveBackKept DEF Release, PoolInv
<1> QED
  BY <1>2, <1>4, <1>5 DEF PoolInv, PoolType

\* What one process does leaves the accounts of the others as they are.
LEMMA OthersKept ==
  ASSUME TypeOK, PoolInv, NEW p \in Processes,
         UNCHANGED job, \A r \in Threads : Of(r) # p => conn'[r] = conn[r],
         \A q \in Processes \ {p} :
           idle'[q] = idle[q] /\ total'[q] = total[q] /\ borrowed'[q] = borrowed[q],
         total'[p] = idle'[p] + borrowed'[p], total'[p] <= PoolSize,
         borrowed'[p] = Cardinality(Borrowers(p)'),
         Sleepers(p)' # {} => idle'[p] + PoolSize <= total'[p] + Cardinality(Roused(p)')
  PROVE  PoolAccounted' /\ NoWaiterForgotten'
<1>1. \A r \in Threads : Of(r)' = Of(r)
  BY DEF Of
<1>2. \A q \in Processes : q # p => /\ Borrowers(q)' = Borrowers(q) /\ Roused(q)' = Roused(q)
                                    /\ Sleepers(q)' = Sleepers(q)
  BY <1>1, OthersSame
<1>3. PoolAccounted'
  BY <1>2 DEF PoolInv, PoolAccounted
<1>4. NoWaiterForgotten'
  BY <1>2 DEF PoolInv, NoWaiterForgotten
<1> QED
  BY <1>3, <1>4

\* A turn in acquire() of the thread t, by itself.
LEMMA AcquireKept ==
  ASSUME TypeOK, PhasesFit, PoolInv, NEW t \in Threads, Acquire(t)
  PROVE  PoolInv' /\ Nudged(t) /\ conn[t] \notin {"none", "held"}
<1> USE DEF PoolType
<1>1. conn[t] \notin {"none", "held"} /\ job[t] # NoJob /\ UNCHANGED <<job, phase>>
  BY DEF Acquire, Look, Refuse, TakeIdle, Grow, Sleep, Opened, WaitEnds, TimeOut, OpenFails,
         PhasesFit, Fits
<1>2. PICK p \in Processes : p = Of(t)
  BY <1>1, ProcessOfJob
<1>3. /\ idle[p] \in Nat /\ total[p] \in Nat /\ borrowed[p] \in Nat /\ PoolSize \in Nat
      /\ total[p] = idle[p] + borrowed[p] /\ total[p] <= PoolSize
      /\ borrowed[p] = Cardinality(Borrowers(p))
      /\ Sleepers(p) # {} => idle[p] + PoolSize <= total[p] + Cardinality(Roused(p))
      /\ Cardinality(Roused(p)) \in Nat
  BY ServerAssumption, ThreadSets DEF PoolInv, PoolAccounted, NoWaiterForgotten
<1>4. \A r \in Threads : Of(r)' = Of(r)
  BY <1>1 DEF Of
<1>5. CASE TakeIdle(t) \/ Grow(t)
  <2>1. conn[t] \in {"asked", "woken", "late"} /\ conn'[t] \in {"held", "opening"}
        /\ (\A r \in Threads \ {t} : conn'[r] = conn[r]) /\ conn' \in [Threads -> ConnStates]
    BY <1>5 DEF TakeIdle, Grow, PoolInv, ConnStates
  <2>2. Borrowers(p)' = Borrowers(p) \cup {t} /\ t \notin Borrowers(p)
    BY <1>2, <1>4, <2>1 DEF Borrowers
  <2>3. Roused(p)' = Roused(p) \ {t} /\ Sleepers(p)' = Sleepers(p)
    BY <1>2, <1>4, <2>1 DEF Roused, Sleepers
  <2>4. Cardinality(Borrowers(p)') = borrowed[p] + 1
    BY <1>3, <2>2, ThreadSets, OneIn
  <2>5. Cardinality(Roused(p)') \in Nat /\ Cardinality(Roused(p)) <= Cardinality(Roused(p)') + 1
    <3>1. CASE t \in Roused(p)
      BY <2>3, <3>1, ThreadSets, OneOut
    <3>2. CASE t \notin Roused(p)
      <4>1. Roused(p)' = Roused(p)
        BY <2>3, <3>2
      <4> QED
        BY <4>1, <1>3
    <3> QED
      BY <3>1, <3>2
  <2>6. /\ borrowed'[p] = borrowed[p] + 1
        /\ \/ idle[p] > 0 /\ idle'[p] = idle[p] - 1 /\ total'[p] = total[p]
           \/ idle[p] = 0 /\ idle'[p] = 0 /\ total[p] < PoolSize /\ total'[p] = total[p] + 1
        /\ idle' \in [Processes -> Nat] /\ total' \in [Processes -> Nat]
        /\ borrowed' \in [Processes -> Nat]
    BY <1>2, <1>3, <1>5 DEF TakeIdle, Grow, PoolInv
  <2>7. \A q \in Processes \ {p} :
          idle'[q] = idle[q] /\ total'[q] = total[q] /\ borrowed'[q] = borrowed[q]
    BY <1>2, <1>5 DEF TakeIdle, Grow, PoolInv
  <2>8. \A r \in Threads : Of(r) # p => conn'[r] = conn[r]
    BY <1>2, <2>1
  <2>9. /\ total'[p] = idle'[p] + borrowed'[p] /\ total'[p] <= PoolSize
        /\ borrowed'[p] = Cardinality(Borrowers(p)')
    BY <1>3, <2>4, <2>6
  <2>10. Sleepers(p)' # {} => idle'[p] + PoolSize <= total'[p] + Cardinality(Roused(p)')
    BY <1>3, <2>3, <2>5, <2>6
  <2>11. PoolAccounted' /\ NoWaiterForgotten'
    BY <1>1, <2>7, <2>8, <2>9, <2>10, OthersKept
  <2> QED
    BY <1>1, <2>1, <2>6, <2>11 DEF PoolInv, Nudged
<1>6. CASE Sleep(t) \/ WaitEnds(t) \/ TimeOut(t) \/ Opened(t)
  <2>1. /\ (\A r \in Threads \ {t} : conn'[r] = conn[r]) /\ conn' \in [Threads -> ConnStates]
        /\ UNCHANGED <<idle, total, borrowed>>
    BY <1>6 DEF Sleep, WaitEnds, TimeOut, Opened, PoolInv, ConnStates
  <2>2. Borrowers(p)' = Borrowers(p)
    <3>1. conn[t] \in {"opening", "held"} <=> conn'[t] \in {"opening", "held"}
      BY <1>6 DEF Sleep, WaitEnds, TimeOut, Opened, PoolInv
    <3> QED
      BY <3>1, <2>1, <1>4 DEF Borrowers
  <2>3. Sleepers(p)' # {} => idle[p] + PoolSize <= total[p] + Cardinality(Roused(p)')
    <3>1. CASE Sleep(t) \/ TimeOut(t)
      <4>1. idle[p] = 0 /\ total[p] >= PoolSize
        BY <1>2, <3>1 DEF Sleep, TimeOut, Exhausted
      <4>2. Cardinality(Roused(p)') \in Nat
        <5>1. Roused(p)' \subseteq Roused(p)
          BY <1>4, <2>1, <3>1 DEF Roused, Sleep, TimeOut, PoolInv
        <5> QED
          BY <5>1, ThreadSets, FS_Subset, FS_CardinalityType
      <4> QED
        BY <1>3, <4>1, <4>2
    <3>2. CASE WaitEnds(t)
      <4>1. conn[t] = "asleep" /\ conn'[t] = "late"
        BY <3>2 DEF WaitEnds, PoolInv
      <4>2. /\ t \in Sleepers(p) /\ t \notin Roused(p)
            /\ Roused(p)' = Roused(p) \cup {t}
        BY <1>2, <1>4, <2>1, <4>1 DEF Roused, Sleepers
      <4>3. Cardinality(Roused(p)') = Cardinality(Roused(p)) + 1
        BY <4>2, ThreadSets, OneIn
      <4> QED
        BY <1>3, <4>2, <4>3
    <3>3. CASE Opened(t)
      <4>1. conn[t] = "opening" /\ conn'[t] = "held"
        BY <3>3 DEF Opened, PoolInv
      <4>2. Roused(p)' = Roused(p) /\ Sleepers(p)' = Sleepers(p)
        BY <1>4, <2>1, <4>1 DEF Roused, Sleepers
      <4> QED
        BY <1>3, <4>2
    <3> QED
      BY <1>6, <3>1, <3>2, <3>3
  <2>4. \A r \in Threads : Of(r) # p => conn'[r] = conn[r]
    BY <1>2, <2>1
  <2>5. PoolAccounted' /\ NoWaiterForgotten'
    BY <1>1, <1>3, <2>1, <2>2, <2>3, <2>4, OthersKept
  <2> QED
    BY <1>1, <2>1, <2>5 DEF PoolInv, Nudged
<1>7. CASE OpenFails(t)
  <2>1. /\ conn[t] = "opening" /\ Notify(t, "refused")
        /\ borrowed' = [borrowed EXCEPT ![Of(t)] = Less(@)]
        /\ idle' = [idle EXCEPT ![Of(t)] = IF FALSE THEN @ + 1 ELSE @]
        /\ total' = [total EXCEPT ![Of(t)] = IF FALSE THEN @ ELSE Less(@)]
    BY <1>7 DEF OpenFails, PoolInv
  <2>2. conn' \in [Threads -> ConnStates] /\ Nudged(t)
    BY <1>1, <1>2, <2>1, NotifyEffect DEF Nudged
  <2>3. /\ idle' \in [Processes -> Nat] /\ total' \in [Processes -> Nat]
        /\ borrowed' \in [Processes -> Nat]
        /\ PoolAccounted' /\ NoWaiterForgotten'
    BY <1>1, <2>1, GiveBackKept DEF PoolInv
  <2> QED
    BY <1>1, <2>2, <2>3 DEF PoolInv
<1> QED
  BY <1>5, <1>6, <1>7 DEF Acquire, Look, Refuse

-----------------------------------------------------------------------------
(* Types, and where a job may stand: what a step of one thread leaves of   *)
(* the others.                                                             *)

Others(t) == \A r \in Threads \ {t} : job'[r] = job[r] /\ phase'[r] = phase[r]

Frame(t) ==
  /\ PoolInv'
  /\ job' \in [Threads -> Jobs \cup {NoJob}] /\ phase' \in [Threads -> Phases]
  /\ Others(t) /\ Nudged(t) /\ Fits(t)'

AccountsType ==
  /\ status \in [Users -> {"active", "banned"}] /\ sessions \subseteq Tokens
  /\ issued \in [Tokens -> Users \cup {NoUser}]
  /\ cache \in [Processes -> [Tokens -> Entries]]
  /\ token \in [Threads -> Tokens \cup {NoToken}] /\ overtaken \in [Threads -> BOOLEAN]

ModelsType ==
  /\ free \in [Processes -> Nat] /\ circuit \in [Processes -> BOOLEAN]
  /\ provider \in [Threads -> {"primary", "fallback"}]
  /\ attempts \in [Threads -> 0 .. Attempts] /\ result \in [Threads -> Results]
  /\ answers \in [Threads -> Nat]

Typed == TypeOK /\ PhasesFit /\ PoolInv

LEMMA FrameKept ==
  ASSUME Typed, NEW t \in Threads, Frame(t), AccountsType', ModelsType'
  PROVE  Typed'
<1>1. TypeOK'
  BY DEF Frame, PoolInv, PoolType, AccountsType, ModelsType, TypeOK
<1>2. ASSUME NEW r \in Threads, r # t
      PROVE  Fits(r)'
  BY <1>2 DEF Typed, PhasesFit, Fits, Frame, Others, Nudged
<1> QED
  BY <1>1, <1>2 DEF Frame, Typed, PhasesFit

\* A step that moves t, which had or got no more than a question to the pool.
LEMMA QuietFrame ==
  ASSUME Typed, NEW t \in Threads, NEW s \in {"none", "asked"}, NEW step \in Phases,
         UNCHANGED <<idle, total, borrowed, job>>, conn[t] \in {"none", "refused"},
         conn' = [conn EXCEPT ![t] = s] \/ (conn' = conn /\ conn[t] = s), Go(t, step)
  PROVE  /\ PoolInv' /\ phase' \in [Threads -> Phases] /\ phase'[t] = step
         /\ conn'[t] = s /\ Others(t) /\ Nudged(t)
<1>1. /\ conn' \in [Threads -> ConnStates] /\ conn'[t] = s
      /\ \A r \in Threads \ {t} : conn'[r] = conn[r]
  BY DEF Typed, TypeOK, ConnStates
<1>2. PoolAccounted' /\ NoWaiterForgotten'
  BY <1>1, QuietStep DEF Typed, PoolInv
<1> QED
  BY <1>1, <1>2 DEF Typed, TypeOK, PoolInv, PoolType, Go, Others, Nudged

\* A step that leaves the pool alone, whatever t has of it.
LEMMA StillFrame ==
  ASSUME Typed, NEW t \in Threads, NEW step \in Phases, UNCHANGED <<pool, job>>, Go(t, step)
  PROVE  /\ PoolInv' /\ phase' \in [Threads -> Phases] /\ phase'[t] = step
         /\ conn'[t] = conn[t] /\ Others(t) /\ Nudged(t)
<1>1. PoolInv'
  BY DEF Typed, PoolInv, PoolType, PoolAccounted, NoWaiterForgotten, pool, Borrowers, Roused,
         Sleepers, Of
<1> QED
  BY <1>1 DEF Typed, TypeOK, pool, Go, Others, Nudged

\* A step that ends a transaction of t.
LEMMA EndFrame ==
  ASSUME Typed, NEW t \in Threads, NEW step \in Phases, UNCHANGED job,
         EndTransaction(t), Go(t, step)
  PROVE  /\ PoolInv' /\ phase' \in [Threads -> Phases] /\ phase'[t] = step
         /\ conn'[t] = "none" /\ Others(t) /\ Nudged(t)
<1>1. PoolInv' /\ Nudged(t) /\ conn'[t] = "none"
  BY EndKept DEF Typed
<1> QED
  BY <1>1 DEF Typed, TypeOK, Go, Others

\* What the history and the caches become is again a history and caches.
LEMMA RevokeTypes ==
  ASSUME Typed, NEW t, NEW out, NEW gone, NEW where, Revoke(t, out, gone, where)
  PROVE  /\ cache' \in [Processes -> [Tokens -> Entries]]
         /\ overtaken' \in [Threads -> BOOLEAN]
<1>1. overtaken' \in [Threads -> BOOLEAN]
  BY Zenon DEF Revoke
<1>2. \A p \in Processes, k \in Tokens : cache[p][k] \in Entries
  BY DEF Typed, TypeOK
<1>3. cache' \in [Processes -> [Tokens -> Entries]]
  BY <1>2 DEF Revoke, Entries
<1> QED
  BY <1>1, <1>3

LEMMA StartFrame ==
  ASSUME Typed, NEW t \in Threads, Start(t)
  PROVE  Frame(t)
<1>1. phase[t] = "idle" /\ conn[t] = "none" /\ UNCHANGED <<idle, total, borrowed>>
  BY DEF Start, Typed, PhasesFit, Fits
<1>2. PICK j \in JobsOf[t] :
        /\ job' = [job EXCEPT ![t] = j]
        /\ Go(t, CASE j.kind = "authenticate" -> "looking"
                   [] j.kind \in {"login", "refresh"} -> "reading"
                   [] j.kind \in {"logout", "ban", "unban"} -> "writing"
                   [] j.kind = "chat" -> "checking"
                   [] j.kind = "embed" -> "queuing")
        /\ conn' = [conn EXCEPT ![t] =
             IF j.kind \in {"authenticate", "chat", "embed"} THEN "none" ELSE "asked"]
  BY DEF Start
<1>3. j \in Jobs /\ j # NoJob /\ j.kind \in Kinds
  BY ServerAssumption
<1>4. job' \in [Threads -> Jobs \cup {NoJob}] /\ job'[t] = j
  BY <1>2, <1>3 DEF Typed, TypeOK
<1>5. /\ \A r \in Threads \ {t} : job'[r] = job[r] /\ conn'[r] = conn[r] /\ phase'[r] = phase[r]
      /\ conn' \in [Threads -> ConnStates]
      /\ conn'[t] = IF j.kind \in {"authenticate", "chat", "embed"} THEN "none" ELSE "asked"
  BY <1>2, <1>3 DEF Typed, TypeOK, ConnStates, Go
<1>6. /\ phase'[t] = CASE j.kind = "authenticate" -> "looking"
                      [] j.kind \in {"login", "refresh"} -> "reading"
                      [] j.kind \in {"logout", "ban", "unban"} -> "writing"
                      [] j.kind = "chat" -> "checking"
                      [] j.kind = "embed" -> "queuing"
      /\ phase' \in [Threads -> Phases]
  BY <1>2, <1>3 DEF Typed, TypeOK, Phases, Go, Kinds
<1>7. PoolAccounted' /\ NoWaiterForgotten'
  BY <1>1, <1>5, QuietStep DEF Typed, PoolInv
<1>8. Fits(t)'
  BY <1>3, <1>4, <1>5, <1>6 DEF Fits, Kinds
<1> QED
  BY <1>1, <1>4, <1>5, <1>6, <1>7, <1>8
  DEF Frame, PoolInv, PoolType, Others, Nudged, Typed

LEMMA ReadFrame ==
  ASSUME Typed, NEW t \in Threads, Read(t)
  PROVE  Frame(t) /\ AccountsType'
<1> USE DEF Phases
<1>1. /\ phase[t] = "reading" /\ conn[t] = "held" /\ UNCHANGED job
      /\ job[t] # NoJob /\ job' \in [Threads -> Jobs \cup {NoJob}]
      /\ UNCHANGED <<status, sessions, issued, cache, overtaken>>
  BY DEF Read, Typed, TypeOK, PhasesFit, Fits
<1>2. ASSUME Go(t, "failed"), EndTransaction(t)
      PROVE  Frame(t)
  <2>1. /\ PoolInv' /\ phase' \in [Threads -> Phases] /\ phase'[t] = "failed"
        /\ conn'[t] = "none" /\ Others(t) /\ Nudged(t)
    BY <1>1, <1>2, EndFrame
  <2>2. Fits(t)'
    BY <1>1, <2>1 DEF Fits
  <2> QED
    BY <1>1, <2>1, <2>2 DEF Frame
<1>3. ASSUME NEW step \in {"writing", "storing", "cleaning"},
             Go(t, step), UNCHANGED pool,
             step = "writing" => job[t].kind \in {"login", "refresh"},
             step # "writing" => job[t].kind = "authenticate"
      PROVE  Frame(t)
  <2>2. /\ PoolInv' /\ phase' \in [Threads -> Phases] /\ phase'[t] = step
        /\ conn'[t] = conn[t] /\ Others(t) /\ Nudged(t)
    BY <1>1, <1>3, StillFrame
  <2>3. Fits(t)'
    BY <1>1, <1>3, <2>2 DEF Fits
  <2> QED
    BY <1>1, <2>2, <2>3 DEF Frame
<1>4. Frame(t)
  BY <1>2, <1>3 DEF Read, ReadLogin, ReadRefresh, ReadSession
<1>5. token' \in [Threads -> Tokens \cup {NoToken}]
  BY <1>1, ProcessOfJob DEF Read, ReadLogin, ReadRefresh, ReadSession, Typed, TypeOK
<1> QED
  BY <1>1, <1>4, <1>5 DEF AccountsType, Typed, TypeOK

LEMMA WriteFrame ==
  ASSUME Typed, NEW t \in Threads, Write(t)
  PROVE  Frame(t) /\ AccountsType'
<1> USE DEF Phases
<1>1. /\ phase[t] = "writing" /\ UNCHANGED job /\ EndTransaction(t)
      /\ job[t] # NoJob /\ job' \in [Threads -> Jobs \cup {NoJob}]
      /\ Go(t, "invalidating")
      /\ job[t].kind \in {"login", "refresh", "logout", "ban", "unban"}
  BY DEF Write, Typed, TypeOK, PhasesFit, Fits
<1>2. Frame(t)
  BY <1>1, EndFrame DEF Frame, Fits
<1>3. CASE Issue(t)
  <2>1. PICK k \in Tokens :
          LET old == IF job[t].kind = "refresh" THEN {job[t].token} ELSE {} IN
          /\ issued' = [issued EXCEPT ![k] = UserOf(t)]
          /\ sessions' = (sessions \ old) \cup {k}
          /\ token' = [token EXCEPT ![t] = k]
          /\ Revoke(t, {}, old, Elsewhere(t))
    BY <1>3 DEF Issue
  <2>2. UserOf(t) \in Users \cup {NoUser}
    BY <1>1, <1>3, ProcessOfJob DEF Issue, UserOf, Typed, TypeOK
  <2>3. /\ cache' \in [Processes -> [Tokens -> Entries]]
        /\ overtaken' \in [Threads -> BOOLEAN]
    BY <2>1, RevokeTypes
  <2> QED
    BY <1>2, <1>3, <2>1, <2>2, <2>3 DEF Issue, AccountsType, Typed, TypeOK
<1>4. CASE LogOut(t) \/ Ban(t)
  <2>1. /\ cache' \in [Processes -> [Tokens -> Entries]]
        /\ overtaken' \in [Threads -> BOOLEAN]
    BY <1>4, RevokeTypes DEF LogOut, Ban
  <2> QED
    BY <1>2, <1>4, <2>1 DEF LogOut, Ban, AccountsType, Typed, TypeOK
<1>5. CASE Unban(t)
  BY <1>2, <1>5 DEF Unban, AccountsType, Typed, TypeOK
<1> QED
  BY <1>3, <1>4, <1>5 DEF Write

LEMMA CleanFrame ==
  ASSUME Typed, NEW t \in Threads, Clean(t) \/ Expel(t)
  PROVE  Frame(t) /\ AccountsType'
<1> USE DEF Phases
<1>1. /\ phase[t] \in {"cleaning", "expelling"} /\ UNCHANGED job
      /\ job[t] # NoJob /\ job' \in [Threads -> Jobs \cup {NoJob}]
      /\ job[t].kind = "authenticate" /\ conn[t] = "held"
  BY DEF Clean, Expel, Typed, TypeOK, PhasesFit, Fits
<1>2. CASE Clean(t)
  <2>1. Frame(t)
    BY <1>1, <1>2, StillFrame DEF Clean, Frame, Fits
  <2>2. cache' \in [Processes -> [Tokens -> Entries]]
    BY <1>1, <1>2, ProcessOfJob DEF Clean, Entries, Typed, TypeOK
  <2> QED
    BY <1>2, <2>1, <2>2 DEF Clean, AccountsType, Typed, TypeOK
<1>3. CASE Expel(t)
  <2>1. Frame(t)
    BY <1>1, <1>3, EndFrame DEF Expel, Frame, Fits
  <2>2. /\ cache' \in [Processes -> [Tokens -> Entries]]
        /\ overtaken' \in [Threads -> BOOLEAN]
    BY <1>3, RevokeTypes DEF Expel
  <2> QED
    BY <1>3, <2>1, <2>2 DEF Expel, AccountsType, Typed, TypeOK
<1> QED
  BY <1>2, <1>3

LEMMA CacheFrame ==
  ASSUME Typed, NEW t \in Threads, LookUp(t) \/ Invalidate(t) \/ Store(t) \/ Close(t)
  PROVE  Frame(t) /\ AccountsType'
<1> USE DEF Phases
<1>1. /\ phase[t] \in {"looking", "invalidating", "storing", "caching", "closing"}
      /\ UNCHANGED job /\ job[t] # NoJob /\ job' \in [Threads -> Jobs \cup {NoJob}]
  BY DEF LookUp, Invalidate, Store, Close, Typed, TypeOK, PhasesFit, Fits
<1>2. Of(t) \in Processes
  BY <1>1, ProcessOfJob DEF Typed
<1>3. CASE LookUp(t)
  <2>1. phase[t] = "looking" /\ conn[t] = "none" /\ job[t].kind = "authenticate"
    BY <1>3 DEF LookUp, Typed, PhasesFit, Fits
  <2>2. \/ Go(t, "done") /\ UNCHANGED pool
        \/ /\ Go(t, "reading") /\ conn' = [conn EXCEPT ![t] = "asked"]
           /\ UNCHANGED <<idle, total, borrowed>>
    BY <1>3 DEF LookUp
  <2>3. Frame(t)
    <3>1. CASE Go(t, "done") /\ UNCHANGED pool
      <4>1. /\ PoolInv' /\ phase' \in [Threads -> Phases] /\ phase'[t] = "done"
            /\ conn'[t] = conn[t] /\ Others(t) /\ Nudged(t)
        BY <1>1, <3>1, StillFrame
      <4> QED
        BY <1>1, <2>1, <4>1 DEF Frame, Fits
    <3>2. CASE /\ Go(t, "reading") /\ conn' = [conn EXCEPT ![t] = "asked"]
               /\ UNCHANGED <<idle, total, borrowed>>
      <4>1. /\ PoolInv' /\ phase' \in [Threads -> Phases] /\ phase'[t] = "reading"
            /\ conn'[t] = "asked" /\ Others(t) /\ Nudged(t)
        BY <1>1, <2>1, <3>2, QuietFrame
      <4> QED
        BY <1>1, <2>1, <4>1 DEF Frame, Fits
    <3> QED
      BY <2>2, <3>1, <3>2
  <2> QED
    BY <1>3, <2>3 DEF LookUp, accounts, AccountsType, Typed, TypeOK
<1>4. CASE Invalidate(t)
  <2>1. phase[t] = "invalidating" /\ conn[t] = "none" /\ UNCHANGED pool
    BY <1>4 DEF Invalidate, Typed, PhasesFit, Fits
  <2>2. ASSUME NEW step \in {"caching", "done"}, Go(t, step),
               step = "caching" => job[t].kind \in {"login", "refresh"}
        PROVE  Frame(t)
    <3>1. /\ PoolInv' /\ phase' \in [Threads -> Phases] /\ phase'[t] = step
          /\ conn'[t] = conn[t] /\ Others(t) /\ Nudged(t)
      BY <1>1, <2>1, <2>2, StillFrame
    <3> QED
      BY <1>1, <2>1, <2>2, <3>1 DEF Frame, Fits
  <2>3. Frame(t)
    BY <1>4, <2>2 DEF Invalidate
  <2>4. cache' \in [Processes -> [Tokens -> Entries]]
    BY <1>2, <1>4 DEF Invalidate, Entries, Typed, TypeOK
  <2> QED
    BY <1>4, <2>3, <2>4 DEF Invalidate, AccountsType, Typed, TypeOK
<1>5. CASE Store(t)
  <2>1. /\ phase[t] \in {"storing", "caching"} /\ UNCHANGED pool
        /\ phase[t] = "storing" => conn[t] = "held" /\ job[t].kind = "authenticate"
        /\ phase[t] = "caching" => conn[t] = "none"
        /\ Go(t, IF phase[t] = "storing" THEN "closing" ELSE "done")
    BY <1>5 DEF Store, Typed, PhasesFit, Fits
  <2>2. /\ PoolInv' /\ phase' \in [Threads -> Phases]
        /\ phase'[t] = IF phase[t] = "storing" THEN "closing" ELSE "done"
        /\ conn'[t] = conn[t] /\ Others(t) /\ Nudged(t)
    BY <1>1, <2>1, StillFrame
  <2>3. Frame(t)
    BY <1>1, <2>1, <2>2 DEF Frame, Fits
  <2>4. cache' \in [Processes -> [Tokens -> Entries]]
    BY <1>2, <1>5 DEF Store, Entries, Typed, TypeOK
  <2> QED
    BY <1>5, <2>3, <2>4 DEF Store, AccountsType, Typed, TypeOK
<1>6. CASE Close(t)
  <2>1. /\ PoolInv' /\ phase' \in [Threads -> Phases] /\ phase'[t] = "done"
        /\ conn'[t] = "none" /\ Others(t) /\ Nudged(t)
    BY <1>1, <1>6, EndFrame DEF Close
  <2>2. Frame(t)
    BY <1>1, <2>1 DEF Frame, Fits
  <2> QED
    BY <1>6, <2>2 DEF Close, accounts, AccountsType, Typed, TypeOK
<1> QED
  BY <1>3, <1>4, <1>5, <1>6

LEMMA FailFrame ==
  ASSUME Typed, NEW t \in Threads,
         TransactionFails(t) \/ NoConnection(t) \/ SlotTimesOut(t)
  PROVE  Frame(t)
<1> USE DEF Phases
<1>1. /\ UNCHANGED job /\ job[t] # NoJob /\ job' \in [Threads -> Jobs \cup {NoJob}]
      /\ Go(t, "failed")
  BY DEF TransactionFails, NoConnection, SlotTimesOut, Typed, TypeOK, PhasesFit, Fits
<1>2. /\ PoolInv' /\ phase' \in [Threads -> Phases] /\ phase'[t] = "failed"
      /\ conn'[t] = "none" /\ Others(t) /\ Nudged(t)
  <2>1. CASE TransactionFails(t)
    BY <1>1, <2>1, EndFrame DEF TransactionFails
  <2>2. CASE NoConnection(t)
    BY <1>1, <2>2, QuietFrame DEF NoConnection
  <2>3. CASE SlotTimesOut(t)
    <3>1. conn[t] = "none" /\ UNCHANGED pool
      BY <2>3 DEF SlotTimesOut, Typed, PhasesFit, Fits
    <3> QED
      BY <1>1, <3>1, StillFrame
  <2> QED
    BY <2>1, <2>2, <2>3
<1>3. Fits(t)'
  BY <1>1, <1>2 DEF Fits
<1> QED
  BY <1>1, <1>2, <1>3 DEF Frame

LEMMA CallFrame ==
  ASSUME Typed, NEW t \in Threads, Call(t)
  PROVE  Frame(t)
<1> USE DEF Phases
<1>1. /\ phase[t] \in {"checking", "queuing", "calling", "recording", "leaving", "restoring",
                      "tripping"}
      /\ UNCHANGED job /\ job[t] # NoJob /\ job' \in [Threads -> Jobs \cup {NoJob}]
      /\ job[t].kind \in {"chat", "embed"}
      /\ phase[t] # "recording" => conn[t] = "none"
  BY DEF Call, CheckCircuit, TakeSlot, Answered, CallFails, RecordUsage, UsageIsLost, LeaveSlot,
         CloseCircuit, OpenCircuit, Typed, TypeOK, PhasesFit, Fits
<1>2. ASSUME NEW step \in {"queuing", "calling", "leaving", "restoring", "tripping", "done",
                          "failed"},
             Go(t, step), UNCHANGED pool, conn[t] = "none"
      PROVE  Frame(t)
  <2>1. /\ PoolInv' /\ phase' \in [Threads -> Phases] /\ phase'[t] = step
        /\ conn'[t] = conn[t] /\ Others(t) /\ Nudged(t)
    BY <1>1, <1>2, StillFrame
  <2> QED
    BY <1>1, <1>2, <2>1 DEF Frame, Fits
<1>3. CASE CheckCircuit(t) \/ TakeSlot(t) \/ CloseCircuit(t) \/ OpenCircuit(t)
  BY <1>1, <1>2, <1>3 DEF CheckCircuit, TakeSlot, CloseCircuit, OpenCircuit
<1>4. CASE LeaveSlot(t)
  <2>1. UNCHANGED pool /\ conn[t] = "none"
    BY <1>1, <1>4 DEF LeaveSlot
  <2>2. \E step \in {"restoring", "tripping", "done", "failed"} : Go(t, step)
    BY <1>4 DEF LeaveSlot
  <2> QED
    BY <1>2, <2>1, <2>2
<1>5. CASE CallFails(t)
  <2>1. phase[t] = "calling" /\ UNCHANGED pool /\ conn[t] = "none"
    BY <1>1, <1>5 DEF CallFails
  <2>2. Go(t, "calling") \/ Go(t, "leaving")
    BY <1>5, <2>1 DEF CallFails, Go, Typed, TypeOK
  <2> QED
    BY <1>2, <2>1, <2>2
<1>6. CASE Answered(t)
  <2>1. conn[t] = "none"
    BY <1>1, <1>6 DEF Answered
  <2>2. CASE Go(t, "leaving") /\ UNCHANGED pool
    BY <1>2, <2>1, <2>2
  <2>3. CASE /\ Go(t, "recording") /\ conn' = [conn EXCEPT ![t] = "asked"]
             /\ UNCHANGED <<idle, total, borrowed>>
    <3>1. /\ PoolInv' /\ phase' \in [Threads -> Phases] /\ phase'[t] = "recording"
          /\ conn'[t] = "asked" /\ Others(t) /\ Nudged(t)
      BY <1>1, <2>1, <2>3, QuietFrame
    <3> QED
      BY <1>1, <3>1 DEF Frame, Fits
  <2> QED
    BY <1>6, <2>2, <2>3 DEF Answered
<1>7. CASE RecordUsage(t) \/ UsageIsLost(t)
  <2>1. /\ PoolInv' /\ phase' \in [Threads -> Phases] /\ phase'[t] = "leaving"
        /\ conn'[t] = "none" /\ Others(t) /\ Nudged(t)
    <3>1. CASE RecordUsage(t)
      BY <1>1, <3>1, EndFrame DEF RecordUsage
    <3>2. CASE UsageIsLost(t)
      BY <1>1, <3>2, QuietFrame DEF UsageIsLost
    <3> QED
      BY <1>7, <3>1, <3>2
  <2> QED
    BY <1>1, <2>1 DEF Frame, Fits
<1> QED
  BY <1>3, <1>4, <1>5, <1>6, <1>7 DEF Call

LEMMA CallTypes ==
  ASSUME Typed, AnswersInHand, NEW t \in Threads, Call(t)
  PROVE  ModelsType'
<1>1. /\ job[t] # NoJob /\ Attempts \in Nat \ {0} /\ HasFallback \in BOOLEAN
      /\ phase[t] = "calling" => attempts[t] < Attempts
  BY ServerAssumption
  DEF Call, CheckCircuit, TakeSlot, Answered, CallFails, RecordUsage, UsageIsLost, LeaveSlot,
      CloseCircuit, OpenCircuit, Typed, PhasesFit, Fits, AnswersInHand, InHand
<1>2. Of(t) \in Processes
  BY <1>1, ProcessOfJob DEF Typed
<1>3. ModelsType /\ circuit[Of(t)] \in BOOLEAN
  BY <1>2 DEF Typed, TypeOK, ModelsType
<1>4. CASE CheckCircuit(t)
  BY <1>3, <1>4 DEF CheckCircuit, ModelsType
<1>5. CASE TakeSlot(t)
  <2>1. free' \in [Processes -> Nat]
    BY <1>2, <1>3, <1>5 DEF TakeSlot, ModelsType
  <2> QED
    BY <1>1, <1>3, <1>5, <2>1 DEF TakeSlot, ModelsType
<1>6. CASE Answered(t) \/ CallFails(t)
  <2>1. attempts' = [attempts EXCEPT ![t] = @ + 1] /\ attempts[t] + 1 \in 0 .. Attempts
    BY <1>1, <1>3, <1>6 DEF Answered, CallFails, ModelsType
  <2>2. attempts' \in [Threads -> 0 .. Attempts]
    BY <1>3, <2>1 DEF ModelsType
  <2>3. result' \in [Threads -> Results] /\ answers' \in [Threads -> Nat]
    BY <1>3, <1>6 DEF Answered, CallFails, ModelsType, Results
  <2> QED
    BY <1>3, <1>6, <2>2, <2>3 DEF Answered, CallFails, ModelsType
<1>7. CASE RecordUsage(t) \/ UsageIsLost(t)
  BY <1>3, <1>7 DEF RecordUsage, UsageIsLost, models, ModelsType
<1>8. CASE LeaveSlot(t)
  <2>1. free' \in [Processes -> Nat]
    BY <1>2, <1>3, <1>8 DEF LeaveSlot, ModelsType
  <2> QED
    BY <1>3, <1>8, <2>1 DEF LeaveSlot, ModelsType
<1>9. CASE CloseCircuit(t) \/ OpenCircuit(t)
  BY <1>3, <1>9 DEF CloseCircuit, OpenCircuit, ModelsType
<1> QED
  BY <1>4, <1>5, <1>6, <1>7, <1>8, <1>9 DEF Call

LEMMA TypedStep ==
  ASSUME Typed, AnswersInHand, [Next]_vars
  PROVE  Typed'
<1>1. AccountsType /\ ModelsType
  BY DEF Typed, TypeOK, AccountsType, ModelsType
<1>2. ASSUME UNCHANGED accounts
      PROVE  AccountsType'
  BY <1>1, <1>2 DEF accounts, AccountsType
<1>3. ASSUME UNCHANGED models
      PROVE  ModelsType'
  BY <1>1, <1>3 DEF models, ModelsType
<1>4. ASSUME NEW t \in Threads, Start(t)
      PROVE  Typed'
  BY <1>2, <1>3, <1>4, StartFrame, FrameKept DEF Start
<1>5. ASSUME NEW t \in Threads, Serve(t), UNCHANGED models
      PROVE  Typed'
  <2>1. Frame(t) /\ AccountsType'
    BY <1>5, ReadFrame, WriteFrame, CleanFrame, CacheFrame DEF Serve
  <2> QED
    BY <1>3, <1>5, <2>1, FrameKept
<1>6. ASSUME NEW t \in Threads, Call(t), UNCHANGED accounts
      PROVE  Typed'
  BY <1>2, <1>6, CallFrame, CallTypes, FrameKept
<1>7. ASSUME NEW t \in Threads,
             \/ NoConnection(t)
             \/ TransactionFails(t) /\ UNCHANGED models
             \/ SlotTimesOut(t) /\ UNCHANGED accounts
      PROVE  Typed'
  BY <1>2, <1>3, <1>7, FailFrame, FrameKept DEF NoConnection, TransactionFails, SlotTimesOut
<1>8. ASSUME NEW t \in Threads, Acquire(t), UNCHANGED <<accounts, models>>
      PROVE  Typed'
  <2>1. /\ PoolInv' /\ Nudged(t) /\ conn[t] \notin {"none", "held"}
        /\ UNCHANGED <<job, phase>>
    BY <1>8, AcquireKept DEF Typed, Acquire
  <2>2. Fits(t)'
    BY <2>1 DEF Typed, PhasesFit, Fits
  <2>3. Frame(t)
    BY <2>1, <2>2 DEF Frame, Others, Typed, TypeOK
  <2> QED
    BY <1>2, <1>3, <1>8, <2>3, FrameKept
<1>9. ASSUME UNCHANGED <<pool, job, phase>>, AccountsType', ModelsType'
      PROVE  Typed'
  <2>1. PoolInv'
    BY <1>9 DEF Typed, PoolInv, PoolType, PoolAccounted, NoWaiterForgotten, pool, Borrowers,
                Roused, Sleepers, Of
  <2>2. TypeOK'
    BY <1>9, <2>1 DEF Typed, TypeOK, PoolInv, PoolType, AccountsType, ModelsType
  <2>3. PhasesFit'
    BY <1>9 DEF Typed, PhasesFit, Fits, pool
  <2> QED
    BY <2>1, <2>2, <2>3 DEF Typed
<1>10. ASSUME NEW p \in Processes, NEW k \in Tokens, Expire(p, k), UNCHANGED models
       PROVE  Typed'
  <2>1. AccountsType'
    BY <1>1, <1>10 DEF Expire, AccountsType, Entries
  <2> QED
    BY <1>3, <1>9, <1>10, <2>1 DEF Expire
<1>11. ASSUME NEW p \in Processes, CooldownEnds(p), UNCHANGED accounts
       PROVE  Typed'
  <2>1. ModelsType'
    BY <1>1, <1>11 DEF CooldownEnds, ModelsType
  <2> QED
    BY <1>2, <1>9, <1>11, <2>1 DEF CooldownEnds
<1>12. CASE UNCHANGED vars
  BY <1>2, <1>3, <1>9, <1>12 DEF vars
<1> QED
  BY <1>4, <1>5, <1>6, <1>7, <1>8, <1>10, <1>11, <1>12 DEF Next, Work

-----------------------------------------------------------------------------
(* Slots, answers and circuits.                                            *)

\* Every step is one of no thread, or one of a thread that leaves the others.
LEMMA StepOfOne ==
  ASSUME Typed, [Next]_vars
  PROVE  \/ /\ \E t \in Threads :
                \/ Start(t)
                \/ Serve(t) /\ UNCHANGED models
                \/ Call(t) /\ UNCHANGED accounts
                \/ NoConnection(t)
                \/ TransactionFails(t) /\ UNCHANGED models
                \/ SlotTimesOut(t) /\ UNCHANGED accounts
         \/ /\ UNCHANGED <<job, phase>>
            /\ \/ UNCHANGED <<accounts, models>>
               \/ \E p \in Processes, k \in Tokens : Expire(p, k) /\ UNCHANGED models
               \/ \E p \in Processes : CooldownEnds(p) /\ UNCHANGED accounts
BY DEF Next, Work, vars, Acquire, Expire, CooldownEnds

LEMMA SlotsStep ==
  ASSUME Typed, SlotsKept, [Next]_vars
  PROVE  SlotsKept'
<1> USE DEF Calling
<1>0. \A t \in Threads : phase[t] = "idle" <=> job[t] = NoJob
  BY DEF Typed, PhasesFit, Fits
<1>1. ASSUME UNCHANGED <<job, free>>,
             \A r \in Threads : phase'[r] \in Calling <=> phase[r] \in Calling
      PROVE  SlotsKept'
  <2>1. \A p \in Processes : Holders(p)' = Holders(p)
    BY <1>1 DEF Holders, Of
  <2> QED
    BY <1>1, <2>1 DEF SlotsKept
<1>2. ASSUME NEW t \in Threads, Start(t)
      PROVE  SlotsKept'
  <2>1. /\ phase[t] \notin Calling /\ phase'[t] \notin Calling /\ UNCHANGED free
        /\ \A r \in Threads \ {t} : job'[r] = job[r] /\ phase'[r] = phase[r]
    <3>1. PICK j \in JobsOf[t] :
            /\ job' = [job EXCEPT ![t] = j]
            /\ Go(t, CASE j.kind = "authenticate" -> "looking"
                       [] j.kind \in {"login", "refresh"} -> "reading"
                       [] j.kind \in {"logout", "ban", "unban"} -> "writing"
                       [] j.kind = "chat" -> "checking"
                       [] j.kind = "embed" -> "queuing")
      BY <1>2 DEF Start
    <3>2. j.kind \in Kinds
      BY ServerAssumption
    <3>3. phase'[t] \notin Calling
      BY <3>1, <3>2 DEF Typed, TypeOK, Go, Kinds
    <3> QED
      BY <1>2, <3>1, <3>3 DEF Start, Typed, TypeOK, Go, models
  <2>2. \A p \in Processes : Holders(p)' = Holders(p)
    BY <2>1 DEF Holders, Of
  <2> QED
    BY <2>1, <2>2 DEF SlotsKept
<1>3. ASSUME NEW t \in Threads, Serve(t), UNCHANGED models
      PROVE  SlotsKept'
  <2>1. /\ UNCHANGED <<job, free>> /\ phase[t] \notin Calling /\ phase'[t] \notin Calling
        /\ \A r \in Threads \ {t} : phase'[r] = phase[r]
    BY <1>3 DEF Serve, LookUp, Read, ReadLogin, ReadRefresh, ReadSession, Write, Clean, Expel,
                Invalidate, Store, Close, models, Go, Typed, TypeOK
  <2> QED
    BY <1>1, <2>1
<1>4. ASSUME NEW t \in Threads, NoConnection(t) \/ TransactionFails(t) \/ SlotTimesOut(t),
             UNCHANGED models
      PROVE  SlotsKept'
  <2>1. /\ UNCHANGED <<job, free>> /\ phase[t] \notin Calling /\ phase'[t] \notin Calling
        /\ \A r \in Threads \ {t} : phase'[r] = phase[r]
    BY <1>4 DEF NoConnection, TransactionFails, SlotTimesOut, models, Go, Typed, TypeOK
  <2> QED
    BY <1>1, <2>1
<1>5. ASSUME NEW t \in Threads, Call(t)
      PROVE  SlotsKept'
  <2>1. /\ UNCHANGED job /\ job[t] # NoJob
        /\ \A r \in Threads \ {t} : phase'[r] = phase[r]
    BY <1>0, <1>5 DEF Call, CheckCircuit, TakeSlot, Answered, CallFails, RecordUsage, UsageIsLost,
                LeaveSlot, CloseCircuit, OpenCircuit, Go, Typed, TypeOK
  <2>2. PICK p \in Processes : p = Of(t)
    BY <2>1, ProcessOfJob DEF Typed
  <2>3. free[p] \in Nat /\ free[p] + Cardinality(Holders(p)) = Slots /\ Slots \in Nat
    BY ServerAssumption DEF Typed, TypeOK, SlotsKept
  <2>4. \A r \in Threads : Of(r)' = Of(r)
    BY <2>1 DEF Of
  <2>5. ASSUME \A q \in Processes \ {p} : free'[q] = free[q],
               free'[p] + Cardinality(Holders(p)') = Slots
        PROVE  SlotsKept'
    <3>1. \A q \in Processes : q # p => Holders(q)' = Holders(q)
      BY <2>1, <2>2, <2>4 DEF Holders
    <3> QED
      BY <2>5, <3>1 DEF SlotsKept
  <2>6. CASE TakeSlot(t)
    <3>1. /\ free'[p] = free[p] - 1 /\ free[p] > 0
          /\ phase[t] = "queuing" /\ phase'[t] = "calling"
      BY <2>2, <2>6 DEF TakeSlot, Go, Typed, TypeOK
    <3>2. t \notin Holders(p) /\ Holders(p)' = Holders(p) \cup {t}
      BY <2>1, <2>2, <2>4, <3>1 DEF Holders
    <3>3. Cardinality(Holders(p)') = Cardinality(Holders(p)) + 1 /\ Cardinality(Holders(p)) \in Nat
      BY <3>2, ThreadSets, OneIn
    <3>4. \A q \in Processes \ {p} : free'[q] = free[q]
      BY <2>2, <2>6 DEF TakeSlot, Typed, TypeOK
    <3> QED
      BY <2>3, <2>5, <3>1, <3>3, <3>4
  <2>7. CASE LeaveSlot(t)
    <3>1. free'[p] = free[p] + 1 /\ phase[t] = "leaving"
      BY <2>2, <2>7 DEF LeaveSlot, Typed, TypeOK
    <3>2. phase'[t] \notin Calling
      BY <2>7 DEF LeaveSlot, Go, Typed, TypeOK
    <3>3. t \in Holders(p) /\ Holders(p)' = Holders(p) \ {t}
      BY <2>1, <2>2, <2>4, <3>1, <3>2 DEF Holders
    <3>4. /\ Cardinality(Holders(p)) = Cardinality(Holders(p)') + 1
          /\ Cardinality(Holders(p)') \in Nat
      BY <3>3, ThreadSets, OneOut
    <3>5. \A q \in Processes \ {p} : free'[q] = free[q]
      BY <2>2, <2>7 DEF LeaveSlot, Typed, TypeOK
    <3> QED
      BY <2>3, <2>5, <3>1, <3>4, <3>5
  <2>8. CASE CheckCircuit(t) \/ Answered(t) \/ CallFails(t) \/ RecordUsage(t) \/ UsageIsLost(t)
             \/ CloseCircuit(t) \/ OpenCircuit(t)
    <3>1. UNCHANGED free /\ (phase'[t] \in Calling <=> phase[t] \in Calling)
      BY <2>8 DEF CheckCircuit, Answered, CallFails, RecordUsage, UsageIsLost, CloseCircuit,
                  OpenCircuit, models, Go, Typed, TypeOK
    <3> QED
      BY <1>1, <2>1, <3>1
  <2> QED
    BY <1>5, <2>6, <2>7, <2>8 DEF Call
<1>6. ASSUME UNCHANGED <<job, phase>>,
             \/ UNCHANGED <<accounts, models>>
             \/ \E p \in Processes, k \in Tokens : Expire(p, k) /\ UNCHANGED models
             \/ \E p \in Processes : CooldownEnds(p) /\ UNCHANGED accounts
      PROVE  SlotsKept'
  <2>1. UNCHANGED free
    BY <1>6 DEF models, CooldownEnds
  <2> QED
    BY <1>1, <1>6, <2>1
<1> QED
  BY <1>2, <1>3, <1>4, <1>5, <1>6, StepOfOne DEF NoConnection, SlotTimesOut

LEMMA AnswersStep ==
  ASSUME Typed, AnswersInHand, CircuitHasFallback, [Next]_vars
  PROVE  AnswersInHand' /\ CircuitHasFallback'
<1>1. ASSUME UNCHANGED <<phase, models>>
      PROVE  AnswersInHand' /\ CircuitHasFallback'
  BY <1>1 DEF AnswersInHand, InHand, CircuitHasFallback, models
<1>2. ASSUME NEW t \in Threads, UNCHANGED models,
             \A r \in Threads \ {t} : phase'[r] = phase[r],
             phase[t] \notin {"recording", "leaving", "restoring", "done"},
             phase'[t] \notin {"recording", "leaving", "restoring", "calling", "tripping"}
      PROVE  AnswersInHand' /\ CircuitHasFallback'
  <2>1. AnswersInHand'
    BY <1>2 DEF AnswersInHand, InHand, models
  <2> QED
    BY <1>2, <2>1 DEF CircuitHasFallback, models
<1>3. ASSUME NEW t \in Threads, Start(t)
      PROVE  AnswersInHand' /\ CircuitHasFallback'
  <2>1. PICK j \in JobsOf[t] :
          Go(t, CASE j.kind = "authenticate" -> "looking"
                  [] j.kind \in {"login", "refresh"} -> "reading"
                  [] j.kind \in {"logout", "ban", "unban"} -> "writing"
                  [] j.kind = "chat" -> "checking"
                  [] j.kind = "embed" -> "queuing")
    BY <1>3 DEF Start
  <2>2. j.kind \in Kinds
    BY ServerAssumption
  <2>3. phase'[t] \in {"looking", "reading", "writing", "checking", "queuing"}
    BY <2>1, <2>2 DEF Typed, TypeOK, Go, Kinds
  <2>4. \A r \in Threads \ {t} : phase'[r] = phase[r]
    BY <2>1 DEF Typed, TypeOK, Go
  <2> QED
    BY <1>2, <1>3, <2>3, <2>4 DEF Start
<1>4. ASSUME NEW t \in Threads,
             Serve(t) \/ NoConnection(t) \/ TransactionFails(t) \/ SlotTimesOut(t),
             UNCHANGED models
      PROVE  AnswersInHand' /\ CircuitHasFallback'
  <2>1. /\ \A r \in Threads \ {t} : phase'[r] = phase[r]
        /\ phase[t] \notin {"recording", "leaving", "restoring", "done"}
        /\ phase'[t] \notin {"recording", "leaving", "restoring", "calling", "tripping"}
    BY <1>4 DEF Serve, LookUp, Read, ReadLogin, ReadRefresh, ReadSession, Write, Clean, Expel,
                Invalidate, Store, Close, NoConnection, TransactionFails, SlotTimesOut, Go,
                Typed, TypeOK
  <2> QED
    BY <1>2, <1>4, <2>1
<1>5. ASSUME NEW t \in Threads, Call(t)
      PROVE  AnswersInHand' /\ CircuitHasFallback'
  <2>1. /\ \A r \in Threads \ {t} : phase'[r] = phase[r]
        /\ HasFallback \in BOOLEAN /\ Attempts \in Nat \ {0}
        /\ Of(t) \in Processes
    <3>1. job[t] # NoJob /\ \A r \in Threads \ {t} : phase'[r] = phase[r]
      BY <1>5 DEF Call, CheckCircuit, TakeSlot, Answered, CallFails, RecordUsage, UsageIsLost,
                  LeaveSlot, CloseCircuit, OpenCircuit, Go, Typed, TypeOK, PhasesFit, Fits
    <3> QED
      BY <3>1, ProcessOfJob, ServerAssumption DEF Typed
  <2>2. CASE CheckCircuit(t) \/ TakeSlot(t)
    <3>1. /\ phase[t] \in {"checking", "queuing"} /\ phase'[t] \in {"queuing", "calling"}
          /\ UNCHANGED <<result, answers, circuit>>
          /\ \A r \in Threads \ {t} : provider'[r] = provider[r] /\ attempts'[r] = attempts[r]
          /\ phase'[t] = "calling" => attempts'[t] = 0
      BY <2>2 DEF CheckCircuit, TakeSlot, Go, Typed, TypeOK
    <3>2. AnswersInHand'
      BY <2>1, <3>1 DEF AnswersInHand, InHand
    <3> QED
      BY <2>1, <3>1, <3>2 DEF CircuitHasFallback
  <2>3. CASE Answered(t) \/ CallFails(t)
    <3>1. /\ phase[t] = "calling" /\ phase'[t] \in {"recording", "leaving", "calling"}
          /\ UNCHANGED <<provider, circuit>>
          /\ \A r \in Threads \ {t} : /\ result'[r] = result[r] /\ attempts'[r] = attempts[r]
                                      /\ answers'[r] = answers[r]
      BY <2>3 DEF Answered, CallFails, Go, Typed, TypeOK
    <3>2. InHand(t)
      BY DEF AnswersInHand
    <3>3. InHand(t)'
      <4>1. CASE Answered(t)
        <5>1. /\ answers'[t] = answers[t] + 1 /\ result'[t] = "answer"
              /\ phase'[t] \in {"recording", "leaving"}
          BY <4>1 DEF Answered, Go, Typed, TypeOK
        <5> QED
          BY <3>1, <3>2, <5>1 DEF InHand
      <4>2. CASE CallFails(t)
        <5>1. /\ answers'[t] = answers[t]
              /\ \/ phase'[t] = "calling" /\ attempts'[t] = attempts[t] + 1
                    /\ attempts[t] + 1 < Attempts
                 \/ phase'[t] = "leaving" /\ result'[t] \in {"transient", "fatal"}
          BY <3>1, <4>2 DEF CallFails, Go, Typed, TypeOK
        <5> QED
          BY <3>1, <3>2, <5>1 DEF InHand
      <4> QED
        BY <2>3, <4>1, <4>2
    <3>4. AnswersInHand'
      BY <2>1, <3>1, <3>3 DEF AnswersInHand, InHand
    <3> QED
      BY <2>1, <3>1, <3>4 DEF CircuitHasFallback
  <2>4. CASE RecordUsage(t) \/ UsageIsLost(t)
    <3>1. phase[t] = "recording" /\ phase'[t] = "leaving" /\ UNCHANGED models
      BY <2>4 DEF RecordUsage, UsageIsLost, Go, Typed, TypeOK
    <3>2. AnswersInHand'
      BY <2>1, <3>1 DEF AnswersInHand, InHand, models
    <3> QED
      BY <2>1, <3>1, <3>2 DEF CircuitHasFallback, models
  <2>5. CASE LeaveSlot(t)
    <3>1. /\ phase[t] = "leaving" /\ phase'[t] \in {"restoring", "done", "tripping", "failed"}
          /\ phase'[t] \in {"restoring", "done"} <=> result[t] = "answer"
          /\ phase'[t] = "tripping" => HasFallback /\ provider[t] = "primary"
          /\ UNCHANGED <<circuit, provider, attempts, result, answers>>
      BY <2>5 DEF LeaveSlot, Go, Typed, TypeOK
    <3>2. AnswersInHand'
      BY <2>1, <3>1 DEF AnswersInHand, InHand
    <3> QED
      BY <2>1, <3>1, <3>2 DEF CircuitHasFallback
  <2>6. CASE CloseCircuit(t) \/ OpenCircuit(t)
    <3>1. /\ phase[t] \in {"restoring", "tripping"}
          /\ phase'[t] = IF phase[t] = "restoring" THEN "done" ELSE "queuing"
          /\ UNCHANGED <<attempts, result, answers>>
          /\ \A r \in Threads \ {t} : provider'[r] = provider[r]
          /\ \A p \in Processes : circuit'[p] => circuit[p] \/ phase[t] = "tripping"
      BY <2>6 DEF CloseCircuit, OpenCircuit, Go, Typed, TypeOK
    <3>2. AnswersInHand'
      BY <2>1, <3>1 DEF AnswersInHand, InHand
    <3> QED
      BY <2>1, <3>1, <3>2 DEF CircuitHasFallback
  <2> QED
    BY <1>5, <2>2, <2>3, <2>4, <2>5, <2>6 DEF Call
<1>6. ASSUME UNCHANGED phase, NEW p \in Processes, CooldownEnds(p)
      PROVE  AnswersInHand' /\ CircuitHasFallback'
  <2>1. \A q \in Processes : circuit'[q] => circuit[q]
    BY <1>6 DEF CooldownEnds, Typed, TypeOK
  <2> QED
    BY <1>6, <2>1 DEF CooldownEnds, AnswersInHand, InHand, CircuitHasFallback
<1> QED
  BY <1>1, <1>3, <1>4, <1>5, <1>6, StepOfOne DEF NoConnection, SlotTimesOut

-----------------------------------------------------------------------------
(* Sessions and caches.                                                    *)

Accounted == Typed /\ TokensIssued /\ TrustedIsValid /\ OnlyRacersGoStale

\* A step of t that leaves the accounts alone and does not come to trust anything.
LEMMA QuietAccounts ==
  ASSUME Accounted, NEW t \in Threads, UNCHANGED accounts, Others(t),
         phase[t] # "invalidating",
         phase'[t] \notin {"storing", "caching", "invalidating"},
         phase'[t] = "writing" => job'[t].kind \notin {"login", "refresh"},
         job'[t] # NoJob /\ job'[t].token # NoToken => issued[job'[t].token] # NoUser
  PROVE  TokensIssued' /\ TrustedIsValid' /\ OnlyRacersGoStale'
<1> USE DEF accounts, Accounted
<1>1. TokensIssued'
  BY DEF TokensIssued, Presents, Others
<1>2. TrustedIsValid'
  <2>1. ASSUME NEW r \in Threads, r # t
        PROVE  TrustJustified(r)'
    <3>1. TrustJustified(r)
      BY DEF TrustedIsValid
    <3> QED
      BY <2>1, <3>1 DEF TrustJustified, Trusts, UserOf, Valid, Others
  <2>2. TrustJustified(t)'
    BY DEF TrustJustified, Trusts
  <2> QED
    BY <2>1, <2>2 DEF TrustedIsValid
<1>3. OnlyRacersGoStale'
  <2>1. ASSUME NEW p \in Processes, NEW k \in Tokens, NEW r \in Threads,
               job[r] # NoJob, Of(r) = p, Revoking(r, k)
        PROVE  job'[r] # NoJob /\ Of(r)' = p /\ Revoking(r, k)'
    BY <2>1 DEF Revoking, Of, Others
  <2>2. \A k \in Tokens : Valid(k) => Valid(k)'
    BY DEF Valid
  <2> QED
    BY <2>1, <2>2 DEF OnlyRacersGoStale
<1> QED
  BY <1>1, <1>2, <1>3

LEMMA ReadAccounts ==
  ASSUME Accounted, NEW t \in Threads, Read(t), Frame(t)
  PROVE  TokensIssued' /\ TrustedIsValid' /\ OnlyRacersGoStale'
<1> USE DEF Accounted
<1>1. /\ phase[t] = "reading" /\ UNCHANGED <<job, status, sessions, issued, cache, overtaken>>
      /\ \A r \in Threads \ {t} : phase'[r] = phase[r] /\ token'[r] = token[r]
      /\ job[t] # NoJob
  BY DEF Read, ReadLogin, ReadRefresh, ReadSession, Frame, Others, Typed, TypeOK, PhasesFit, Fits
<1>2. \/ phase'[t] \in {"failed", "cleaning"}
      \/ /\ phase'[t] = "writing" /\ job[t].kind \in {"login", "refresh"}
         /\ status[UserOf(t)] = "active"
      \/ /\ phase'[t] = "storing" /\ job[t].kind = "authenticate" /\ Valid(job[t].token)
         /\ token'[t] = job[t].token
  BY DEF Read, ReadLogin, ReadRefresh, ReadSession, Go, UserOf, Valid, Typed, TypeOK
<1>3. job[t].kind = "authenticate" => job[t].token \in Tokens
  BY <1>1, ProcessOfJob DEF Typed
<1>4. \A r \in Threads : UserOf(r)' = UserOf(r)
  BY <1>1 DEF UserOf
<1>5. \A k : Valid(k)' = Valid(k)
  BY <1>1 DEF Valid
<1>6. TokensIssued'
  <2>1. Presents(t)'
    BY <1>1, <1>2, <1>3 DEF TokensIssued, Presents
  <2> QED
    BY <1>1, <2>1 DEF TokensIssued, Presents
<1>7. TrustedIsValid'
  <2>1. ASSUME NEW r \in Threads, r # t
        PROVE  TrustJustified(r)'
    <3>1. TrustJustified(r)
      BY DEF TrustedIsValid
    <3> QED
      BY <1>1, <1>4, <1>5, <2>1, <3>1 DEF TrustJustified, Trusts
  <2>2. TrustJustified(t)'
    <3>1. CASE phase'[t] = "writing"
      BY <1>1, <1>2, <1>4, <3>1 DEF TrustJustified
    <3>2. CASE phase'[t] = "storing"
      <4>1. UserOf(t) = issued[job[t].token] /\ token'[t] \in Tokens /\ Valid(token'[t])
        BY <1>2, <1>3, <3>2 DEF UserOf
      <4>2. Valid(token[t])'
        BY <1>1, <4>1 DEF Valid
      <4> QED
        BY <1>1, <1>2, <1>4, <3>2, <4>1, <4>2 DEF TrustJustified
    <3>3. CASE phase'[t] \in {"failed", "cleaning"}
      BY <3>3 DEF TrustJustified, Trusts
    <3> QED
      BY <1>2, <3>1, <3>2, <3>3
  <2> QED
    BY <2>1, <2>2 DEF TrustedIsValid
<1>8. OnlyRacersGoStale'
  <2>1. ASSUME NEW p \in Processes, NEW k \in Tokens, NEW r \in Threads,
               job[r] # NoJob, Of(r) = p, Revoking(r, k)
        PROVE  job'[r] # NoJob /\ Of(r)' = p /\ Revoking(r, k)'
    BY <1>1, <2>1 DEF Revoking, Of
  <2> QED
    BY <1>1, <1>5, <2>1 DEF OnlyRacersGoStale
<1> QED
  BY <1>6, <1>7, <1>8

\* A revocation is known to the others that trust what is revoked.
LEMMA RevokedTrust ==
  ASSUME Accounted, NEW t \in Threads, NEW out, NEW gone, NEW where,
         Revoke(t, out, gone, where), NEW r \in Threads, r # t,
         UNCHANGED job, phase'[r] = phase[r], token'[r] = token[r],
         \A k \in Tokens : issued[k] # NoUser => issued'[k] = issued[k],
         \A k \in sessions : k \in sessions' \/ k \in gone \/ issued[k] \in out,
         \A u \in Users : status[u] = "active" /\ u \notin out => status'[u] = "active"
  PROVE  TrustJustified(r)'
<1> SUFFICES ASSUME Trusts(r)', ~overtaken'[r]
             PROVE  IF phase'[r] = "writing" THEN status'[UserOf(r)'] = "active"
                    ELSE /\ token'[r] \in Tokens /\ Valid(token[r])'
                         /\ issued'[token'[r]] = UserOf(r)'
  BY DEF TrustJustified
<1> USE DEF Accounted
<1>1. Trusts(r) /\ ~overtaken[r] /\ UserOf(r) \notin out /\ token[r] \notin gone
  <2>1. Trusts(r)
    BY DEF Trusts
  <2>2. overtaken'[r] = (overtaken[r] \/ (r # t /\ Trusts(r) /\ (UserOf(r) \in out \/ token[r] \in gone)))
    BY Zenon DEF Revoke
  <2> QED
    BY <2>1, <2>2
<1>2. job[r] # NoJob /\ job[r].kind \in {"login", "refresh", "authenticate"}
  BY <1>1 DEF Trusts, Typed, PhasesFit, Fits
<1>3. job[r].kind # "login" => job[r].token \in Tokens /\ issued[job[r].token] # NoUser
  BY <1>2, ProcessOfJob, ServerAssumption DEF Typed, TokensIssued, Presents
<1>4. UserOf(r)' = UserOf(r) /\ UserOf(r) \in Users
  BY <1>2, <1>3, ProcessOfJob DEF UserOf, Typed, TypeOK
<1>5. IF phase[r] = "writing" THEN status[UserOf(r)] = "active"
      ELSE token[r] \in Tokens /\ Valid(token[r]) /\ issued[token[r]] = UserOf(r)
  BY <1>1 DEF TrustedIsValid, TrustJustified
<1>6. CASE phase[r] = "writing"
  BY <1>1, <1>4, <1>5, <1>6
<1>7. CASE phase[r] # "writing"
  <2>1. /\ token[r] \in sessions /\ status[issued[token[r]]] = "active"
        /\ issued[token[r]] # NoUser
    BY <1>5, <1>7 DEF Valid, TokensIssued
  <2>2. issued'[token[r]] = issued[token[r]] /\ token[r] \in sessions'
    BY <1>1, <1>5, <1>7, <2>1
  <2> QED
    BY <1>1, <1>4, <1>5, <1>7, <2>1, <2>2 DEF Valid
<1> QED
  BY <1>6, <1>7

\* What is left in the caches after a revocation.
LEMMA RevokedCaches ==
  ASSUME Accounted, NEW t \in Threads, NEW out, NEW gone, NEW where,
         Revoke(t, out, gone, where), UNCHANGED job, job[t] # NoJob, Others(t),
         phase[t] # "invalidating",
         \A k \in Tokens : issued[k] # NoUser => issued'[k] = issued[k],
         \A k \in sessions : k \in sessions' \/ k \in gone \/ issued[k] \in out,
         \A u \in Users : status[u] = "active" /\ u \notin out => status'[u] = "active",
         \/ where = Processes
         \/ /\ where = Elsewhere(t)
            /\ \A k \in Tokens : k \in gone \/ issued[k] \in out => Revoking(t, k)'
  PROVE  OnlyRacersGoStale'
<1> SUFFICES ASSUME NEW p \in Processes, NEW k \in Tokens, cache'[p][k] = "good"
             PROVE  \/ Valid(k)'
                    \/ \E r \in Threads : job'[r] # NoJob /\ Of(r)' = p /\ Revoking(r, k)'
  BY DEF OnlyRacersGoStale
<1> USE DEF Accounted
<1>1. /\ cache[p][k] = "good"
      /\ ~(p \in where /\ (k \in gone \/ issued[k] \in out))
  <2>1. cache'[p][k] = IF p \in where /\ (k \in gone \/ issued[k] \in out) /\ cache[p][k] # "none"
                       THEN "late" ELSE cache[p][k]
    BY DEF Revoke
  <2> QED
    BY <2>1
<1>2. CASE \E r \in Threads : job[r] # NoJob /\ Of(r) = p /\ Revoking(r, k)
  <2>1. PICK r \in Threads : job[r] # NoJob /\ Of(r) = p /\ Revoking(r, k)
    BY <1>2
  <2>2. r # t
    BY <2>1 DEF Revoking
  <2>3. phase'[r] = phase[r] /\ Of(r)' = Of(r)
    BY <2>2 DEF Others, Of
  <2>4. job[r].kind = "ban" /\ issued[k] \in job[r].users => issued'[k] = issued[k]
    BY <2>1, ProcessOfJob, ServerAssumption DEF Typed
  <2> QED
    BY <2>1, <2>3, <2>4 DEF Revoking
<1>3. CASE Valid(k)
  <2>1. k \in sessions /\ status[issued[k]] = "active" /\ issued[k] \in Users
    BY <1>3, ServerAssumption DEF Valid, TokensIssued, Typed, TypeOK
  <2>a. issued'[k] = issued[k]
    BY <2>1, ServerAssumption DEF Typed, TypeOK
  <2>2. CASE k \in gone \/ issued[k] \in out
    <3>1. p = Of(t) /\ Revoking(t, k)'
      BY <1>1, <2>2 DEF Elsewhere
    <3> QED
      BY <3>1 DEF Of
  <2>3. CASE k \notin gone /\ issued[k] \notin out
    BY <2>1, <2>a, <2>3 DEF Valid
  <2> QED
    BY <2>2, <2>3
<1> QED
  BY <1>1, <1>2, <1>3 DEF OnlyRacersGoStale

LEMMA WriteAccounts ==
  ASSUME Accounted, NEW t \in Threads, Write(t), Frame(t)
  PROVE  TokensIssued' /\ TrustedIsValid' /\ OnlyRacersGoStale'
<1> USE DEF Accounted
<1>1. /\ phase[t] = "writing" /\ phase'[t] = "invalidating" /\ UNCHANGED job
      /\ \A r \in Threads \ {t} : phase'[r] = phase[r]
      /\ job[t] # NoJob /\ Others(t)
  BY DEF Write, Go, Frame, Others, Typed, TypeOK, PhasesFit, Fits
<1>2. CASE Issue(t)
  <2>1. PICK k \in Tokens :
          LET old == IF job[t].kind = "refresh" THEN {job[t].token} ELSE {} IN
          /\ issued[k] = NoUser
          /\ issued' = [issued EXCEPT ![k] = UserOf(t)]
          /\ sessions' = (sessions \ old) \cup {k}
          /\ token' = [token EXCEPT ![t] = k]
          /\ Revoke(t, {}, old, Elsewhere(t))
    BY <1>2 DEF Issue
  <2> DEFINE old == IF job[t].kind = "refresh" THEN {job[t].token} ELSE {}
  <2>2. job[t].kind \in {"login", "refresh"} /\ UNCHANGED status
    BY <1>2 DEF Issue
  <2>3. job[t].kind = "refresh" => job[t].token \in Tokens /\ issued[job[t].token] # NoUser
    BY <1>1, ProcessOfJob, ServerAssumption DEF Typed, TokensIssued, Presents
  <2>4. UserOf(t) # NoUser
    BY <1>1, <2>2, <2>3, ProcessOfJob, ServerAssumption DEF Typed, UserOf
  <2>5. /\ issued'[k] = UserOf(t) /\ \A n \in Tokens \ {k} : issued'[n] = issued[n]
        /\ token'[t] = k /\ \A r \in Threads \ {t} : token'[r] = token[r]
        /\ k \notin sessions /\ k \notin old
    BY <2>1, <2>2, <2>3 DEF Typed, TypeOK, TokensIssued
  <2>6. \A n \in Tokens : issued[n] # NoUser => issued'[n] = issued[n]
    BY <2>1, <2>5
  <2>7. \A n \in sessions : n \in sessions' \/ n \in old \/ issued[n] \in {}
    BY <2>1
  <2>8. \A u \in Users : status[u] = "active" /\ u \notin {} => status'[u] = "active"
    BY <2>2
  <2>9. Revoke(t, {}, old, Elsewhere(t))
    BY <2>1
  <2>10. TokensIssued'
    <3>1. \A n \in sessions' : issued'[n] # NoUser
      BY <2>1, <2>4, <2>5, <2>6 DEF Typed, TypeOK, TokensIssued
    <3>2. ASSUME NEW r \in Threads
          PROVE  Presents(r)'
      <4>1. job[r] # NoJob /\ job[r].token # NoToken =>
              job[r].token \in Tokens /\ issued[job[r].token] # NoUser
        BY ProcessOfJob DEF Typed, TokensIssued, Presents
      <4>2. job'[r] # NoJob /\ job'[r].token # NoToken => issued'[job'[r].token] # NoUser
        BY <1>1, <2>6, <4>1
      <4> QED
        BY <1>1, <2>5, <4>2 DEF TokensIssued, Presents
    <3> QED
      BY <3>1, <3>2 DEF TokensIssued
  <2>11. TrustedIsValid'
    <3>1. ASSUME NEW r \in Threads, r # t
          PROVE  TrustJustified(r)'
      BY <1>1, <2>5, <2>6, <2>7, <2>8, <2>9, <3>1, RevokedTrust
    <3>2. TrustJustified(t)'
      <4> SUFFICES ASSUME ~overtaken'[t]
                   PROVE  token'[t] \in Tokens /\ Valid(token[t])' /\ issued'[token'[t]] = UserOf(t)'
        BY <1>1 DEF TrustJustified
      <4>1. ~overtaken[t]
        <5>1. overtaken'[t] = (overtaken[t] \/ (t # t /\ Trusts(t) /\ (UserOf(t) \in {} \/ token[t] \in old)))
          BY <2>9, Zenon DEF Revoke
        <5> QED
          BY <5>1
      <4>2. status[UserOf(t)] = "active"
        BY <1>1, <2>2, <4>1 DEF TrustedIsValid, TrustJustified, Trusts
      <4>3. UserOf(t)' = UserOf(t)
        BY <1>1, <2>2, <2>3, <2>6 DEF UserOf
      <4>4. token'[t] = k /\ k \in sessions' /\ issued'[k] = UserOf(t)
        BY <2>1, <2>5
      <4>5. Valid(token[t])'
        BY <2>2, <4>2, <4>4 DEF Valid
      <4> QED
        BY <4>3, <4>4, <4>5
    <3> QED
      BY <3>1, <3>2 DEF TrustedIsValid
  <2>12. \A n \in Tokens : n \in old \/ issued[n] \in {} => Revoking(t, n)'
    BY <1>1, <2>2 DEF Revoking
  <2>13. OnlyRacersGoStale'
    BY <1>1, <2>6, <2>7, <2>8, <2>9, <2>12, RevokedCaches
  <2> QED
    BY <2>10, <2>11, <2>13
<1>3. CASE LogOut(t) \/ Ban(t)
  <2>1. PICK out \in SUBSET Users, gone \in SUBSET Tokens :
          /\ Revoke(t, out, gone, Elsewhere(t)) /\ UNCHANGED <<issued, token>>
          /\ sessions' \subseteq sessions
          /\ \A k \in sessions : k \in sessions' \/ k \in gone \/ issued[k] \in out
          /\ \A u \in Users : status[u] = "active" /\ u \notin out => status'[u] = "active"
          /\ \/ job[t].kind = "logout" /\ out = {} /\ gone = {job[t].token}
             \/ job[t].kind = "ban" /\ out = job[t].users /\ gone = {}
    <3>1. CASE LogOut(t)
      <4>1. job[t].token \in Tokens
        BY <1>1, <3>1, ProcessOfJob DEF LogOut, Typed
      <4>2. /\ Revoke(t, {}, {job[t].token}, Elsewhere(t)) /\ UNCHANGED <<issued, token, status>>
            /\ sessions' = sessions \ {job[t].token} /\ job[t].kind = "logout"
        BY <3>1 DEF LogOut
      <4> QED
        BY <4>1, <4>2
    <3>2. CASE Ban(t)
      <4>1. job[t].users \subseteq Users
        BY <1>1, ProcessOfJob DEF Typed
      <4>2. /\ Revoke(t, job[t].users, {}, Elsewhere(t)) /\ UNCHANGED <<issued, token>>
            /\ sessions' = {k \in sessions : issued[k] \notin job[t].users}
            /\ job[t].kind = "ban"
        BY <3>2 DEF Ban
      <4>3. \A u \in Users : status[u] = "active" /\ u \notin job[t].users => status'[u] = "active"
        BY <3>2 DEF Ban, Typed, TypeOK
      <4> QED
        BY <4>1, <4>2, <4>3
    <3> QED
      BY <1>3, <3>1, <3>2
  <2>2. TokensIssued'
    BY <1>1, <2>1 DEF TokensIssued, Presents
  <2>3. TrustedIsValid'
    <3>1. ASSUME NEW r \in Threads, r # t
          PROVE  TrustJustified(r)'
      BY <1>1, <2>1, <3>1, RevokedTrust
    <3>2. TrustJustified(t)'
      BY <1>1, <2>1 DEF TrustJustified, Trusts
    <3> QED
      BY <3>1, <3>2 DEF TrustedIsValid
  <2>4. \A k \in Tokens : k \in gone \/ issued[k] \in out => Revoking(t, k)'
    BY <1>1, <2>1 DEF Revoking
  <2>5. OnlyRacersGoStale'
    BY <1>1, <2>1, <2>4, RevokedCaches
  <2> QED
    BY <2>2, <2>3, <2>5
<1>4. CASE Unban(t)
  <2>1. /\ UNCHANGED <<sessions, issued, token, cache, overtaken>> /\ job[t].kind = "unban"
        /\ \A u \in Users : status[u] = "active" => status'[u] = "active"
    BY <1>4 DEF Unban
  <2>2. \A k \in Tokens : Valid(k) => Valid(k)'
    BY <2>1 DEF Valid, Typed, TypeOK, TokensIssued
  <2>3. \A r \in Threads : UserOf(r)' = UserOf(r)
    BY <1>1, <2>1 DEF UserOf
  <2>4. TokensIssued'
    BY <1>1, <2>1 DEF TokensIssued, Presents
  <2>5. TrustedIsValid'
    <3>1. ASSUME NEW r \in Threads, Trusts(r)', ~overtaken[r]
          PROVE  IF phase'[r] = "writing" THEN status'[UserOf(r)'] = "active"
                 ELSE /\ token[r] \in Tokens /\ Valid(token[r])'
                      /\ issued[token[r]] = UserOf(r)'
      <4>1. r # t /\ Trusts(r)
        BY <1>1, <2>1, <3>1 DEF Trusts
      <4>2. IF phase[r] = "writing" THEN status[UserOf(r)] = "active"
            ELSE token[r] \in Tokens /\ Valid(token[r]) /\ issued[token[r]] = UserOf(r)
        BY <3>1, <4>1 DEF TrustedIsValid, TrustJustified
      <4>3. phase[r] = "writing" => UserOf(r) \in Users
        <5>1. phase[r] = "writing" => job[r] # NoJob /\ job[r].kind \in {"login", "refresh"}
          BY <4>1 DEF Trusts
        <5> QED
          BY <5>1, ProcessOfJob, ServerAssumption
          DEF UserOf, Typed, TypeOK, TokensIssued, Presents
      <4> QED
        BY <1>1, <2>1, <2>2, <2>3, <4>1, <4>2, <4>3
    <3> QED
      BY <2>1, <3>1 DEF TrustedIsValid, TrustJustified
  <2>6. OnlyRacersGoStale'
    <3>1. ASSUME NEW p \in Processes, NEW k \in Tokens, NEW r \in Threads,
                 job[r] # NoJob, Of(r) = p, Revoking(r, k)
          PROVE  job'[r] # NoJob /\ Of(r)' = p /\ Revoking(r, k)'
      BY <1>1, <2>1, <3>1 DEF Revoking, Of
    <3> QED
      BY <2>1, <2>2, <3>1 DEF OnlyRacersGoStale
  <2> QED
    BY <2>4, <2>5, <2>6
<1> QED
  BY <1>2, <1>3, <1>4 DEF Write

\* A step that only removes entries of a cache, of the process of t.
LEMMA FewerEntries ==
  ASSUME Accounted, UNCHANGED <<job, status, sessions, issued>>,
         \A p \in Processes, k \in Tokens : cache'[p][k] = "good" => cache[p][k] = "good",
         \A p \in Processes, k \in Tokens, r \in Threads :
           /\ cache'[p][k] = "good" /\ job[r] # NoJob /\ Of(r) = p /\ Revoking(r, k)
           => phase'[r] = phase[r]
  PROVE  OnlyRacersGoStale'
<1> SUFFICES ASSUME NEW p \in Processes, NEW k \in Tokens, cache'[p][k] = "good"
             PROVE  \/ Valid(k)'
                    \/ \E r \in Threads : job'[r] # NoJob /\ Of(r)' = p /\ Revoking(r, k)'
  BY DEF OnlyRacersGoStale
<1>1. CASE Valid(k)
  BY <1>1 DEF Valid
<1>2. CASE \E r \in Threads : job[r] # NoJob /\ Of(r) = p /\ Revoking(r, k)
  BY <1>2 DEF Revoking, Of
<1> QED
  BY <1>1, <1>2 DEF Accounted, OnlyRacersGoStale

LEMMA CleanAccounts ==
  ASSUME Accounted, NEW t \in Threads, Clean(t) \/ Expel(t), Frame(t)
  PROVE  TokensIssued' /\ TrustedIsValid' /\ OnlyRacersGoStale'
<1> USE DEF Accounted
<1>1. /\ phase[t] \in {"cleaning", "expelling"} /\ phase'[t] \in {"expelling", "failed"}
      /\ UNCHANGED <<job, issued, status, token>>
      /\ \A r \in Threads \ {t} : phase'[r] = phase[r]
      /\ job[t] # NoJob /\ job[t].kind = "authenticate" /\ Others(t)
      /\ sessions' \subseteq sessions
  BY DEF Clean, Expel, Go, Frame, Others, Typed, TypeOK, PhasesFit, Fits
<1>2. TokensIssued'
  BY <1>1 DEF TokensIssued, Presents
<1>3. TrustJustified(t)'
  BY <1>1 DEF TrustJustified, Trusts
<1>4. CASE Clean(t)
  <2>1. UNCHANGED <<sessions, overtaken>>
    BY <1>4 DEF Clean
  <2>2. ASSUME NEW r \in Threads, r # t
        PROVE  TrustJustified(r)'
    <3>1. TrustJustified(r)
      BY DEF TrustedIsValid
    <3> QED
      BY <1>1, <2>1, <2>2, <3>1 DEF TrustJustified, Trusts, UserOf, Valid
  <2>3. \A p \in Processes, k \in Tokens : cache'[p][k] = "good" => cache[p][k] = "good"
    BY <1>4 DEF Clean, Typed, TypeOK
  <2>4. OnlyRacersGoStale'
    BY <1>1, <2>1, <2>3, FewerEntries DEF Revoking
  <2> QED
    BY <1>2, <1>3, <2>2, <2>4 DEF TrustedIsValid
<1>5. CASE Expel(t)
  <2> DEFINE gone == {k \in sessions : issued[k] = UserOf(t)}
  <2>1. Revoke(t, {}, gone, Processes) /\ sessions' = sessions \ gone
    BY <1>5 DEF Expel
  <2>2. \A k \in sessions : k \in sessions' \/ k \in gone \/ issued[k] \in {}
    BY <2>1
  <2> HIDE DEF gone
  <2>3. ASSUME NEW r \in Threads, r # t
        PROVE  TrustJustified(r)'
    BY <1>1, <2>1, <2>2, <2>3, RevokedTrust
  <2>4. OnlyRacersGoStale'
    BY <1>1, <2>1, <2>2, RevokedCaches
  <2> QED
    BY <1>2, <1>3, <2>3, <2>4 DEF TrustedIsValid
<1> QED
  BY <1>4, <1>5

LEMMA CacheAccounts ==
  ASSUME Accounted, NEW t \in Threads, Invalidate(t) \/ Store(t), Frame(t)
  PROVE  TokensIssued' /\ TrustedIsValid' /\ OnlyRacersGoStale'
<1> USE DEF Accounted
<1>1. /\ phase[t] \in {"invalidating", "storing", "caching"}
      /\ UNCHANGED <<job, status, sessions, issued, token, overtaken>>
      /\ \A r \in Threads \ {t} : phase'[r] = phase[r]
      /\ job[t] # NoJob
  BY DEF Invalidate, Store, Go, Frame, Others, Typed, TypeOK, PhasesFit, Fits
<1>a. Of(t) \in Processes
  BY <1>1, ProcessOfJob DEF Typed
<1>2. ASSUME NEW r \in Threads, r # t
      PROVE  TrustJustified(r)'
  <2>1. TrustJustified(r)
    BY DEF TrustedIsValid
  <2> QED
    BY <1>1, <1>2, <2>1 DEF TrustJustified, Trusts, UserOf, Valid
<1>3. TrustJustified(t)
  BY DEF TrustedIsValid
<1>4. CASE Invalidate(t)
  <2>1. /\ phase[t] = "invalidating"
        /\ phase'[t] = IF job[t].kind \in {"login", "refresh"} THEN "caching" ELSE "done"
    BY <1>4 DEF Invalidate, Go, Typed, TypeOK
  <2>2. TrustJustified(t)'
    BY <1>1, <1>3, <2>1 DEF TrustJustified, Trusts, UserOf, Valid
  <2>3. TokensIssued'
    <3>1. phase'[t] = "caching" => token[t] \in Tokens
      BY <2>1 DEF TokensIssued, Presents
    <3> QED
      BY <1>1, <2>1, <3>1 DEF TokensIssued, Presents
  <2>4. OnlyRacersGoStale'
    <3>1. \A p \in Processes, k \in Tokens :
            cache'[p][k] = IF p = Of(t) /\ (job[t].kind \in {"login", "ban", "unban"} \/ k = job[t].token)
                           THEN "none" ELSE cache[p][k]
      BY <1>4, <1>a DEF Invalidate, Typed, TypeOK
    <3>2. \A p \in Processes, k \in Tokens, r \in Threads :
            /\ cache'[p][k] = "good" /\ job[r] # NoJob /\ Of(r) = p /\ Revoking(r, k)
            => phase'[r] = phase[r]
      BY <1>1, <3>1 DEF Revoking
    <3> QED
      BY <1>1, <3>1, <3>2, FewerEntries
  <2> QED
    BY <1>2, <2>2, <2>3, <2>4 DEF TrustedIsValid
<1>5. CASE Store(t)
  <2>1. /\ phase[t] \in {"storing", "caching"} /\ phase'[t] \in {"closing", "done"}
        /\ token[t] \in Tokens /\ Trusts(t)
    BY <1>5 DEF Store, Go, Typed, TypeOK, PhasesFit, Fits, TokensIssued, Presents, Trusts
  <2>2. \A p \in Processes, k \in Tokens :
          cache'[p][k] = IF p = Of(t) /\ k = token[t]
                         THEN IF overtaken[t] THEN "late" ELSE "good" ELSE cache[p][k]
    BY <1>5, <1>a, <2>1 DEF Store, Typed, TypeOK
  <2>3. ~overtaken[t] => Valid(token[t])
    BY <1>3, <2>1 DEF TrustJustified
  <2>4. TrustJustified(t)'
    <3>1. CASE phase'[t] = "done"
      BY <3>1 DEF TrustJustified, Trusts
    <3>2. CASE phase'[t] = "closing"
      BY <3>2 DEF TrustJustified, Trusts
    <3> QED
      BY <2>1, <3>1, <3>2
  <2>5. TokensIssued'
    BY <1>1, <2>1 DEF TokensIssued, Presents
  <2>6. OnlyRacersGoStale'
    <3> SUFFICES ASSUME NEW p \in Processes, NEW k \in Tokens, cache'[p][k] = "good"
                 PROVE  \/ Valid(k)'
                        \/ \E r \in Threads : job'[r] # NoJob /\ Of(r)' = p /\ Revoking(r, k)'
      BY DEF OnlyRacersGoStale
    <3>1. Valid(k)' = Valid(k)
      BY <1>1 DEF Valid
    <3>2. \A r \in Threads : job[r] # NoJob /\ Of(r) = p /\ Revoking(r, k) =>
                            job'[r] # NoJob /\ Of(r)' = p /\ Revoking(r, k)'
      BY <1>1, <2>1 DEF Revoking, Of
    <3>3. Valid(k) \/ cache[p][k] = "good"
      BY <2>2, <2>3
    <3> QED
      BY <3>1, <3>2, <3>3 DEF OnlyRacersGoStale
  <2> QED
    BY <1>2, <2>4, <2>5, <2>6 DEF TrustedIsValid
<1> QED
  BY <1>4, <1>5

LEMMA AccountsStep ==
  ASSUME Accounted, [Next]_vars
  PROVE  TokensIssued' /\ TrustedIsValid' /\ OnlyRacersGoStale'
<1> USE DEF Accounted
<1>a. ASSUME NEW t \in Threads
      PROVE  job[t] # NoJob /\ job[t].token # NoToken => issued[job[t].token] # NoUser
  BY DEF TokensIssued, Presents
<1>1. ASSUME NEW t \in Threads, Start(t)
      PROVE  TokensIssued' /\ TrustedIsValid' /\ OnlyRacersGoStale'
  <2>1. PICK j \in JobsOf[t] :
          /\ j.token # NoToken => issued[j.token] # NoUser
          /\ job' = [job EXCEPT ![t] = j]
          /\ Go(t, CASE j.kind = "authenticate" -> "looking"
                     [] j.kind \in {"login", "refresh"} -> "reading"
                     [] j.kind \in {"logout", "ban", "unban"} -> "writing"
                     [] j.kind = "chat" -> "checking"
                     [] j.kind = "embed" -> "queuing")
    BY <1>1 DEF Start
  <2>2. j.kind \in Kinds
    BY ServerAssumption
  <2>3. /\ job'[t] = j /\ phase'[t] \in {"looking", "reading", "writing", "checking", "queuing"}
        /\ phase'[t] = "writing" => j.kind \notin {"login", "refresh"}
        /\ phase[t] = "idle" /\ UNCHANGED accounts
    BY <1>1, <2>1, <2>2 DEF Start, Typed, TypeOK, Go, Kinds
  <2> QED
    BY <1>1, <2>1, <2>3, StartFrame, QuietAccounts DEF Frame
<1>2. ASSUME NEW t \in Threads, Serve(t)
      PROVE  TokensIssued' /\ TrustedIsValid' /\ OnlyRacersGoStale'
  <2>1. CASE Read(t)
    BY <2>1, ReadFrame, ReadAccounts
  <2>2. CASE Write(t)
    BY <2>2, WriteFrame, WriteAccounts
  <2>3. CASE Clean(t) \/ Expel(t)
    BY <2>3, CleanFrame, CleanAccounts
  <2>4. CASE Invalidate(t) \/ Store(t)
    BY <2>4, CacheFrame, CacheAccounts
  <2>5. CASE LookUp(t) \/ Close(t)
    <3>1. /\ UNCHANGED <<accounts, job>> /\ phase[t] # "invalidating"
          /\ phase'[t] \in {"done", "reading"}
      BY <2>5 DEF LookUp, Close, Go, Typed, TypeOK
    <3> QED
      BY <1>a, <2>5, <3>1, CacheFrame, QuietAccounts DEF Frame
  <2> QED
    BY <1>2, <2>1, <2>2, <2>3, <2>4, <2>5 DEF Serve
<1>3. ASSUME NEW t \in Threads, UNCHANGED accounts,
             Call(t) \/ NoConnection(t) \/ TransactionFails(t) \/ SlotTimesOut(t)
      PROVE  TokensIssued' /\ TrustedIsValid' /\ OnlyRacersGoStale'
  <2>1. Frame(t)
    BY <1>3, CallFrame, FailFrame
  <2>2. UNCHANGED job /\ phase[t] # "invalidating"
        /\ phase'[t] \notin {"storing", "caching", "invalidating", "writing"}
    BY <1>3 DEF Call, CheckCircuit, TakeSlot, Answered, CallFails, RecordUsage, UsageIsLost,
                LeaveSlot, CloseCircuit, OpenCircuit, NoConnection, TransactionFails,
                SlotTimesOut, Go, Typed, TypeOK
  <2> QED
    BY <1>a, <1>3, <2>1, <2>2, QuietAccounts DEF Frame
<1>4. ASSUME UNCHANGED <<job, phase, accounts>>
      PROVE  TokensIssued' /\ TrustedIsValid' /\ OnlyRacersGoStale'
  <2>1. TokensIssued'
    BY <1>4 DEF TokensIssued, Presents, accounts
  <2>2. TrustedIsValid'
    BY <1>4 DEF TrustedIsValid, TrustJustified, Trusts, UserOf, Valid, accounts
  <2>3. OnlyRacersGoStale'
    BY <1>4 DEF OnlyRacersGoStale, Revoking, Of, Valid, accounts
  <2> QED
    BY <2>1, <2>2, <2>3
<1>5. ASSUME UNCHANGED <<job, phase>>, NEW p \in Processes, NEW k \in Tokens, Expire(p, k)
      PROVE  TokensIssued' /\ TrustedIsValid' /\ OnlyRacersGoStale'
  <2>1. UNCHANGED <<status, sessions, issued, token, overtaken>>
    BY <1>5 DEF Expire
  <2>2. TokensIssued'
    BY <1>5, <2>1 DEF TokensIssued, Presents
  <2>3. TrustedIsValid'
    BY <1>5, <2>1 DEF TrustedIsValid, TrustJustified, Trusts, UserOf, Valid
  <2>4. \A q \in Processes, n \in Tokens : cache'[q][n] = "good" => cache[q][n] = "good"
    BY <1>5 DEF Expire, Typed, TypeOK
  <2>5. OnlyRacersGoStale'
    BY <1>5, <2>1, <2>4, FewerEntries
  <2> QED
    BY <2>2, <2>3, <2>5
<1> QED
  BY <1>1, <1>2, <1>3, <1>4, <1>5, StepOfOne DEF NoConnection, TransactionFails

-----------------------------------------------------------------------------
(* Nobody waits in vain.                                                   *)

LEMMA ConnectStep ==
  ASSUME Typed, TransactionsConnect, [Next]_vars
  PROVE  TransactionsConnect'
<1> USE DEF InTransaction
<1>1. ASSUME NEW t \in Threads, Frame(t), phase'[t] \in InTransaction => conn'[t] # "none"
      PROVE  TransactionsConnect'
  BY <1>1 DEF TransactionsConnect, Frame, Others, Nudged
<1>2. ASSUME UNCHANGED <<conn, phase>>
      PROVE  TransactionsConnect'
  BY <1>2 DEF TransactionsConnect
<1>3. ASSUME NEW t \in Threads, Start(t)
      PROVE  TransactionsConnect'
  <2>1. phase'[t] \in InTransaction => conn'[t] # "none"
    <3>1. PICK j \in JobsOf[t] :
            /\ Go(t, CASE j.kind = "authenticate" -> "looking"
                       [] j.kind \in {"login", "refresh"} -> "reading"
                       [] j.kind \in {"logout", "ban", "unban"} -> "writing"
                       [] j.kind = "chat" -> "checking"
                       [] j.kind = "embed" -> "queuing")
            /\ conn' = [conn EXCEPT ![t] =
                 IF j.kind \in {"authenticate", "chat", "embed"} THEN "none" ELSE "asked"]
      BY <1>3 DEF Start
    <3>2. j.kind \in Kinds
      BY ServerAssumption
    <3>3. phase \in [Threads -> Phases] /\ conn \in [Threads -> ConnStates]
      BY DEF Typed, TypeOK
    <3> QED
      BY <3>1, <3>2, <3>3 DEF Go, Kinds
  <2> QED
    BY <1>1, <1>3, <2>1, StartFrame
<1>4. ASSUME NEW t \in Threads, Serve(t)
      PROVE  TransactionsConnect'
  <2>0. phase \in [Threads -> Phases] /\ conn \in [Threads -> ConnStates]
    BY DEF Typed, TypeOK
  <2>1. CASE LookUp(t)
    <3>1. phase'[t] \in InTransaction => conn'[t] # "none"
      BY <2>0, <2>1 DEF LookUp, Go
    <3> QED
      BY <1>1, <2>1, <3>1, CacheFrame
  <2>2. CASE Read(t)
    <3>1. \/ phase'[t] = "failed"
          \/ conn[t] = "held" /\ UNCHANGED pool
      BY <2>0, <2>2 DEF Read, ReadLogin, ReadRefresh, ReadSession, Go
    <3>2. phase'[t] \in InTransaction => conn'[t] # "none"
      BY <3>1 DEF pool
    <3> QED
      BY <1>1, <2>2, <3>2, ReadFrame
  <2>3. CASE Write(t)
    <3>1. phase'[t] \notin InTransaction
      BY <2>0, <2>3 DEF Write, Go
    <3> QED
      BY <1>1, <2>3, <3>1, WriteFrame
  <2>4. CASE Clean(t) \/ Expel(t)
    <3>1. phase'[t] \in InTransaction => conn'[t] # "none"
      BY <2>0, <2>4 DEF Clean, Expel, Go, pool, Typed, PhasesFit, Fits
    <3> QED
      BY <1>1, <2>4, <3>1, CleanFrame
  <2>5. CASE Invalidate(t) \/ Store(t) \/ Close(t)
    <3>1. phase'[t] \in InTransaction => conn'[t] # "none"
      BY <2>0, <2>5 DEF Invalidate, Store, Close, Go, pool, Typed, PhasesFit, Fits
    <3> QED
      BY <1>1, <2>5, <3>1, CacheFrame
  <2> QED
    BY <1>4, <2>1, <2>2, <2>3, <2>4, <2>5 DEF Serve
<1>5. ASSUME NEW t \in Threads, Call(t)
      PROVE  TransactionsConnect'
  <2>1. phase'[t] \in InTransaction => conn'[t] # "none"
    <3>0. phase \in [Threads -> Phases] /\ conn \in [Threads -> ConnStates]
      BY DEF Typed, TypeOK
    <3>1. CASE Answered(t)
      BY <3>0, <3>1 DEF Answered, Go
    <3>2. CASE LeaveSlot(t)
      <4>1. \E step \in {"restoring", "tripping", "done", "failed"} : Go(t, step)
        BY <3>2 DEF LeaveSlot
      <4> QED
        BY <3>0, <4>1 DEF Go
    <3>3. CASE CallFails(t)
      BY <3>0, <3>3 DEF CallFails, Go
    <3>4. CASE \/ CheckCircuit(t) \/ TakeSlot(t) \/ RecordUsage(t) \/ UsageIsLost(t)
               \/ CloseCircuit(t) \/ OpenCircuit(t)
      BY <3>0, <3>4 DEF CheckCircuit, TakeSlot, RecordUsage, UsageIsLost, CloseCircuit,
                        OpenCircuit, Go
    <3> QED
      BY <1>5, <3>1, <3>2, <3>3, <3>4 DEF Call
  <2> QED
    BY <1>1, <1>5, <2>1, CallFrame
<1>6. ASSUME NEW t \in Threads, TransactionFails(t) \/ NoConnection(t) \/ SlotTimesOut(t)
      PROVE  TransactionsConnect'
  <2>1. phase'[t] \notin InTransaction
    BY <1>6 DEF TransactionFails, NoConnection, SlotTimesOut, Go, Typed, TypeOK
  <2> QED
    BY <1>1, <1>6, <2>1, FailFrame
<1>7. ASSUME NEW t \in Threads, Acquire(t)
      PROVE  TransactionsConnect'
  <2>1. conn'[t] # "none"
    <3>1. CASE OpenFails(t)
      <4>1. conn[t] = "opening" /\ job[t] # NoJob /\ UNCHANGED job
        BY <1>7, <3>1 DEF OpenFails, Acquire, Typed, PhasesFit, Fits
      <4>2. Of(t) \in Processes
        BY <4>1, ProcessOfJob DEF Typed
      <4> QED
        BY <3>1, <4>1, <4>2, NotifyEffect DEF OpenFails, Typed
    <3>2. CASE ~OpenFails(t)
      BY <1>7, <3>2 DEF Acquire, Look, Refuse, TakeIdle, Grow, Sleep, Opened, WaitEnds, TimeOut,
                        Typed, TypeOK
    <3> QED
      BY <3>1, <3>2
  <2>2. UNCHANGED phase /\ Nudged(t)
    BY <1>7, AcquireKept DEF Acquire, Typed
  <2> QED
    BY <2>1, <2>2 DEF TransactionsConnect, Nudged
<1> QED
  BY <1>2, <1>3, <1>4, <1>5, <1>6, <1>7
  DEF Next, Work, Expire, CooldownEnds, vars, pool

(* If all requests under way in a process waited, nobody there would hold a *)
(* connection, so that no sleeper could have been forgotten, and then nobody *)
(* would hold a slot.                                                        *)
LEMMA SomeoneGoesOn == IInv /\ TransactionsConnect => NoOneWaitsInVain
<1> SUFFICES ASSUME IInv, TransactionsConnect, NEW t \in Threads, UnderWay(t),
                    \A r \in Threads : UnderWay(r) /\ Of(r) = Of(t) => ~GoesOn(r)
             PROVE  FALSE
  BY DEF NoOneWaitsInVain
<1> DEFINE p == Of(t)
<1>1. p \in Processes
  BY ProcessOfJob DEF IInv, PhasesFit, Fits, UnderWay
<1>2. /\ idle[p] \in Nat /\ total[p] \in Nat /\ free[p] \in Nat
      /\ PoolSize \in Nat \ {0} /\ Slots \in Nat \ {0}
  BY <1>1, ServerAssumption DEF IInv, TypeOK
<1>3. Borrowers(p) = {}
  <2> SUFFICES ASSUME NEW r \in Borrowers(p)
               PROVE  FALSE
    OBVIOUS
  <2>1. r \in Threads /\ Of(r) = p /\ conn[r] \in {"opening", "held"}
    BY DEF Borrowers
  <2>2. phase[r] \in InTransaction
    BY <2>1 DEF IInv, PhasesFit, Fits, InTransaction
  <2> QED
    BY <2>1, <2>2 DEF UnderWay, GoesOn, InTransaction
<1>4. total[p] = idle[p]
  <2>1. borrowed[p] = 0
    BY <1>1, <1>3, FS_EmptySet DEF IInv, PoolAccounted
  <2> QED
    BY <1>1, <1>2, <2>1 DEF IInv, PoolAccounted
<1>5. Roused(p) = {}
  <2> SUFFICES ASSUME NEW r \in Roused(p)
               PROVE  FALSE
    OBVIOUS
  <2>1. r \in Threads /\ Of(r) = p /\ conn[r] \in {"woken", "late"}
    BY DEF Roused
  <2>2. phase[r] \in InTransaction
    BY <2>1 DEF IInv, PhasesFit, Fits, InTransaction
  <2>3. ~Exhausted(r)
    BY <1>2, <1>4, <2>1 DEF Exhausted
  <2> QED
    BY <2>1, <2>2, <2>3 DEF UnderWay, GoesOn, InTransaction
<1>6. Sleepers(p) = {}
  <2>1. Cardinality(Roused(p)) = 0
    BY <1>5, FS_EmptySet
  <2> QED
    BY <1>1, <1>2, <1>4, <2>1 DEF IInv, NoWaiterForgotten
<1>7. \A r \in Threads : Of(r) = p /\ phase[r] \in InTransaction => GoesOn(r)
  <2> SUFFICES ASSUME NEW r \in Threads, Of(r) = p, phase[r] \in InTransaction
               PROVE  GoesOn(r)
    OBVIOUS
  <2>1. conn[r] # "none"
    BY DEF TransactionsConnect
  <2>2. conn[r] # "asleep" /\ conn[r] # "late"
    BY <1>5, <1>6 DEF Sleepers, Roused
  <2> QED
    BY <2>1, <2>2 DEF GoesOn, InTransaction
<1>8. Holders(p) = {}
  <2> SUFFICES ASSUME NEW r \in Holders(p)
               PROVE  FALSE
    OBVIOUS
  <2>1. r \in Threads /\ Of(r) = p /\ phase[r] \in Calling
    BY DEF Holders
  <2>2. GoesOn(r)
    BY <1>7, <2>1 DEF GoesOn, Calling, InTransaction
  <2> QED
    BY <2>1, <2>2 DEF UnderWay, Calling
<1>9. free[p] > 0
  <2>1. Cardinality(Holders(p)) = 0
    BY <1>8, FS_EmptySet
  <2> QED
    BY <1>1, <1>2, <2>1 DEF IInv, SlotsKept
<1> QED
  BY <1>7, <1>9 DEF GoesOn

-----------------------------------------------------------------------------
LEMMA Starts == Init => IInv
<1> SUFFICES ASSUME Init
             PROVE  IInv
  OBVIOUS
<1>0. \A t \in Threads : conn[t] = "none" /\ phase[t] = "idle" /\ job[t] = NoJob
  BY DEF Init, PoolInit
<1> USE DEF Init, PoolInit, AccountsInit, ModelsInit
<1>1. TypeOK
  BY ServerAssumption DEF TypeOK, ConnStates, Phases, Entries, Results
<1>2. PhasesFit
  BY DEF PhasesFit, Fits
<1>3. PoolAccounted /\ NoWaiterForgotten
  <2>1. ASSUME NEW p \in Processes
        PROVE  Borrowers(p) = {} /\ Sleepers(p) = {}
    BY <1>0 DEF Borrowers, Sleepers
  <2>2. \A p \in Processes : Cardinality(Borrowers(p)) = 0
    BY <2>1, FS_EmptySet
  <2>3. PoolSize \in Nat \ {0}
    BY ServerAssumption
  <2>4. PoolAccounted
    BY <2>2, <2>3 DEF PoolAccounted
  <2> QED
    BY <2>1, <2>4 DEF NoWaiterForgotten
<1>4. SlotsKept
  <2>1. ASSUME NEW p \in Processes
        PROVE  Holders(p) = {}
    BY <1>0 DEF Holders, Calling
  <2>2. \A p \in Processes : Cardinality(Holders(p)) = 0
    BY <2>1, FS_EmptySet
  <2> QED
    BY <2>2, ServerAssumption DEF SlotsKept
<1>5. TokensIssued
  BY DEF TokensIssued, Presents
<1>6. TrustedIsValid /\ OnlyRacersGoStale
  BY DEF TrustedIsValid, TrustJustified, Trusts, OnlyRacersGoStale
<1>7. AnswersInHand /\ CircuitHasFallback
  BY DEF AnswersInHand, InHand, CircuitHasFallback
<1> QED
  BY <1>1, <1>2, <1>3, <1>4, <1>5, <1>6, <1>7 DEF IInv

LEMMA Steps == IInv /\ [Next]_vars => IInv'
<1> SUFFICES ASSUME IInv, [Next]_vars
             PROVE  IInv'
  OBVIOUS
<1>1. Typed
  BY DEF IInv, Typed, PoolInv, PoolType, TypeOK
<1>2. Typed'
  BY <1>1, TypedStep DEF IInv
<1>3. SlotsKept'
  BY <1>1, SlotsStep DEF IInv
<1>4. AnswersInHand' /\ CircuitHasFallback'
  BY <1>1, AnswersStep DEF IInv
<1>5. TokensIssued' /\ TrustedIsValid' /\ OnlyRacersGoStale'
  BY <1>1, AccountsStep DEF IInv, Accounted
<1> QED
  BY <1>2, <1>3, <1>4, <1>5 DEF IInv, Typed, PoolInv

(* The servers' invariant: connections and slots are accounted for in every   *)
(* process, no notification of the pool is lost, what a request trusts and    *)
(* what a cache holds is valid or explained by a race, and answers stay with  *)
(* the thread that got them.                                                  *)
THEOREM ServersInvariant == Spec => []IInv
<1>1. Init => IInv
  BY Starts
<1>2. IInv /\ [Next]_vars => IInv'
  BY Steps
<1> QED
  BY <1>1, <1>2, PTL DEF Spec

(* No wake-up of the connection pool is lost: while a thread of a process     *)
(* sleeps in acquire(), no more connections are to be had there than threads  *)
(* have been roused to take them, though opening fails, connections break and *)
(* deadlines race with notifications.                                         *)
THEOREM NoWakeUpIsLost == Spec => [](PoolAccounted /\ NoWaiterForgotten)
<1>1. IInv => PoolAccounted /\ NoWaiterForgotten
  BY DEF IInv
<1> QED
  BY <1>1, ServersInvariant, PTL

(* A cached token is valid, unless a thread of that process is about to       *)
(* invalidate it, or the entry was stored by a thread that was overtaken or   *)
(* revoked by another process, which only its lifetime ends.                  *)
THEOREM CacheExplained == Spec => []OnlyRacersGoStale
<1>1. IInv => OnlyRacersGoStale
  BY DEF IInv
<1> QED
  BY <1>1, ServersInvariant, PTL

(* An answer of a model service is neither lost nor asked for twice, whatever *)
(* became of the record of its usage in the metadata database.                *)
THEOREM AnswersAreNotLost == Spec => []AnswersAreKept
<1>1. IInv => AnswersAreKept
  BY DEF IInv, AnswersInHand, InHand, AnswersAreKept
<1> QED
  BY <1>1, ServersInvariant, PTL

(* Requests never wait in a circle: whenever one is under way, some request   *)
(* of the same process can go on, and needs no timeout to do so, although     *)
(* calls of a model wait for a connection while they hold a slot, connections *)
(* break or cannot be opened, and deadlines race with notifications.          *)
THEOREM NoDeadlock == Spec => []NoOneWaitsInVain
<1>1. Init => TransactionsConnect
  BY DEF Init, TransactionsConnect, InTransaction
<1>2. IInv /\ TransactionsConnect /\ [Next]_vars => TransactionsConnect'
  <2> SUFFICES ASSUME IInv, TransactionsConnect, [Next]_vars
               PROVE  TransactionsConnect'
    OBVIOUS
  <2>1. Typed
    BY DEF IInv, Typed, PoolInv, PoolType, TypeOK
  <2> QED
    BY <2>1, ConnectStep
<1> QED
  BY <1>1, <1>2, ServersInvariant, SomeoneGoesOn, PTL DEF Spec

=============================================================================

---------------------------- MODULE MetadataPool ----------------------------
(***************************************************************************)
(* The threads of the API servers and, per process, the pool of PostgreSQL *)
(* connections to the metadata database (PostgresConnectionPool).  What    *)
(* the threads do with a connection is in the modules that extend this     *)
(* one.  A connection is opened outside the pool's lock, and a thread      *)
(* waits for one in Condition.wait, where a timeout and a notification may *)
(* race.                                                                   *)
(***************************************************************************)
EXTENDS Naturals, FiniteSets

CONSTANTS
  Threads,    \* bound: request threads, each of which serves at most one job
  Processes,  \* API servers
  Jobs,       \* what there is to do, and where, see ServerAssumption of ApiServers
  NoJob,      \* the job of a thread that has none yet
  PoolSize    \* RAG_METADATA_POOL_SIZE

VARIABLES
  idle,      \* process -> connections in _idle
  total,     \* process -> _total
  borrowed,  \* process -> _borrowed
  conn,      \* thread -> where it stands in acquire(), or holding a connection
  job,       \* thread -> its job
  phase      \* thread -> the next step of its job

pool == <<idle, total, borrowed, conn>>

ConnStates == {"none", "asked", "asleep", "woken", "late", "opening", "held", "refused"}

Of(t) == job[t].process
Borrowers(p) == {t \in Threads : conn[t] \in {"opening", "held"} /\ Of(t) = p}
Sleepers(p) == {t \in Threads : conn[t] = "asleep" /\ Of(t) = p}
Roused(p) == {t \in Threads : conn[t] \in {"woken", "late"} /\ Of(t) = p}

Go(t, step) == phase' = [phase EXCEPT ![t] = step]
Less(n) == IF n = 0 THEN 0 ELSE n - 1   \* max(0, n - 1)

(* t's state becomes s, and Condition.notify() wakes one sleeper, if any. *)
Notify(t, s) ==
  conn' \in
    IF Sleepers(Of(t)) = {} THEN {[conn EXCEPT ![t] = s]}
    ELSE {[conn EXCEPT ![t] = s, ![w] = "woken"] : w \in Sleepers(Of(t))}

PoolInit ==
  /\ idle = [p \in Processes |-> 0]
  /\ total = [p \in Processes |-> 0]
  /\ borrowed = [p \in Processes |-> 0]
  /\ conn = [t \in Threads |-> "none"]

-----------------------------------------------------------------------------
(* acquire(): one turn of its loop, under the lock. *)
TakeIdle(t) ==
  /\ conn[t] \in {"asked", "woken", "late"}
  /\ idle[Of(t)] > 0
  /\ idle' = [idle EXCEPT ![Of(t)] = @ - 1]
  /\ borrowed' = [borrowed EXCEPT ![Of(t)] = @ + 1]
  /\ conn' = [conn EXCEPT ![t] = "held"]
  /\ UNCHANGED total

Grow(t) ==
  /\ conn[t] \in {"asked", "woken", "late"}
  /\ idle[Of(t)] = 0 /\ total[Of(t)] < PoolSize
  /\ total' = [total EXCEPT ![Of(t)] = @ + 1]
  /\ borrowed' = [borrowed EXCEPT ![Of(t)] = @ + 1]
  /\ conn' = [conn EXCEPT ![t] = "opening"]
  /\ UNCHANGED idle

Exhausted(t) == idle[Of(t)] = 0 /\ total[Of(t)] >= PoolSize

Sleep(t) ==
  /\ conn[t] \in {"asked", "woken"} /\ Exhausted(t)
  /\ conn' = [conn EXCEPT ![t] = "asleep"]
  /\ UNCHANGED <<idle, total, borrowed>>

(* The deadline: of a wait that ends without a notification, or of a thread *)
(* that finds nothing when it was notified at the last moment.              *)
WaitEnds(t) ==
  /\ conn[t] = "asleep"
  /\ conn' = [conn EXCEPT ![t] = "late"]
  /\ UNCHANGED <<idle, total, borrowed>>

TimeOut(t) ==
  /\ conn[t] \in {"asked", "woken", "late"} /\ Exhausted(t)
  /\ conn' = [conn EXCEPT ![t] = "refused"]
  /\ UNCHANGED <<idle, total, borrowed>>

(* open_postgres_raw_connection, without the lock. *)
Opened(t) ==
  /\ conn[t] = "opening"
  /\ conn' = [conn EXCEPT ![t] = "held"]
  /\ UNCHANGED <<idle, total, borrowed>>

\* Mutant: the thread that could not open a connection wakes nobody.
OpenFailsSilently(t) ==
  /\ conn[t] = "opening"
  /\ borrowed' = [borrowed EXCEPT ![Of(t)] = Less(@)]
  /\ total' = [total EXCEPT ![Of(t)] = Less(@)]
  /\ conn' = [conn EXCEPT ![t] = "refused"]
  /\ UNCHANGED idle

OpenFails(t) ==
  /\ conn[t] = "opening"
  /\ borrowed' = [borrowed EXCEPT ![Of(t)] = Less(@)]
  /\ total' = [total EXCEPT ![Of(t)] = Less(@)]
  /\ Notify(t, "refused")
  /\ UNCHANGED idle

\* Mutant: a broken connection is closed without waking a waiter.
ReleaseQuietly(t, reusable) ==
  /\ borrowed' = [borrowed EXCEPT ![Of(t)] = Less(@)]
  /\ idle' = [idle EXCEPT ![Of(t)] = IF reusable THEN @ + 1 ELSE @]
  /\ total' = [total EXCEPT ![Of(t)] = IF reusable THEN @ ELSE Less(@)]
  /\ IF reusable THEN Notify(t, "none") ELSE conn' = [conn EXCEPT ![t] = "none"]

(* release(): part of the step that ends a transaction. *)
Release(t, reusable) ==
  /\ borrowed' = [borrowed EXCEPT ![Of(t)] = Less(@)]
  /\ idle' = [idle EXCEPT ![Of(t)] = IF reusable THEN @ + 1 ELSE @]
  /\ total' = [total EXCEPT ![Of(t)] = IF reusable THEN @ ELSE Less(@)]
  /\ Notify(t, "none")

(* The end of connect_postgres_metadata_db. The server may have closed the *)
(* connection even when the transaction was committed.                     *)
EndTransaction(t) ==
  /\ conn[t] = "held"
  /\ \E reusable \in BOOLEAN : Release(t, reusable)

Look(t) == TakeIdle(t) \/ Grow(t) \/ Sleep(t) \/ Opened(t)
Refuse(t) == WaitEnds(t) \/ TimeOut(t) \/ OpenFails(t)
Acquire(t) == (Look(t) \/ Refuse(t)) /\ UNCHANGED <<job, phase>>

-----------------------------------------------------------------------------
PoolAccounted ==
  \A p \in Processes :
    /\ total[p] = idle[p] + borrowed[p] /\ total[p] <= PoolSize
    /\ borrowed[p] = Cardinality(Borrowers(p))

(* While a thread sleeps, no more connections are to be had than threads *)
(* have been roused to take them: no wake-up is lost.                    *)
NoWaiterForgotten ==
  \A p \in Processes :
    Sleepers(p) # {} => idle[p] + PoolSize <= total[p] + Cardinality(Roused(p))
=============================================================================

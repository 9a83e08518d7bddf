----------------------------- MODULE RateLimits -----------------------------
(***************************************************************************)
(* The shared rate limit of queries: a counter per scope (all requests, a  *)
(* tenant, a user) and window of time, in the metadata database.  A query  *)
(* is counted in all its scopes in one transaction, which also removes     *)
(* windows that are over; the counters of a refused query are rolled back. *)
(* A call reads the clock before its transaction, on its own machine.      *)
(***************************************************************************)
EXTENDS StoreCalls

CONSTANTS
  Scopes,    \* bound: the scopes of one behaviour
  Limit,     \* scope -> requests per window, 0 if it is not limited
  MaxWindow  \* bound on the windows of one behaviour

VARIABLES
  now,       \* the window of the latest clock
  requests,  \* scope -> window -> request_count, 0 if there is no row
  admitted   \* history: scope -> window -> queries admitted

rates == <<now, requests, admitted>>

Windows == 0 .. MaxWindow
RateKinds == {"query"}

RatesInit ==
  /\ now = 0
  /\ requests = [s \in Scopes |-> [w \in Windows |-> 0]]
  /\ admitted = [s \in Scopes |-> [w \in Windows |-> 0]]

LimitsOf(c) == {s \in job[c].scopes : Limit[s] > 0}
HasRoom(c, w) == \A s \in LimitsOf(c) : requests[s][w] < Limit[s]
Counted(counts, c, w) ==
  [s \in Scopes |-> IF s \in LimitsOf(c) THEN [counts[s] EXCEPT ![w] = @ + 1] ELSE counts[s]]

\* Mutant: the window before the current one is removed too.
PurgedUpTo(w) ==
  [s \in Scopes |-> [v \in Windows |-> IF v < w THEN 0 ELSE requests[s][v]]]

(* DELETE ... WHERE window_started_at < this window's start - one window. *)
Purged(w) ==
  [s \in Scopes |-> [v \in Windows |-> IF v + 1 < w THEN 0 ELSE requests[s][v]]]

(* Windows a call may take for the current one when it is counted. Bound:   *)
(* clocks differ, and a transaction takes, less than a window.              *)
Readings == {w \in Windows : w = now \/ w + 1 = now}

(* acquire_query_rate_limit *)
Count(c) ==
  /\ step[c] = "counting"
  /\ \E w \in Readings :
       IF HasRoom(c, w)
       THEN /\ requests' = Counted(Purged(w), c, w)
            /\ admitted' = Counted(admitted, c, w)
            /\ Go(c, "done")
       ELSE /\ Go(c, "failed")
            /\ UNCHANGED <<requests, admitted>>
  /\ UNCHANGED <<now, job, target, todo, overtaken>>

(* Time matters only to queries. *)
Tick ==
  /\ now < MaxWindow
  /\ \E c \in Calls : step[c] = "counting"
  /\ now' = now + 1
  /\ UNCHANGED <<requests, admitted, calls>>

-----------------------------------------------------------------------------
(* No scope admits more queries in a window than its limit, and as long as  *)
(* the window may be asked for its counter is the number of queries that    *)
(* were admitted: none that was refused is in it, and no process that is    *)
(* ahead in time has removed it.                                            *)
WindowsCountAdmissions ==
  \A s \in Scopes, w \in Windows :
    /\ admitted[s][w] <= Limit[s]
    /\ w + 1 >= now => requests[s][w] = admitted[s][w]
=============================================================================

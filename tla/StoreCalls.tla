----------------------------- MODULE StoreCalls -----------------------------
(***************************************************************************)
(* Requests that work on one row of the metadata database, and perhaps on  *)
(* a file it replaces, in several transactions.  Each request is a call    *)
(* with a job; the modules that extend this one say what the calls do with *)
(* conversations, artifacts and the counters of the rate limit.            *)
(***************************************************************************)
EXTENDS Naturals, FiniteSets

CONSTANTS
  Calls,  \* bound: the requests of one behaviour
  Jobs,   \* what they may ask for, see StoreAssumption of ApiStores
  NoJob

VARIABLES
  job,       \* call -> its job
  step,      \* call -> where it stands
  target,    \* call -> the item it works on; of a listing, the one at hand
  todo,      \* call -> the files a listing has yet to migrate
  overtaken  \* history: call -> items that others changed since it began

calls == <<job, step, target, todo, overtaken>>

Go(c, s) == step' = [step EXCEPT ![c] = s]
Kind(c) == job[c].kind
Under(c, kinds) == job[c] # NoJob /\ Kind(c) \in kinds

(* c changes item i: every other call under way has been overtaken. *)
Overtake(c, i) ==
  overtaken' = [r \in Calls |-> IF r = c THEN overtaken[r] ELSE overtaken[r] \cup {i}]
=============================================================================

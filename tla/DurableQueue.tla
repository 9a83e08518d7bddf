---------------------------- MODULE DurableQueue ----------------------------
(***************************************************************************)
(* What the ingestion queue promises, whatever the number of runners, the  *)
(* crashes and the leases that run out: an item is held by one holder at a *)
(* time, only a held item becomes a dead letter, and an item is finished   *)
(* only by its holder and only when the work for it is durable.            *)
(***************************************************************************)
CONSTANTS Items, Holders, Nobody

VARIABLES
  item,      \* where each item is
  holder,    \* who holds it
  durable    \* the items whose work is complete and will survive

qvars == <<item, holder, durable>>

QInit ==
  /\ item = [i \in Items |-> "none"]
  /\ holder = [i \in Items |-> Nobody]
  /\ durable \in SUBSET Items

Move(i, to, h) ==
  /\ item' = [item EXCEPT ![i] = to]
  /\ holder' = [holder EXCEPT ![i] = h]
  /\ UNCHANGED durable

Add(i) == item[i] = "none" /\ Move(i, "pending", Nobody)

\* A holder takes one item at a time, and nobody takes what is held.
Take(i, h) ==
  /\ item[i] = "pending"
  /\ \A j \in Items : holder[j] # h
  /\ Move(i, "held", h)

\* Several holders may be found dead at once.
GiveBack(S) ==
  /\ S # {}
  /\ \A i \in S : item[i] = "held"
  /\ item' = [i \in Items |-> IF i \in S THEN "pending" ELSE item[i]]
  /\ holder' = [i \in Items |-> IF i \in S THEN Nobody ELSE holder[i]]
  /\ UNCHANGED durable

Bury(i) == item[i] = "held" /\ Move(i, "dead", Nobody)

Revive(i) == item[i] = "dead" /\ Move(i, "pending", Nobody)

Finish(i) ==
  /\ item[i] = "held"
  /\ i \in durable
  /\ Move(i, "finished", Nobody)

Remove(i) == item[i] \in {"pending", "held", "dead"} /\ Move(i, "removed", Nobody)

\* Work is added to, never withdrawn, and may complete after the item is gone.
Deliver(i) ==
  /\ item[i] # "none"
  /\ durable' = durable \cup {i}
  /\ UNCHANGED <<item, holder>>

QNext ==
  \/ \E i \in Items :
       \/ Add(i) \/ Bury(i) \/ Revive(i) \/ Finish(i) \/ Remove(i) \/ Deliver(i)
       \/ \E h \in Holders : Take(i, h)
  \/ \E S \in SUBSET Items : GiveBack(S)

QSpec == QInit /\ [][QNext]_qvars
=============================================================================

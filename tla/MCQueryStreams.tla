--------------------------- MODULE MCQueryStreams ---------------------------
(* Values of the constants of QueryStreams for TLC. *)
EXTENDS QueryStreams, TLC

CONSTANTS q1, q2, q3, p1, p2, g, t1, t2

\* q1 and q3 are served by p1; q1 and q2 belong to tenant t1.
Served == [c \in Calls |-> IF c = q2 THEN p2 ELSE p1]
Nested == [c \in Calls |-> <<g, IF c = q3 THEN t2 ELSE t1>>]
OnlyGlobal == [c \in Calls |-> <<g>>]
Alone == [c \in Calls |-> p1]

\* All calls compete for one place in their tenant, two of the whole.
TwoAndOne == [s \in Scopes |-> IF s = g THEN 2 ELSE 1]
Twos == [s \in Scopes |-> 2]
Ones == [s \in Scopes |-> 1]
=============================================================================

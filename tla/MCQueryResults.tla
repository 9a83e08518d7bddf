--------------------------- MODULE MCQueryResults ---------------------------
(* Values of the constants of QueryResults for TLC. *)
EXTENDS QueryResults, TLC

CONSTANTS c1, c2, c4, f1, f2

\* The last call reuses the request id for another question.
LastDiffers == [c \in Callers |-> IF c = c4 THEN f2 ELSE f1]
=============================================================================

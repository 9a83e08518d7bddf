--------------------------- MODULE MCUploadPipeline ---------------------------
(* Values of the constants of UploadPipeline for TLC. *)
EXTENDS UploadPipeline, TLC

CONSTANTS t1, t2, q1, l1, l2, r1, n1

\* One tenant uploads everything, with one call after the other.
OneTenant == [t \in Tasks |-> n1]
OneCaller == [o \in Requests |-> n1]
=============================================================================

------------------------- MODULE MCUploadAdmission -------------------------
(* Values of the constants of UploadAdmission for TLC. *)
EXTENDS UploadAdmission, TLC

CONSTANTS q1, q2, q3, q4, t1, t2, t3, n1, n2

\* Each tenant has two requests; the first has two of the tasks.
TwoTenants == [x \in Requests \cup Tasks |-> IF x \in {q3, q4, t3} THEN n2 ELSE n1]
OneTenant == [x \in Requests \cup Tasks |-> n1]
=============================================================================

-------------------------- MODULE MCIngestionJobs --------------------------
(* Values of the constants of IngestionJobs for TLC. *)
EXTENDS IngestionJobs, TLC

CONSTANTS t1, l1, l2, r1, r2, n1

OneTenant == [t \in Tasks |-> n1]

LeaseSymmetry == Permutations(Leases) \cup Permutations(Runners)
=============================================================================

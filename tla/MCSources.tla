------------------------------ MODULE MCSources ------------------------------
(* Values of the constants of Sources for TLC. *)
EXTENDS Sources, TLC

CONSTANTS d1, d2, api, worker, tool, o1, o2, o3

Job(kind, doc, version, process) ==
  [kind |-> kind, doc |-> doc, version |-> version, process |-> process]

\* An upload of d1, ingested by a thread of the API, one of d2 as version 2 in
\* a worker process; deletions of all of d1 and of its version 1.
AllJobs ==
  {Job("ingest", d1, 0, api), Job("ingest", d2, 2, worker),
   Job("delete", d1, 0, api), Job("delete", d1, 1, api),
   Job("list", d1, 0, api), Job("search", d1, 0, api),
   Job("cli", d1, 0, tool), Job("rebuild", d1, 0, tool)}

UploadAndSearch == {j \in AllJobs : j.kind \in {"ingest", "search"}}

\* Bound: only d1 may be there before the operations.
FewInit == Init /\ vectors \subseteq {d1} \X {1}
FewSpec == FewInit /\ [][Next]_vars

OpSymmetry == Permutations(Ops)
=============================================================================

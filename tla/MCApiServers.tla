---------------------------- MODULE MCApiServers ----------------------------
(* Values of the constants of ApiServers for TLC. *)
EXTENDS ApiServers, TLC

CONSTANTS north, south, ann, k1, k2, t1, t2, t3

Job(kind, process, presented) ==
  [kind |-> kind, process |-> process, token |-> presented,
   user |-> IF kind = "login" THEN ann ELSE NoUser,
   users |-> IF kind \in {"ban", "unban"} THEN {ann} ELSE {}]

AllJobs ==
  {Job("login", north, NoToken), Job("refresh", north, k1), Job("logout", north, k1),
   Job("ban", north, NoToken), Job("unban", north, NoToken),
   Job("authenticate", north, k1), Job("authenticate", south, k1),
   Job("chat", north, NoToken), Job("embed", north, NoToken)}

\* Bound: a user, an administrator or a second user, and another client.
ThreeThreads ==
  [t \in Threads |->
     CASE t = t1 -> {j \in AllJobs : j.kind \in {"login", "refresh", "chat"}}
       [] t = t2 -> {j \in AllJobs : j.kind \in {"logout", "ban", "unban", "embed"}}
       [] t = t3 -> {j \in AllJobs : j.kind = "authenticate"}]

\* Bound: only k1 may be the token of a session before the requests.
FewInit == Init /\ k2 \notin sessions
FewSpec == FewInit /\ [][Next]_vars /\ Fairness
=============================================================================

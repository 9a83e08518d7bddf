---------------------------- MODULE SessionTokens ----------------------------
(***************************************************************************)
(* Users, their session tokens in the metadata database, and the cache of  *)
(* authenticated tokens that each process keeps for a moment.  What fills  *)
(* the cache was read in a transaction that a logout, a refresh or a ban   *)
(* may overtake: on PostgreSQL a statement sees what others committed, and *)
(* reading a row locks nobody out.                                         *)
(***************************************************************************)
EXTENDS MetadataPool

CONSTANTS
  Users,   \* ordinary users; administrators cannot be banned
  Tokens,  \* bound: the session tokens of one behaviour
  NoToken, NoUser

VARIABLES
  status,    \* user -> users.status
  sessions,  \* tokens with a row in sessions
  issued,    \* token -> user it was generated for (user_id of its row)
  cache,     \* process -> token -> Entries
  token,     \* thread -> token it will store in the cache
  overtaken  \* history: thread -> what it read as valid was revoked meanwhile

accounts == <<status, sessions, issued, cache, token, overtaken>>

(* "late": history, an entry nobody will remove before its time is over, *)
(* because a revocation overtook the thread that stored it, or was made  *)
(* by another process.                                                   *)
Entries == {"none", "good", "late"}

UserOf(t) == IF job[t].kind = "login" THEN job[t].user ELSE issued[job[t].token]
Valid(k) == k \in sessions /\ status[issued[k]] = "active"

(* t has read that its user, or its token, is good, and will store it. *)
Trusts(t) ==
  \/ phase[t] = "storing"
  \/ job[t] # NoJob /\ job[t].kind \in {"login", "refresh"}
     /\ phase[t] \in {"writing", "invalidating", "caching"}

(* The history of a transaction of t that makes the tokens in gone invalid, *)
(* and the users in out: of the threads that trust one of them, and of the  *)
(* entries that no invalidation by t follows, those in processes.           *)
Revoke(t, out, gone, processes) ==
  /\ overtaken' = [r \in Threads |->
       \/ overtaken[r]
       \/ r # t /\ Trusts(r) /\ (UserOf(r) \in out \/ token[r] \in gone)]
  /\ cache' = [p \in Processes |-> [k \in Tokens |->
       IF p \in processes /\ (k \in gone \/ issued[k] \in out) /\ cache[p][k] # "none"
       THEN "late" ELSE cache[p][k]]]
Elsewhere(t) == Processes \ {Of(t)}

AccountsInit ==
  \E signedIn \in [Tokens -> Users \cup {NoUser}] :
    /\ Cardinality({k \in Tokens : signedIn[k] # NoUser}) <= 1
    /\ issued = signedIn
    /\ sessions = {k \in Tokens : signedIn[k] # NoUser}
    /\ status \in [Users -> {"active", "banned"}]
    /\ cache = [p \in Processes |-> [k \in Tokens |-> "none"]]
    /\ token = [t \in Threads |-> NoToken]
    /\ overtaken = [t \in Threads |-> FALSE]

-----------------------------------------------------------------------------
(* authenticate_token begins with the cache of its process. *)
LookUp(t) ==
  /\ phase[t] = "looking"
  /\ IF cache[Of(t)][job[t].token] # "none"
     THEN Go(t, "done") /\ UNCHANGED pool
     ELSE /\ Go(t, "reading")
          /\ conn' = [conn EXCEPT ![t] = "asked"]
          /\ UNCHANGED <<idle, total, borrowed>>
  /\ UNCHANGED <<job, accounts>>

(* The first SELECT of a transaction. *)
ReadLogin(t) ==
  /\ job[t].kind = "login"
  /\ IF status[job[t].user] = "active" THEN Go(t, "writing") /\ UNCHANGED pool
     ELSE Go(t, "failed") /\ EndTransaction(t)
  /\ UNCHANGED token

ReadRefresh(t) ==   \* its DELETE for a banned user is rolled back by the ValueError
  /\ job[t].kind = "refresh"
  /\ IF Valid(job[t].token) THEN Go(t, "writing") /\ UNCHANGED pool
     ELSE Go(t, "failed") /\ EndTransaction(t)
  /\ UNCHANGED token

ReadSession(t) ==
  /\ job[t].kind = "authenticate"
  /\ \/ /\ Valid(job[t].token)
        /\ Go(t, "storing")
        /\ token' = [token EXCEPT ![t] = job[t].token]
        /\ UNCHANGED pool
     \/ /\ job[t].token \in sessions /\ ~Valid(job[t].token)
        /\ Go(t, "cleaning")
        /\ UNCHANGED <<pool, token>>
     \/ /\ job[t].token \notin sessions
        /\ Go(t, "failed") /\ EndTransaction(t)
        /\ UNCHANGED token

Read(t) ==
  /\ phase[t] = "reading" /\ conn[t] = "held"
  /\ ReadLogin(t) \/ ReadRefresh(t) \/ ReadSession(t)
  /\ UNCHANGED <<job, status, sessions, issued, cache, overtaken>>

(* A new token, in place of the one refreshed: its DELETE does not ask whether *)
(* another thread has deleted that row since it was read.                      *)
Issue(t) ==
  /\ job[t].kind \in {"login", "refresh"}
  /\ \E k \in {n \in Tokens : issued[n] = NoUser} :
       LET old == IF job[t].kind = "refresh" THEN {job[t].token} ELSE {} IN
       /\ issued' = [issued EXCEPT ![k] = UserOf(t)]
       /\ sessions' = (sessions \ old) \cup {k}
       /\ token' = [token EXCEPT ![t] = k]
       /\ Revoke(t, {}, old, Elsewhere(t))
  /\ UNCHANGED status

LogOut(t) ==
  /\ job[t].kind = "logout"
  /\ sessions' = sessions \ {job[t].token}
  /\ Revoke(t, {}, {job[t].token}, Elsewhere(t))
  /\ UNCHANGED <<status, issued, token>>

(* set_user_status, and bulk_update_users for several users in one transaction. *)
Ban(t) ==
  /\ job[t].kind = "ban"
  /\ status' = [u \in Users |-> IF u \in job[t].users THEN "banned" ELSE status[u]]
  /\ sessions' = {k \in sessions : issued[k] \notin job[t].users}
  /\ Revoke(t, job[t].users, {}, Elsewhere(t))
  /\ UNCHANGED <<issued, token>>

Unban(t) ==
  /\ job[t].kind = "unban"
  /\ status' = [u \in Users |-> IF u \in job[t].users THEN "active" ELSE status[u]]
  /\ UNCHANGED <<sessions, issued, token, cache, overtaken>>

Write(t) ==
  /\ phase[t] = "writing"
  /\ Issue(t) \/ LogOut(t) \/ Ban(t) \/ Unban(t)
  /\ EndTransaction(t)
  /\ Go(t, "invalidating")
  /\ UNCHANGED job

(* authenticate_token meets a banned user: it clears the cache before its *)
(* transaction, which deletes the user's sessions, is committed.          *)
Clean(t) ==
  /\ phase[t] = "cleaning"
  /\ cache' = [cache EXCEPT ![Of(t)] = [k \in Tokens |-> "none"]]
  /\ Go(t, "expelling")
  /\ UNCHANGED <<pool, job, status, sessions, issued, token, overtaken>>

Expel(t) ==
  /\ phase[t] = "expelling"
  /\ LET gone == {k \in sessions : issued[k] = UserOf(t)} IN
     /\ sessions' = sessions \ gone
     /\ Revoke(t, {}, gone, Processes)
  /\ EndTransaction(t)
  /\ Go(t, "failed")
  /\ UNCHANGED <<job, status, issued, token>>

-----------------------------------------------------------------------------
\* Mutant: a logout or a refresh leaves the cache alone.
InvalidateNothing(t) ==
  /\ phase[t] = "invalidating"
  /\ cache' = [cache EXCEPT ![Of(t)] = [k \in Tokens |->
       IF job[t].kind \in {"login", "ban", "unban"} THEN "none" ELSE @[k]]]
  /\ Go(t, IF job[t].kind \in {"login", "refresh"} THEN "caching" ELSE "done")
  /\ UNCHANGED <<pool, job, status, sessions, issued, token, overtaken>>

(* invalidate_auth_token_cache, of one token or of all of this database. *)
Invalidate(t) ==
  /\ phase[t] = "invalidating"
  /\ cache' = [cache EXCEPT ![Of(t)] = [k \in Tokens |->
       IF job[t].kind \in {"login", "ban", "unban"} \/ k = job[t].token
       THEN "none" ELSE @[k]]]
  /\ Go(t, IF job[t].kind \in {"login", "refresh"} THEN "caching" ELSE "done")
  /\ UNCHANGED <<pool, job, status, sessions, issued, token, overtaken>>

(* cache_auth_token: inside authenticate_token's transaction, after the *)
(* transaction of a login or a refresh.                                 *)
Store(t) ==
  /\ phase[t] \in {"storing", "caching"}
  /\ cache' = [cache EXCEPT ![Of(t)][token[t]] = IF overtaken[t] THEN "late" ELSE "good"]
  /\ Go(t, IF phase[t] = "storing" THEN "closing" ELSE "done")
  /\ UNCHANGED <<pool, job, status, sessions, issued, token, overtaken>>

Close(t) ==
  /\ phase[t] = "closing"
  /\ EndTransaction(t)
  /\ Go(t, "done")
  /\ UNCHANGED <<job, accounts>>

(* RAG_AUTH_TOKEN_CACHE_TTL_SECONDS after an entry was stored. *)
Expire(p, k) ==
  /\ cache[p][k] # "none"
  /\ cache' = [cache EXCEPT ![p][k] = "none"]
  /\ UNCHANGED <<pool, job, phase, status, sessions, issued, token, overtaken>>

(* The database raises, in a transaction of an account operation. *)
TransactionFails(t) ==
  /\ phase[t] \in {"reading", "writing", "cleaning", "expelling", "storing", "closing"}
  /\ EndTransaction(t)
  /\ Go(t, "failed")
  /\ UNCHANGED <<job, accounts>>

Serve(t) ==
  \/ LookUp(t) \/ Read(t) \/ Write(t) \/ Clean(t) \/ Expel(t)
  \/ Invalidate(t) \/ Store(t) \/ Close(t)

-----------------------------------------------------------------------------
(* t has committed a revocation of k and is about to invalidate it. *)
Revoking(t, k) ==
  /\ phase[t] = "invalidating"
  /\ \/ job[t].kind = "ban" /\ issued[k] \in job[t].users
     \/ job[t].kind \in {"logout", "refresh"} /\ k = job[t].token

(* A cached token is valid, unless the thread that revoked it is about to     *)
(* invalidate it (in its own process), or the entry is one of those that only *)
(* their lifetime ends: stored by a thread that was overtaken, or revoked by  *)
(* another process.                                                           *)
OnlyRacersGoStale ==
  \A p \in Processes, k \in Tokens :
    cache[p][k] = "good" =>
      Valid(k) \/ \E t \in Threads : job[t] # NoJob /\ Of(t) = p /\ Revoking(t, k)
=============================================================================

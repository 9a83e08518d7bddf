----------------------------- MODULE ApiServers -----------------------------
(***************************************************************************)
(* API servers that share a metadata database: account operations          *)
(* (SessionTokens) and model calls (ModelCalls) in the threads of each     *)
(* process, which compete for its connections (MetadataPool).              *)
(***************************************************************************)
EXTENDS SessionTokens, ModelCalls

CONSTANT JobsOf  \* thread -> the jobs it may be given

Kinds == {"login", "authenticate", "refresh", "logout", "ban", "unban", "chat", "embed"}

(* user: of a login; users: of a ban or its end; token: the one presented. *)
ASSUME ServerAssumption ==
  /\ IsFiniteSet(Threads)
  /\ Jobs \subseteq [kind : Kinds, process : Processes, user : Users \cup {NoUser},
                     users : SUBSET Users, token : Tokens \cup {NoToken}]
  /\ \A j \in Jobs :
       /\ j.kind = "login" => j.user \in Users
       /\ j.kind \in {"authenticate", "refresh", "logout"} => j.token \in Tokens
  /\ JobsOf \in [Threads -> SUBSET Jobs]
  /\ NoJob \notin Jobs /\ NoUser \notin Users /\ NoToken \notin Tokens
  /\ PoolSize \in Nat \ {0}
  /\ Slots \in Nat \ {0}
  /\ Attempts \in Nat \ {0}
  /\ HasFallback \in BOOLEAN

vars == <<pool, job, phase, accounts, models>>

Phases == {"idle", "looking", "reading", "writing", "cleaning", "expelling",
           "invalidating", "storing", "caching", "closing", "checking", "queuing",
           "calling", "recording", "leaving", "restoring", "tripping", "done", "failed"}

Init ==
  /\ PoolInit /\ AccountsInit /\ ModelsInit
  /\ job = [t \in Threads |-> NoJob]
  /\ phase = [t \in Threads |-> "idle"]

(* A request, with a token the client was given. *)
Start(t) ==
  /\ phase[t] = "idle"
  /\ \E j \in JobsOf[t] :
       /\ j.token # NoToken => issued[j.token] # NoUser
       /\ job' = [job EXCEPT ![t] = j]
       /\ Go(t, CASE j.kind = "authenticate" -> "looking"
                  [] j.kind \in {"login", "refresh"} -> "reading"
                  [] j.kind \in {"logout", "ban", "unban"} -> "writing"
                  [] j.kind = "chat" -> "checking"
                  [] j.kind = "embed" -> "queuing")
       /\ conn' = [conn EXCEPT ![t] =
            IF j.kind \in {"authenticate", "chat", "embed"} THEN "none" ELSE "asked"]
  /\ UNCHANGED <<idle, total, borrowed, accounts, models>>

(* acquire() has raised, in an account operation. *)
NoConnection(t) ==
  /\ phase[t] \in {"reading", "writing"} /\ conn[t] = "refused"
  /\ conn' = [conn EXCEPT ![t] = "none"]
  /\ Go(t, "failed")
  /\ UNCHANGED <<idle, total, borrowed, job, accounts, models>>

Work(t) ==
  \/ Serve(t) /\ UNCHANGED models
  \/ Call(t) /\ UNCHANGED accounts
  \/ NoConnection(t)

Next ==
  \/ \E t \in Threads :
       \/ Start(t)
       \/ Work(t)
       \/ Acquire(t) /\ UNCHANGED <<accounts, models>>
       \/ TransactionFails(t) /\ UNCHANGED models
       \/ SlotTimesOut(t) /\ UNCHANGED accounts
  \/ \E p \in Processes, k \in Tokens : Expire(p, k) /\ UNCHANGED models
  \/ \E p \in Processes : CooldownEnds(p) /\ UNCHANGED accounts

Spec == Init /\ [][Next]_vars

(* Threads run; a connection opens or does not. No timeout is relied on: a  *)
(* thread that waits for a connection or a slot is served by those that     *)
(* give theirs back.                                                        *)
Fairness ==
  \A t \in Threads :
    /\ WF_vars(Work(t))
    /\ WF_vars(Look(t) /\ UNCHANGED <<job, phase, accounts, models>>)

FairSpec == Spec /\ Fairness

-----------------------------------------------------------------------------
TypeOK ==
  /\ idle \in [Processes -> Nat]
  /\ total \in [Processes -> Nat]
  /\ borrowed \in [Processes -> Nat]
  /\ conn \in [Threads -> ConnStates]
  /\ job \in [Threads -> Jobs \cup {NoJob}]
  /\ phase \in [Threads -> Phases]
  /\ status \in [Users -> {"active", "banned"}]
  /\ sessions \subseteq Tokens
  /\ issued \in [Tokens -> Users \cup {NoUser}]
  /\ cache \in [Processes -> [Tokens -> Entries]]
  /\ token \in [Threads -> Tokens \cup {NoToken}]
  /\ overtaken \in [Threads -> BOOLEAN]
  /\ free \in [Processes -> Nat]
  /\ circuit \in [Processes -> BOOLEAN]
  /\ provider \in [Threads -> {"primary", "fallback"}]
  /\ attempts \in [Threads -> 0 .. Attempts]
  /\ result \in [Threads -> Results]
  /\ answers \in [Threads -> Nat]

(* A job stands where its kind may stand, and only jobs in a transaction, or *)
(* about to begin one, have to do with the pool.                             *)
Fits(t) ==
  /\ (job[t] = NoJob) = (phase[t] = "idle")
  /\ phase[t] = "reading" => job[t].kind \in {"login", "refresh", "authenticate"}
  /\ phase[t] = "writing" => job[t].kind \in {"login", "refresh", "logout", "ban", "unban"}
  /\ phase[t] = "caching" => job[t].kind \in {"login", "refresh"}
  /\ phase[t] = "invalidating" =>
       job[t].kind \in {"login", "refresh", "logout", "ban", "unban"}
  /\ phase[t] \in {"looking", "cleaning", "expelling", "storing", "closing"} =>
       job[t].kind = "authenticate"
  /\ phase[t] \in {"checking", "queuing", "calling", "recording", "leaving", "restoring",
                   "tripping"} => job[t].kind \in {"chat", "embed"}
  /\ conn[t] # "none" =>
       phase[t] \in {"reading", "writing", "cleaning", "expelling", "storing", "closing",
                     "recording"}
  /\ phase[t] \in {"cleaning", "expelling", "storing", "closing"} => conn[t] = "held"

PhasesFit == \A t \in Threads : Fits(t)

(* The token of a session belongs to a user, as does one presented. *)
Presents(t) ==
  /\ job[t] # NoJob /\ job[t].token # NoToken => issued[job[t].token] # NoUser
  /\ phase[t] \in {"storing", "caching"} => token[t] \in Tokens
  /\ phase[t] = "invalidating" /\ job[t].kind \in {"login", "refresh"} => token[t] \in Tokens
  /\ phase[t] = "storing" => token[t] = job[t].token

TokensIssued ==
  /\ \A k \in sessions : issued[k] # NoUser
  /\ \A t \in Threads : Presents(t)

(* What a thread is about to store is valid unless it was overtaken. *)
TrustJustified(t) ==
  Trusts(t) /\ ~overtaken[t] =>
    IF phase[t] = "writing" THEN status[UserOf(t)] = "active"
    ELSE token[t] \in Tokens /\ Valid(token[t]) /\ issued[token[t]] = UserOf(t)

TrustedIsValid == \A t \in Threads : TrustJustified(t)

(* An answer is in the hands of the thread that got it; one that calls has *)
(* attempts left.                                                          *)
InHand(t) ==
  /\ phase[t] \in {"recording", "restoring"} => result[t] = "answer" /\ answers[t] = 1
  /\ phase[t] = "leaving" => (answers[t] = 1) = (result[t] = "answer")
  /\ phase[t] \notin {"recording", "leaving", "restoring", "done"} => answers[t] = 0
  /\ answers[t] \in {0, 1}
  /\ phase[t] = "calling" => attempts[t] < Attempts

AnswersInHand == \A t \in Threads : InHand(t)

(* A circuit opens only for calls that have a fallback to go to. *)
CircuitHasFallback ==
  /\ \A p \in Processes : circuit[p] => HasFallback
  /\ \A t \in Threads : phase[t] = "tripping" => HasFallback /\ provider[t] = "primary"

IInv ==
  /\ TypeOK /\ PhasesFit
  /\ PoolAccounted /\ NoWaiterForgotten /\ SlotsKept
  /\ TokensIssued /\ TrustedIsValid /\ OnlyRacersGoStale
  /\ AnswersInHand /\ CircuitHasFallback

-----------------------------------------------------------------------------
(* Who waits for whom.  A request under way goes on by itself unless it is *)
(* asleep in the pool, was woken too late to find a connection, or queues  *)
(* for a slot; none of these three relies on its timeout here.             *)
UnderWay(t) == phase[t] \notin {"idle", "done", "failed"}

InTransaction == {"reading", "writing", "cleaning", "expelling", "storing", "closing",
                  "recording"}

GoesOn(t) ==
  /\ phase[t] \in InTransaction => /\ conn[t] \notin {"none", "asleep"}
                                   /\ conn[t] = "late" => ~Exhausted(t)
  /\ phase[t] = "queuing" => free[Of(t)] > 0

(* A transaction has a connection, waits for one, or was refused one. *)
TransactionsConnect == \A t \in Threads : phase[t] \in InTransaction => conn[t] # "none"

(* Nobody waits for what is held by those that wait, though a call of a model *)
(* waits for a connection while it holds its slot: whenever a request is      *)
(* under way, one of its process can go on without any timeout.               *)
NoOneWaitsInVain ==
  \A t \in Threads : UnderWay(t) =>
    \E r \in Threads : UnderWay(r) /\ Of(r) = Of(t) /\ GoesOn(r)

(* Every request ends, though connections are few, may be closed by the      *)
(* server or fail to open, and threads hold a slot while they wait for one:  *)
(* as a thread serves at most one job, a time comes when none is under way.  *)
EveryRequestEnds ==
  <>[](\A t \in Threads : phase[t] \in {"idle", "done", "failed"})
=============================================================================

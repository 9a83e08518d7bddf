----------------------------- MODULE ModelCalls -----------------------------
(***************************************************************************)
(* Calls of the model services: a bounded number of slots per process,     *)
(* retries while a slot is held, the fallback model and the circuit that   *)
(* sends calls straight to it after the primary model has failed.  A call  *)
(* that was answered records its usage in the metadata database, waiting   *)
(* for a connection while it holds its slot; the TimeoutError of that wait *)
(* would count as a transient error of the model if it were let out.       *)
(***************************************************************************)
EXTENDS MetadataPool

CONSTANTS
  Slots,       \* RAG_MODEL_API_MAX_CONCURRENCY
  Attempts,    \* RAG_MODEL_API_RETRIES
  HasFallback  \* RAG_LLM_FALLBACK_BASE_URL and its model and key are set

VARIABLES
  free,      \* process -> free slots of the BoundedSemaphore
  circuit,   \* process -> the primary model's circuit is open
  provider,  \* thread -> the model it calls
  attempts,  \* thread -> attempts it made with this provider
  result,    \* thread -> how the attempts ended
  answers    \* history: thread -> answers it was given

models == <<free, circuit, provider, attempts, result, answers>>

Results == {"none", "answer", "transient", "fatal"}
Calling == {"calling", "recording", "leaving"}
Holders(p) == {t \in Threads : phase[t] \in Calling /\ Of(t) = p}

ModelsInit ==
  /\ free = [p \in Processes |-> Slots]
  /\ circuit = [p \in Processes |-> FALSE]
  /\ provider = [t \in Threads |-> "primary"]
  /\ attempts = [t \in Threads |-> 0]
  /\ result = [t \in Threads |-> "none"]
  /\ answers = [t \in Threads |-> 0]

-----------------------------------------------------------------------------
(* llm_primary_circuit_open, which chat_completion_with_fallback asks when *)
(* there is a fallback.                                                    *)
CheckCircuit(t) ==
  /\ phase[t] = "checking"
  /\ provider' = [provider EXCEPT ![t] =
       IF HasFallback /\ circuit[Of(t)] THEN "fallback" ELSE "primary"]
  /\ Go(t, "queuing")
  /\ UNCHANGED <<pool, job, free, circuit, attempts, result, answers>>

(* model_api_slot *)
TakeSlot(t) ==
  /\ phase[t] = "queuing" /\ free[Of(t)] > 0
  /\ free' = [free EXCEPT ![Of(t)] = @ - 1]
  /\ attempts' = [attempts EXCEPT ![t] = 0]
  /\ Go(t, "calling")
  /\ UNCHANGED <<pool, job, circuit, provider, result, answers>>

(* RAG_MODEL_API_QUEUE_TIMEOUT_SECONDS: a RuntimeError, which is not transient. *)
SlotTimesOut(t) ==
  /\ phase[t] = "queuing" /\ free[Of(t)] = 0
  /\ Go(t, "failed")
  /\ UNCHANGED <<pool, job, models>>

(* func() returns; usage is recorded for requests that have a usage context. *)
Answered(t) ==
  /\ phase[t] = "calling"
  /\ answers' = [answers EXCEPT ![t] = @ + 1]
  /\ attempts' = [attempts EXCEPT ![t] = @ + 1]
  /\ result' = [result EXCEPT ![t] = "answer"]
  /\ \/ /\ Go(t, "recording")
        /\ conn' = [conn EXCEPT ![t] = "asked"]
        /\ UNCHANGED <<idle, total, borrowed>>
     \/ Go(t, "leaving") /\ UNCHANGED pool
  /\ UNCHANGED <<job, free, circuit, provider>>

(* func() raises: again, after a pause, if the error is transient and attempts *)
(* are left.                                                                   *)
CallFails(t) ==
  /\ phase[t] = "calling"
  /\ attempts' = [attempts EXCEPT ![t] = @ + 1]
  /\ \/ /\ attempts[t] + 1 < Attempts
        /\ UNCHANGED <<phase, result>>
     \/ /\ attempts[t] + 1 >= Attempts
        /\ result' = [result EXCEPT ![t] = "transient"]
        /\ Go(t, "leaving")
     \/ /\ result' = [result EXCEPT ![t] = "fatal"]
        /\ Go(t, "leaving")
  /\ UNCHANGED <<pool, job, free, circuit, provider, answers>>

(* record_model_usage, in a transaction that may fail: either way the answer *)
(* stands.                                                                   *)
RecordUsage(t) ==
  /\ phase[t] = "recording"
  /\ EndTransaction(t)
  /\ Go(t, "leaving")
  /\ UNCHANGED <<job, models>>

\* Mutant: the exception of the pool is a failed attempt.
UsageRaises(t) ==
  /\ phase[t] = "recording" /\ conn[t] = "refused"
  /\ conn' = [conn EXCEPT ![t] = "none"]
  /\ IF attempts[t] < Attempts THEN Go(t, "calling") /\ UNCHANGED result
     ELSE Go(t, "leaving") /\ result' = [result EXCEPT ![t] = "transient"]
  /\ UNCHANGED <<idle, total, borrowed, job, free, circuit, provider, attempts, answers>>

(* No connection: record_response_model_usage counts the failure. *)
UsageIsLost(t) ==
  /\ phase[t] = "recording" /\ conn[t] = "refused"
  /\ conn' = [conn EXCEPT ![t] = "none"]
  /\ Go(t, "leaving")
  /\ UNCHANGED <<idle, total, borrowed, job, models>>

\* Mutant: the slot is given back only after an answer.
LeaveSlotIfAnswered(t) ==
  /\ phase[t] = "leaving"
  /\ free' = [free EXCEPT ![Of(t)] = IF result[t] = "answer" THEN @ + 1 ELSE @]
  /\ Go(t, CASE result[t] = "answer" -> "done"
             [] result[t] # "answer" /\ HasFallback /\ provider[t] = "primary" -> "tripping"
             [] OTHER -> "failed")
  /\ UNCHANGED <<pool, job, circuit, provider, attempts, result, answers>>

(* The slot is given back, and chat_completion_with_fallback sees the outcome. *)
LeaveSlot(t) ==
  /\ phase[t] = "leaving"
  /\ free' = [free EXCEPT ![Of(t)] = @ + 1]
  /\ LET primary == job[t].kind = "chat" /\ provider[t] = "primary"
     IN Go(t, CASE primary /\ result[t] = "answer" -> "restoring"
                [] ~primary /\ result[t] = "answer" -> "done"
                [] primary /\ HasFallback /\ result[t] = "transient" -> "tripping"
                [] OTHER -> "failed")
  /\ UNCHANGED <<pool, job, circuit, provider, attempts, result, answers>>

(* close_llm_primary_circuit, though another call may have opened it since. *)
CloseCircuit(t) ==
  /\ phase[t] = "restoring"
  /\ circuit' = [circuit EXCEPT ![Of(t)] = FALSE]
  /\ Go(t, "done")
  /\ UNCHANGED <<pool, job, free, provider, attempts, result, answers>>

(* open_llm_primary_circuit and call_fallback_completion *)
OpenCircuit(t) ==
  /\ phase[t] = "tripping"
  /\ circuit' = [circuit EXCEPT ![Of(t)] = TRUE]
  /\ provider' = [provider EXCEPT ![t] = "fallback"]
  /\ Go(t, "queuing")
  /\ UNCHANGED <<pool, job, free, attempts, result, answers>>

(* RAG_LLM_FAILOVER_COOLDOWN_SECONDS are over. *)
CooldownEnds(p) ==
  /\ circuit[p]
  /\ circuit' = [circuit EXCEPT ![p] = FALSE]
  /\ UNCHANGED <<pool, job, phase, free, provider, attempts, result, answers>>

Call(t) ==
  \/ CheckCircuit(t) \/ TakeSlot(t) \/ Answered(t) \/ CallFails(t)
  \/ RecordUsage(t) \/ UsageIsLost(t) \/ LeaveSlot(t) \/ CloseCircuit(t) \/ OpenCircuit(t)

-----------------------------------------------------------------------------
(* An answer is neither asked for twice nor lost, whatever became of the *)
(* record of its usage.                                                  *)
AnswersAreKept ==
  \A t \in Threads :
    answers[t] > 0 =>
      /\ answers[t] = 1
      /\ phase[t] \in {"recording", "leaving", "restoring", "done"}

SlotsKept == \A p \in Processes : free[p] + Cardinality(Holders(p)) = Slots
=============================================================================

----------------------------- MODULE AnswerOnce -----------------------------
(***************************************************************************)
(* What a request id promises: however many calls carry it, whoever crashes *)
(* or takes over, the answer is decided once, every call that is told an   *)
(* answer is told that one, and no answer is replaced before it has been   *)
(* forgotten.                                                              *)
(***************************************************************************)
CONSTANTS Callers, Nobody

VARIABLES
  answer,   \* the caller whose answer stands
  told      \* whose answer each caller was told

avars == <<answer, told>>

AInit == answer = Nobody /\ told = [c \in Callers |-> Nobody]

Tell(c, a) == told[c] = Nobody /\ told' = [told EXCEPT ![c] = a]

\* The caller that decides has its answer.
Decide(c) == answer = Nobody /\ answer' = c /\ Tell(c, c)

Learn(c) == answer # Nobody /\ Tell(c, answer) /\ UNCHANGED answer

Forget == answer # Nobody /\ answer' = Nobody /\ UNCHANGED told

ANext == (\E c \in Callers : Decide(c) \/ Learn(c)) \/ Forget

ASpec == AInit /\ [][ANext]_avars
=============================================================================

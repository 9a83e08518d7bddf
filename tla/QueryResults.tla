---------------------------- MODULE QueryResults ----------------------------
(***************************************************************************)
(* Streamed queries that carry a request id (rag_core/query_results.py and *)
(* run_query of query_stream in serve.py).  The first call to claim the id *)
(* computes the answer under a lease, recording the stages it reaches;     *)
(* calls that repeat the request, on any API instance, wait, replay the    *)
(* stages and get the same answer, or take over from an owner that failed  *)
(* or fell silent.                                                         *)
(*                                                                         *)
(* One request id is modelled: rows of different ids meet only in the      *)
(* purge of expired rows, which every claim starts with.  A transaction    *)
(* whose statements lock the row they change is one step.  Under           *)
(* PostgreSQL's read committed, the insertion of an event locks no owner   *)
(* out, so that it is two: what its one snapshot shows, and its commit;    *)
(* and the deletion of the events in a takeover misses those committed     *)
(* after its snapshot.  Comparisons with now_ms() are abstracted to their  *)
(* outcome: a lease is "live" or "expired", and the purge of a row whose   *)
(* expires_at has passed may come at any time.                             *)
(* A call's owner string is fresh (uuid4): the call itself stands for it,  *)
(* and for the answer it computes.                                         *)
(***************************************************************************)
EXTENDS Naturals, Sequences

CONSTANTS
  Callers,    \* the calls of query_stream with this request id
  Prints, PrintOf,   \* request fingerprints, and the fingerprint of each call
  MaxStages,  \* bound: stages a computation reports
  None        \* no owner, no answer

ASSUME QueryAssumption ==
  /\ None \notin Callers
  /\ PrintOf \in [Callers -> Prints]
  /\ MaxStages \in Nat

VARIABLES
  row,       \* the row of query_result_cache
  events,    \* its query_result_events, by sequence
  phase,     \* where each call stands
  held,      \* the answer a call holds, named by who computed it
  cursor,    \* last_sequence of a waiting call, or the highest an appending one has
             \* seen; 0 in a call that does neither
  shown,     \* the stage events a call has streamed to its client
  purged, takenOver,  \* history: the row was purged, was taken over (1) or not (0)
  late       \* history: how many stages each call recorded after it had lost the row

vars == <<row, events, phase, held, cursor, shown, purged, takenOver, late>>
callVars == <<phase, held, cursor, shown>>
history == <<purged, takenOver, late>>

Phases == {"new", "polling", "asking", "owning", "cached", "computing",
           "appending", "saving", "answering", "failing", "done", "failed"}

Row == [status : {"absent", "processing", "completed", "failed"},
        owner : Callers \cup {None}, lease : {"none", "live", "expired"},
        print : Prints \cup {None}, response : Callers \cup {None}]

\* The call that recorded a stage, and its place among what that call has streamed.
Event == [by : Callers \cup {None}, stage : Nat]

\* A sequence number that is not in the table.
NoEvent == [by |-> None, stage |-> 0]

NoRow == [status |-> "absent", owner |-> None, lease |-> "none",
          print |-> None, response |-> None]

ClaimedRow(c) == [status |-> "processing", owner |-> c, lease |-> "live",
                  print |-> PrintOf[c], response |-> None]

Init ==
  /\ row = NoRow
  /\ events = <<>>
  /\ phase = [c \in Callers |-> "new"]
  /\ held = [c \in Callers |-> None]
  /\ cursor = [c \in Callers |-> 0]
  /\ shown = [c \in Callers |-> <<>>]
  /\ purged = 0
  /\ takenOver = 0
  /\ late = [c \in Callers |-> 0]

-----------------------------------------------------------------------------
(* claim_query_result.                                                     *)

Goto(c, p) == phase' = [phase EXCEPT ![c] = p]

Claiming(c) == phase[c] \in {"new", "asking"}

\* The INSERT finds no row, be it that the claim itself has purged it (see Purge).
Gone == row.status = "absent"

\* Mutant: the fingerprint is not compared.
MatchesAny(c) == ~Gone

Matches(c) == ~Gone /\ row.print = PrintOf[c]

\* Mutant: a lease that ran out is not a reason to take over.
UnattendedFailed == row.status = "failed"

Unattended == row.status = "failed" \/ (row.status = "processing" /\ row.lease = "expired")

\* A granted call starts to compute at once, or lists events first if it waited.
Granted(c) == Goto(c, IF phase[c] = "new" THEN "computing" ELSE "owning")

ClaimNew(c) ==
  /\ Claiming(c)
  /\ Gone
  /\ row' = ClaimedRow(c)
  /\ events' = <<>>
  /\ Granted(c)
  /\ UNCHANGED <<held, cursor, shown, history>>

\* QueryResultConflictError: the call answers with an error.
ClaimConflict(c) ==
  /\ Claiming(c)
  /\ ~Gone
  /\ ~Matches(c)
  /\ Goto(c, "failed")
  /\ cursor' = [cursor EXCEPT ![c] = 0]
  /\ UNCHANGED <<row, events, held, shown, history>>

\* Mutant: the events that arrived since the last poll are not listed.
ClaimCachedUnlisted(c) ==
  /\ Claiming(c)
  /\ Matches(c)
  /\ row.status = "completed"
  /\ held' = [held EXCEPT ![c] = row.response]
  /\ Goto(c, "answering")
  /\ UNCHANGED <<row, events, cursor, shown, history>>

ClaimCached(c) ==
  /\ Claiming(c)
  /\ Matches(c)
  /\ row.status = "completed"
  /\ held' = [held EXCEPT ![c] = row.response]
  /\ Goto(c, "cached")
  /\ UNCHANGED <<row, events, cursor, shown, history>>

\* The events that are left when the first n are deleted.
EventsAfter(n) ==
  IF n = Len(events) THEN <<>>
  ELSE [i \in 1 .. Len(events) |-> IF i <= n THEN NoEvent ELSE events[i]]

\* The DELETE sees n events; the others were committed before this transaction.
ClaimTakeover(c) ==
  /\ Claiming(c)
  /\ Matches(c)
  /\ Unattended
  /\ row' = ClaimedRow(c)
  /\ \E n \in 0 .. Len(events) : events' = EventsAfter(n)
  /\ takenOver' = 1
  /\ Granted(c)
  /\ UNCHANGED <<held, cursor, shown, purged, late>>

ClaimWaits(c) ==
  /\ Claiming(c)
  /\ Matches(c)
  /\ row.status = "processing"
  /\ ~Unattended
  /\ Goto(c, "polling")
  /\ UNCHANGED <<row, events, held, cursor, shown, history>>

-----------------------------------------------------------------------------
(* wait_for_query_result, and the replay of a cached answer's events.      *)

\* What list_query_result_events returns after the cursor.
NewEvents(c) == SubSeq(events, cursor[c] + 1, Len(events))

\* A poll is a listing and a claim; an answer or a grant is followed by one
\* more listing.
ListEvents(c) ==
  /\ phase[c] \in {"polling", "owning", "cached"}
  /\ shown' = [shown EXCEPT ![c] = @ \o NewEvents(c)]
  /\ cursor' = [cursor EXCEPT ![c] = IF phase[c] # "polling" THEN 0
                                    ELSE IF Len(events) > @ THEN Len(events) ELSE @]
  /\ Goto(c, CASE phase[c] = "polling" -> "asking"
               [] phase[c] = "owning" -> "computing"
               [] phase[c] = "cached" -> "answering")
  /\ UNCHANGED <<row, events, held, history>>

\* QueryResultWaitTimeout: the deadline passed or the client disconnected.
WaitGivesUp(c) ==
  /\ phase[c] = "polling"
  /\ Goto(c, "failed")
  /\ cursor' = [cursor EXCEPT ![c] = 0]
  /\ UNCHANGED <<row, events, held, shown, history>>

-----------------------------------------------------------------------------
(* The owner: run_query from the lease guard on.                           *)

\* Mutant: WHERE without status and lease_owner.
OwnsAnyway(c) == row.status # "absent"

\* WHERE status = 'processing' AND lease_owner = ?
Owns(c) == row.status = "processing" /\ row.owner = c

\* append_query_result_event: what its INSERT ... SELECT sees, the owner and the
\* highest sequence, or the error of emit_owned_stage if the row is lost.
ReportStage(c) ==
  /\ phase[c] = "computing"
  /\ Len(events) < MaxStages
  /\ IF Owns(c)
       THEN /\ cursor' = [cursor EXCEPT ![c] = Len(events)]
            /\ Goto(c, "appending")
       ELSE Goto(c, "failing") /\ UNCHANGED cursor
  /\ UNCHANGED <<row, events, held, shown, history>>

\* Sequence n is not in the table.
Vacant(n) == n > Len(events) \/ events[n].by = None

\* The table with event e under the number n.
EventsWith(n, e) ==
  [i \in 1 .. (IF n > Len(events) THEN n ELSE Len(events)) |->
     IF i = n THEN e ELSE IF i <= Len(events) THEN events[i] ELSE NoEvent]

\* Its commit, whoever owns the row by then; the primary key and the reference to
\* the row refuse a number that was taken meanwhile and a row that is gone.
AppendEvent(c) ==
  LET e == [by |-> c, stage |-> Len(shown[c]) + 1] IN
  /\ phase[c] = "appending"
  /\ IF row.status # "absent" /\ Vacant(cursor[c] + 1)
       THEN /\ events' = EventsWith(cursor[c] + 1, e)
            /\ shown' = [shown EXCEPT ![c] = Append(@, e)]
            /\ late' = IF Owns(c) THEN late ELSE [late EXCEPT ![c] = @ + 1]
            /\ Goto(c, "computing")
       ELSE /\ Goto(c, "failing")
            /\ UNCHANGED <<events, shown, late>>
  /\ cursor' = [cursor EXCEPT ![c] = 0]
  /\ UNCHANGED <<row, held, purged, takenOver>>

FinishComputing(c) ==
  /\ phase[c] = "computing"
  /\ Goto(c, "saving")
  /\ UNCHANGED <<row, events, held, cursor, shown, history>>

\* The computation or a database call raises, or the guard reports that the
\* lease is not renewed any more, which one failed renewal is enough for.
ComputingRaises(c) ==
  /\ phase[c] \in {"computing", "appending", "saving"}
  /\ Goto(c, "failing")
  /\ cursor' = [cursor EXCEPT ![c] = 0]
  /\ UNCHANGED <<row, events, held, shown, history>>

\* complete_query_result; an answer that cannot be saved is an error.
Complete(c) ==
  /\ phase[c] = "saving"
  /\ IF Owns(c)
       THEN /\ row' = [row EXCEPT !.status = "completed", !.owner = None, !.lease = "none",
                                  !.response = c]
            /\ held' = [held EXCEPT ![c] = c]
            /\ Goto(c, "answering")
       ELSE /\ Goto(c, "failing")
            /\ UNCHANGED <<row, held>>
  /\ UNCHANGED <<events, cursor, shown, history>>

Answer(c) ==
  /\ phase[c] = "answering"
  /\ Goto(c, "done")
  /\ UNCHANGED <<row, events, held, cursor, shown, history>>

\* Validating a cached answer or logging a saved one raises: the client gets an
\* error and the row stays completed.
AnswerRaises(c) ==
  /\ phase[c] \in {"cached", "answering"}
  /\ Goto(c, "failed")
  /\ UNCHANGED <<row, events, held, cursor, shown, history>>

\* fail_query_result.
Fail(c) ==
  /\ phase[c] = "failing"
  /\ row' = IF Owns(c)
              THEN [row EXCEPT !.status = "failed", !.owner = None, !.lease = "none"]
              ELSE row
  /\ Goto(c, "failed")
  /\ UNCHANGED <<events, held, cursor, shown, history>>

\* The process dies, or a database call raises that leaves the row as it is: a
\* claim, a listing (even that of a call just granted) or fail_query_result.
Crash(c) ==
  /\ phase[c] \notin {"done", "failed"}
  /\ Goto(c, "failed")
  /\ cursor' = [cursor EXCEPT ![c] = 0]
  /\ UNCHANGED <<row, events, held, shown, history>>

-----------------------------------------------------------------------------
(* The clock, and claims of other request ids.                             *)

\* A renewal of a live lease keeps it live; one of an expired lease fails.
LeaseExpires ==
  /\ row.lease = "live"
  /\ row' = [row EXCEPT !.lease = "expired"]
  /\ UNCHANGED <<events, callVars, history>>

\* DELETE ... WHERE expires_at < now, with which the claim of any request id begins.
\* Renewals do not extend expires_at: this may happen to a row in use.  Events go
\* with their row, ON DELETE CASCADE.
Purge ==
  /\ row.status # "absent"
  /\ row' = NoRow
  /\ events' = <<>>
  /\ purged' = 1
  /\ UNCHANGED <<callVars, takenOver, late>>

-----------------------------------------------------------------------------

Claim(c) ==
  ClaimNew(c) \/ ClaimConflict(c) \/ ClaimCached(c) \/ ClaimTakeover(c) \/ ClaimWaits(c)

\* What the thread of a call goes on to do if nothing goes wrong.
Proceed(c) ==
  Claim(c) \/ ListEvents(c) \/ ReportStage(c) \/ AppendEvent(c) \/ FinishComputing(c)
    \/ Complete(c) \/ Answer(c) \/ Fail(c)

Next ==
  \/ \E c \in Callers :
       Proceed(c) \/ WaitGivesUp(c) \/ ComputingRaises(c) \/ AnswerRaises(c) \/ Crash(c)
  \/ LeaseExpires \/ Purge

Spec == Init /\ [][Next]_vars

\* A call that will not touch the row again.
Ended(c) == phase[c] \in {"done", "failed"}

\* Threads go on, and the lease of an owner that ended runs out.
Fairness ==
  /\ \A c \in Callers : WF_vars(Proceed(c))
  /\ WF_vars((\E c \in Callers : Owns(c) /\ Ended(c)) /\ LeaseExpires)

FairSpec == Spec /\ Fairness

-----------------------------------------------------------------------------
(* Properties.                                                             *)

TypeOK ==
  /\ row \in Row
  /\ events \in Seq(Event)
  /\ phase \in [Callers -> Phases]
  /\ held \in [Callers -> Callers \cup {None}]
  /\ cursor \in [Callers -> Nat]
  /\ shown \in [Callers -> Seq(Event)]
  /\ purged \in {0, 1}
  /\ takenOver \in {0, 1}
  /\ late \in [Callers -> Nat]

\* Until the row is purged, all calls that hold an answer hold the saved one: an
\* owner that lost its row to another never answers.
AnswersAgree ==
  purged = 0 => \A c \in Callers :
    held[c] # None => row.status = "completed" /\ row.response = held[c]

\* No call is given the answer to another question, or to another principal's
\* (the fingerprint holds the principal), for using the same request id.
AnswerFitsQuestion ==
  \A c \in Callers : held[c] # None => PrintOf[held[c]] = PrintOf[c]

\* The call that owns the row, or whose answer was saved.
Holds(c) == Owns(c) \/ (row.status = "completed" /\ row.response = c)

\* Whatever the computation that runs, or whose answer stands, has streamed of its
\* own stages is recorded for those who ask again: no takeover, purge or straggler
\* takes the place of one of its events.
StagesAreRecorded ==
  \A c \in Callers : Holds(c) =>
    \A j \in 1 .. Len(shown[c]) :
      shown[c][j].by = c => \E i \in 1 .. Len(events) : events[i] = shown[c][j]

\* A call that lost its row may record one more stage, under the row of another,
\* and no second one.
StragglersLeaveOne == \A c \in Callers : late[c] <= 1

\* Who may still record a stage has not done so without the row, and who has not
\* begun has recorded none.
RecordersAreFresh ==
  \A c \in Callers :
    /\ Owns(c) \/ phase[c] \in {"new", "polling", "asking", "appending"} => late[c] = 0
    /\ phase[c] \in {"new", "polling", "asking"} =>
         /\ \A i \in 1 .. Len(events) : events[i].by # c
         /\ \A j \in 1 .. Len(shown[c]) : shown[c][j].by # c

\* A call that answers has streamed every recorded stage, once and in order, if
\* the row was neither taken over nor purged.
ReplayIsComplete ==
  \A c \in Callers :
    phase[c] = "done" /\ purged = 0 /\ takenOver = 0 => shown[c] = events

\* A waiting call is not left waiting by an owner that failed or died: it gets
\* the answer, takes over, or ends.  As a call asks once, a time comes when none
\* waits or computes.
EveryWaiterServed == <>[](\A c \in Callers : phase[c] = "new" \/ Ended(c))

\* Whoever waits, waits for somebody else's work: the owner of a row in progress is
\* neither about to claim nor waiting itself, and if it has ended or hangs its lease
\* can run out; there is no row in progress that nobody works on and nobody may take.
WaitersHaveAnOwner ==
  row.status = "processing" =>
    /\ row.owner # None /\ row.lease \in {"live", "expired"}
    /\ phase[row.owner] \in {"owning", "computing", "appending", "saving", "failing", "failed"}

\* The row names who and what it is about.
RowIsConsistent ==
  /\ row.status = "processing" => row.owner # None /\ row.print = PrintOf[row.owner]
  /\ row.status = "completed" => row.response # None /\ row.print = PrintOf[row.response]
  /\ row.status = "absent" => events = <<>>

\* Where a call stands tells whether it holds an answer.
HoldersHaveAnswers ==
  \A c \in Callers : held[c] # None => phase[c] \in {"cached", "answering", "done", "failed"}

\* The row and its answers.
AnswersInv ==
  /\ TypeOK
  /\ RowIsConsistent
  /\ HoldersHaveAnswers
  /\ AnswersAgree
  /\ AnswerFitsQuestion
  /\ StagesAreRecorded
  /\ StragglersLeaveOne
  /\ RecordersAreFresh

\* The inductive invariant.
IInv == AnswersInv /\ WaitersHaveAnOwner

\* How far each call has replayed the events, while the row is neither purged nor
\* taken over: then no call is granted the row after it waited.
Replayed(c) ==
  /\ phase[c] # "owning"
  /\ phase[c] = "new" => cursor[c] = 0 /\ shown[c] = <<>>
  /\ phase[c] \in {"polling", "asking", "cached"} =>
       /\ row.status # "absent"
       /\ cursor[c] <= Len(events)
       /\ shown[c] = SubSeq(events, 1, cursor[c])
  /\ phase[c] \in {"computing", "appending", "saving"} => Owns(c) /\ shown[c] = events
  /\ phase[c] = "appending" => cursor[c] = Len(events)
  /\ phase[c] \in {"cached", "answering", "done"} => row.status = "completed"
  /\ phase[c] \in {"answering", "done"} => shown[c] = events

ReplaysKeepUp == purged = 0 /\ takenOver = 0 => \A c \in Callers : Replayed(c)

\* A request id as an answer that is decided once.
Once == INSTANCE AnswerOnce WITH
  Nobody <- None,
  answer <- IF row.status = "completed" THEN row.response ELSE None,
  told   <- held

ImplementsAnswerOnce == Once!ASpec
=============================================================================

------------------------- MODULE QueryResults_proofs -------------------------
(***************************************************************************)
(* Proofs about QueryResults, for any number of calls, fingerprints and    *)
(* stages: the inductive invariant, and the refinement of AnswerOnce.      *)
(***************************************************************************)
EXTENDS QueryResults, SequenceTheorems, TLAPS

\* The parts of the invariant about the recorded stages.
Records == StagesAreRecorded /\ StragglersLeaveOne /\ RecordersAreFresh

LEMMA RecordParts ==
  ASSUME Records
  PROVE  StagesAreRecorded /\ StragglersLeaveOne /\ RecordersAreFresh
BY DEF Records

LEMMA InitIInv == Init => AnswersInv
<1> SUFFICES ASSUME Init PROVE AnswersInv
  OBVIOUS
<1>1. TypeOK
  BY EmptySeq, QueryAssumption DEF Init, TypeOK, Row, NoRow, Phases
<1>2. RowIsConsistent /\ HoldersHaveAnswers /\ AnswersAgree /\ AnswerFitsQuestion
  BY DEF Init, RowIsConsistent, HoldersHaveAnswers, AnswersAgree, AnswerFitsQuestion, NoRow
<1>3. Records
  BY EmptySeq
     DEF Init, Records, StagesAreRecorded, StragglersLeaveOne, RecordersAreFresh, NoRow
<1> QED
  BY <1>1, <1>2, <1>3, RecordParts DEF AnswersInv

\* A granted claim installs a well-formed row.
LEMMA ClaimedRowType ==
  ASSUME NEW c \in Callers
  PROVE  ClaimedRow(c) \in Row /\ PrintOf[c] \in Prints
BY QueryAssumption DEF ClaimedRow, Row

\* Events are made of a call and a number.
LEMMA EventTypes ==
  /\ NoEvent \in Event /\ \A c \in Callers : NoEvent.by # c
  /\ \A c \in Callers, n \in Nat : [by |-> c, stage |-> n] \in Event
BY QueryAssumption DEF NoEvent, Event

\* What a listing adds is a part of the events.
LEMMA NewEventsType ==
  ASSUME TypeOK, NEW c \in Callers
  PROVE  /\ NewEvents(c) \in Seq(Event) /\ Len(events) \in Nat
         /\ \A j \in 1 .. Len(NewEvents(c)) :
              \E i \in 1 .. Len(events) : NewEvents(c)[j] = events[i]
<1>1. Len(events) \in Nat /\ \A i \in 1 .. Len(events) : events[i] \in Event
  BY LenProperties, ElementOfSeq DEF TypeOK
<1>2. cursor[c] \in Nat /\ cursor[c] + 1 \in Int /\ cursor[c] + 1 >= 1
  BY DEF TypeOK
<1>3. \A i \in cursor[c] + 1 .. Len(events) : events[i] \in Event
  BY <1>1, <1>2
<1>4. /\ NewEvents(c) \in Seq(Event)
      /\ Len(NewEvents(c)) = IF cursor[c] + 1 <= Len(events)
                               THEN Len(events) - (cursor[c] + 1) + 1 ELSE 0
      /\ \A j \in 1 .. Len(events) - (cursor[c] + 1) + 1 :
           NewEvents(c)[j] = events[cursor[c] + 1 + j - 1]
  BY <1>1, <1>2, <1>3, SubSeqProperties DEF NewEvents
<1>5. ASSUME NEW j \in 1 .. Len(NewEvents(c))
      PROVE  \E i \in 1 .. Len(events) : NewEvents(c)[j] = events[i]
  <2>1. j \in 1 .. Len(events) - (cursor[c] + 1) + 1
    BY <1>1, <1>2, <1>4, <1>5
  <2>2. cursor[c] + 1 + j - 1 \in 1 .. Len(events)
    BY <1>1, <1>2, <2>1
  <2> QED
    BY <1>4, <2>1, <2>2
<1> QED
  BY <1>1, <1>4, <1>5

\* What a takeover leaves of the events.
LEMMA EventsAfterType ==
  ASSUME TypeOK, NEW n \in 0 .. Len(events)
  PROVE  /\ EventsAfter(n) \in Seq(Event)
         /\ \A i \in 1 .. Len(EventsAfter(n)) :
              EventsAfter(n)[i] = NoEvent \/ \E k \in 1 .. Len(events) : EventsAfter(n)[i] = events[k]
<1>1. Len(events) \in Nat /\ \A i \in 1 .. Len(events) : events[i] \in Event
  BY LenProperties, ElementOfSeq DEF TypeOK
<1>2. CASE n = Len(events)
  BY <1>2, EmptySeq DEF EventsAfter
<1>3. CASE n # Len(events)
  <2> DEFINE f == [i \in 1 .. Len(events) |-> IF i <= n THEN NoEvent ELSE events[i]]
  <2>1. EventsAfter(n) = f
    BY <1>3 DEF EventsAfter
  <2>2. f \in [1 .. Len(events) -> Event]
    BY <1>1, EventTypes
  <2>3. f \in Seq(Event) /\ Len(f) = Len(events)
    BY <1>1, <2>2, SeqDef, LenProperties
  <2>4. \A i \in 1 .. Len(events) : f[i] = NoEvent \/ f[i] = events[i]
    OBVIOUS
  <2> HIDE DEF f
  <2> QED
    BY <2>1, <2>3, <2>4
<1> QED
  BY <1>2, <1>3

\* What an insertion under a vacant number makes of the events.
LEMMA EventsWithType ==
  ASSUME TypeOK, NEW n \in Nat \ {0}, NEW e \in Event
  PROVE  /\ EventsWith(n, e) \in Seq(Event)
         /\ n \in 1 .. Len(EventsWith(n, e)) /\ EventsWith(n, e)[n] = e
         /\ \A i \in 1 .. Len(events) : /\ i \in 1 .. Len(EventsWith(n, e))
                                        /\ i # n => EventsWith(n, e)[i] = events[i]
         /\ \A i \in 1 .. Len(EventsWith(n, e)) :
              \/ EventsWith(n, e)[i] \in {e, NoEvent}
              \/ \E k \in 1 .. Len(events) : EventsWith(n, e)[i] = events[k]
         /\ n = Len(events) + 1 => EventsWith(n, e) = Append(events, e)
<1>1. Len(events) \in Nat /\ \A i \in 1 .. Len(events) : events[i] \in Event
  BY LenProperties, ElementOfSeq DEF TypeOK
<1> DEFINE m == IF n > Len(events) THEN n ELSE Len(events)
           f == [i \in 1 .. m |->
                   IF i = n THEN e ELSE IF i <= Len(events) THEN events[i] ELSE NoEvent]
<1>2. m \in Nat /\ n \in 1 .. m /\ Len(events) <= m /\ (n = Len(events) + 1 => m = n)
  BY <1>1
<1>3. EventsWith(n, e) = f
  BY DEF EventsWith
<1> HIDE DEF m
<1>4. f \in [1 .. m -> Event]
  BY <1>1, <1>2, EventTypes
<1>5. f \in Seq(Event) /\ Len(f) = m
  BY <1>2, <1>4, SeqDef, LenProperties
<1>6. /\ f[n] = e
      /\ \A i \in 1 .. Len(events) : i \in 1 .. m /\ (i # n => f[i] = events[i])
      /\ \A i \in 1 .. m :
           f[i] \in {e, NoEvent} \/ \E k \in 1 .. Len(events) : f[i] = events[k]
  BY <1>1, <1>2
<1> HIDE DEF f
<1>7. ASSUME n = Len(events) + 1
      PROVE  f = Append(events, e)
  <2>1. /\ Append(events, e) \in Seq(Event) /\ Len(Append(events, e)) = Len(events) + 1
        /\ \A i \in 1 .. Len(events) : Append(events, e)[i] = events[i]
        /\ Append(events, e)[Len(events) + 1] = e
    BY AppendProperties DEF TypeOK
  <2>2. \A i \in 1 .. m : f[i] = Append(events, e)[i]
    BY <1>1, <1>2, <1>6, <1>7, <2>1
  <2>3. Len(f) = Len(Append(events, e))
    BY <1>2, <1>5, <1>7, <2>1
  <2> QED
    BY <1>5, <2>1, <2>2, <2>3, SeqEqual
<1> QED
  BY <1>2, <1>3, <1>5, <1>6, <1>7

-----------------------------------------------------------------------------

\* Steps that record and show nothing, and give the row to nobody.
LEMMA RecordsStay ==
  ASSUME AnswersInv, UNCHANGED <<events, shown, late>>,
         \A d \in Callers : (Holds(d)' => Holds(d)) /\ (Owns(d)' => Owns(d)),
         \A d \in Callers :
           /\ phase'[d] \in {"new", "polling", "asking"} => phase[d] \in {"new", "polling", "asking"}
           /\ phase'[d] = "appending" => phase[d] = "appending" \/ Owns(d)
  PROVE  Records'
<1>1. StagesAreRecorded' /\ StragglersLeaveOne'
  BY DEF AnswersInv, StagesAreRecorded, StragglersLeaveOne
<1>2. RecordersAreFresh'
  BY DEF AnswersInv, RecordersAreFresh
<1> QED
  BY <1>1, <1>2 DEF Records

\* Steps that move calls and stream events, and leave the row and its events.
LEMMA SameRowIInv ==
  ASSUME AnswersInv, UNCHANGED <<row, events, held, history>>,
         phase' \in [Callers -> Phases], cursor' \in [Callers -> Nat],
         shown' \in [Callers -> Seq(Event)],
         \A c \in Callers : held[c] # None => phase'[c] \in {"cached", "answering", "done", "failed"},
         Records'
  PROVE  AnswersInv'
<1>1. TypeOK'
  BY DEF AnswersInv, TypeOK, history
<1>2. HoldersHaveAnswers'
  BY DEF HoldersHaveAnswers
<1>3. RowIsConsistent' /\ AnswersAgree' /\ AnswerFitsQuestion'
  BY DEF AnswersInv, history, RowIsConsistent, AnswersAgree, AnswerFitsQuestion
<1> QED
  BY <1>1, <1>2, <1>3 DEF AnswersInv, Records

\* A call that only goes somewhere else.
LEMMA GotoIInv ==
  ASSUME AnswersInv, NEW c \in Callers, NEW p \in Phases, Goto(c, p),
         UNCHANGED <<row, events, held, shown, history>>, cursor' \in [Callers -> Nat],
         held[c] # None => p \in {"cached", "answering", "done", "failed"},
         p \in {"new", "polling", "asking"} => phase[c] \in {"new", "polling", "asking"},
         p = "appending" => Owns(c)
  PROVE  AnswersInv'
<1>1. phase' \in [Callers -> Phases] /\ phase' = [phase EXCEPT ![c] = p]
  BY DEF Goto, AnswersInv, TypeOK
<1>2. \A d \in Callers :
        held[d] # None => phase'[d] \in {"cached", "answering", "done", "failed"}
  BY DEF Goto, AnswersInv, TypeOK, HoldersHaveAnswers
<1>3. shown' \in [Callers -> Seq(Event)]
  BY DEF AnswersInv, TypeOK
<1>4. \A d \in Callers : (Holds(d)' => Holds(d)) /\ (Owns(d)' => Owns(d))
  BY DEF Holds, Owns
<1>5. \A d \in Callers :
        /\ phase'[d] \in {"new", "polling", "asking"} => phase[d] \in {"new", "polling", "asking"}
        /\ phase'[d] = "appending" => phase[d] = "appending" \/ Owns(d)
  BY <1>1 DEF AnswersInv, TypeOK
<1>6. Records'
  BY <1>4, <1>5, RecordsStay DEF history
<1> QED
  BY <1>1, <1>2, <1>3, <1>6, SameRowIInv

\* A cursor is set to zero, or to a length.
LEMMA CursorType ==
  ASSUME TypeOK, NEW c \in Callers
  PROVE  /\ [cursor EXCEPT ![c] = 0] \in [Callers -> Nat]
         /\ [cursor EXCEPT ![c] = Len(events)] \in [Callers -> Nat]
         /\ cursor \in [Callers -> Nat]
BY NewEventsType DEF TypeOK

LEMMA ListEventsIInv ==
  ASSUME AnswersInv, NEW c \in Callers, ListEvents(c)
  PROVE  AnswersInv'
<1>1. UNCHANGED <<row, events, held, purged, takenOver, late>>
  BY DEF ListEvents, history
<1>2. /\ phase' \in [Callers -> Phases]
      /\ \A d \in Callers : d # c => phase'[d] = phase[d]
      /\ \/ phase'[c] = "asking" /\ phase[c] = "polling"
         \/ phase'[c] \in {"computing", "answering"}
  BY DEF ListEvents, Goto, AnswersInv, TypeOK, Phases
<1>3. cursor' \in [Callers -> Nat]
  BY NewEventsType DEF ListEvents, AnswersInv, TypeOK
<1>4. /\ shown[c] \o NewEvents(c) \in Seq(Event)
      /\ \A j \in 1 .. Len(shown[c] \o NewEvents(c)) :
           \/ \E k \in 1 .. Len(shown[c]) : (shown[c] \o NewEvents(c))[j] = shown[c][k]
           \/ \E i \in 1 .. Len(events) : (shown[c] \o NewEvents(c))[j] = events[i]
  <2>1. shown[c] \in Seq(Event) /\ NewEvents(c) \in Seq(Event)
    BY NewEventsType DEF AnswersInv, TypeOK
  <2>2. /\ shown[c] \o NewEvents(c) \in Seq(Event)
        /\ Len(shown[c] \o NewEvents(c)) = Len(shown[c]) + Len(NewEvents(c))
        /\ \A j \in 1 .. Len(shown[c]) + Len(NewEvents(c)) :
             (shown[c] \o NewEvents(c))[j] =
               IF j <= Len(shown[c]) THEN shown[c][j] ELSE NewEvents(c)[j - Len(shown[c])]
    BY <2>1, ConcatProperties
  <2>3. Len(shown[c]) \in Nat /\ Len(NewEvents(c)) \in Nat
    BY <2>1, LenProperties
  <2>4. ASSUME NEW j \in 1 .. Len(shown[c] \o NewEvents(c)), j > Len(shown[c])
        PROVE  \E i \in 1 .. Len(events) : (shown[c] \o NewEvents(c))[j] = events[i]
    <3>1. j - Len(shown[c]) \in 1 .. Len(NewEvents(c))
      BY <2>2, <2>3, <2>4
    <3> QED
      BY <2>2, <2>3, <2>4, <3>1, NewEventsType DEF AnswersInv
  <2> QED
    BY <2>2, <2>3, <2>4
<1>5. /\ shown' \in [Callers -> Seq(Event)] /\ shown'[c] = shown[c] \o NewEvents(c)
      /\ \A d \in Callers : d # c => shown'[d] = shown[d]
  BY <1>4 DEF ListEvents, AnswersInv, TypeOK
<1>6. \A d \in Callers :
        held[d] # None => phase'[d] \in {"cached", "answering", "done", "failed"}
  BY DEF ListEvents, Goto, AnswersInv, TypeOK, HoldersHaveAnswers
<1>7. \A d \in Callers : (Holds(d)' <=> Holds(d)) /\ (Owns(d)' <=> Owns(d))
  BY <1>1 DEF Holds, Owns
<1>8. StagesAreRecorded'
  <2> SUFFICES ASSUME NEW d \in Callers, Holds(d), NEW j \in 1 .. Len(shown'[d]),
                      shown'[d][j].by = d
               PROVE  \E i \in 1 .. Len(events) : events[i] = shown'[d][j]
    BY <1>1, <1>7 DEF StagesAreRecorded
  <2>1. StagesAreRecorded
    BY DEF AnswersInv
  <2>2. CASE d # c
    BY <1>5, <2>1, <2>2 DEF StagesAreRecorded
  <2>3. CASE d = c
    <3>1. CASE \E k \in 1 .. Len(shown[c]) : shown'[c][j] = shown[c][k]
      <4>1. PICK k \in 1 .. Len(shown[c]) : shown'[c][j] = shown[c][k]
        BY <3>1
      <4>2. shown[c][k].by = c
        BY <2>3, <4>1
      <4> QED
        BY <2>1, <2>3, <4>1, <4>2 DEF StagesAreRecorded
    <3>2. CASE \E i \in 1 .. Len(events) : shown'[c][j] = events[i]
      BY <2>3, <3>2
    <3> QED
      BY <1>4, <1>5, <2>3, <3>1, <3>2
  <2> QED
    BY <2>2, <2>3
<1>9. RecordersAreFresh'
  <2> SUFFICES ASSUME NEW d \in Callers
               PROVE  /\ Owns(d) \/ phase'[d] \in {"new", "polling", "asking", "appending"}
                           => late[d] = 0
                      /\ phase'[d] \in {"new", "polling", "asking"} =>
                           /\ \A i \in 1 .. Len(events) : events[i].by # d
                           /\ \A j \in 1 .. Len(shown'[d]) : shown'[d][j].by # d
    BY <1>1, <1>7 DEF RecordersAreFresh
  <2>1. RecordersAreFresh
    BY DEF AnswersInv
  <2>2. CASE d # c
    BY <1>2, <1>5, <2>1, <2>2 DEF RecordersAreFresh
  <2>3. CASE d = c
    <3>1. /\ Owns(c) \/ phase[c] \in {"new", "polling", "asking", "appending"} => late[c] = 0
          /\ phase[c] = "polling" =>
               /\ \A i \in 1 .. Len(events) : events[i].by # c
               /\ \A k \in 1 .. Len(shown[c]) : shown[c][k].by # c
      BY <2>1 DEF RecordersAreFresh
    <3>2. phase[c] = "polling" => \A j \in 1 .. Len(shown'[c]) : shown'[c][j].by # c
      <4> SUFFICES ASSUME phase[c] = "polling", NEW j \in 1 .. Len(shown'[c])
                   PROVE  shown'[c][j].by # c
        OBVIOUS
      <4> QED
        BY <1>4, <1>5, <3>1
    <3> QED
      BY <1>2, <2>3, <3>1, <3>2
  <2> QED
    BY <2>2, <2>3
<1>10. StragglersLeaveOne'
  BY <1>1 DEF AnswersInv, StragglersLeaveOne
<1> QED
  BY <1>1, <1>2, <1>3, <1>5, <1>6, <1>8, <1>9, <1>10, SameRowIInv DEF Records, history

\* ClaimNew and ClaimTakeover: the row is c's, with at most the events it had.
\* Nobody holds an answer that the old row kept.
LEMMA GrantIInv ==
  ASSUME AnswersInv, NEW c \in Callers, Claiming(c), Granted(c),
         row' = ClaimedRow(c), UNCHANGED <<held, cursor, shown, purged, late>>,
         takenOver' \in {0, 1}, row.status # "completed",
         events' \in Seq(Event),
         \A i \in 1 .. Len(events') :
           events'[i] = NoEvent \/ \E k \in 1 .. Len(events) : events'[i] = events[k]
  PROVE  AnswersInv'
<1>0. /\ phase' \in [Callers -> Phases] /\ phase[c] \in {"new", "asking"}
      /\ phase'[c] \in {"computing", "owning"}
      /\ \A d \in Callers : d # c => phase'[d] = phase[d]
  BY DEF Claiming, Granted, Goto, Phases, AnswersInv, TypeOK
<1>1. TypeOK'
  BY <1>0, ClaimedRowType DEF AnswersInv, TypeOK
<1>2. RowIsConsistent'
  BY QueryAssumption DEF RowIsConsistent, ClaimedRow
<1>3. HoldersHaveAnswers'
  BY DEF Claiming, Granted, Goto, AnswersInv, TypeOK, HoldersHaveAnswers
<1>4. AnswersAgree'
  BY DEF AnswersInv, AnswersAgree
<1>5. AnswerFitsQuestion'
  BY DEF AnswersInv, AnswerFitsQuestion
<1>6. \A d \in Callers : (Holds(d)' => d = c) /\ (Owns(d)' => d = c)
  BY DEF Holds, Owns, ClaimedRow
<1>7. RecordersAreFresh /\ StragglersLeaveOne
  BY DEF AnswersInv
<1>8. StagesAreRecorded'
  BY <1>0, <1>6, <1>7 DEF StagesAreRecorded, RecordersAreFresh
<1>9. StragglersLeaveOne'
  BY <1>7 DEF StragglersLeaveOne
<1>10. RecordersAreFresh'
  BY <1>0, <1>6, <1>7, EventTypes DEF RecordersAreFresh
<1> QED
  BY <1>1, <1>2, <1>3, <1>4, <1>5, <1>8, <1>9, <1>10 DEF AnswersInv

LEMMA ClaimCachedIInv ==
  ASSUME AnswersInv, NEW c \in Callers, ClaimCached(c)
  PROVE  AnswersInv'
<1>1. /\ held' = [held EXCEPT ![c] = row.response] /\ row.status = "completed"
      /\ phase' = [phase EXCEPT ![c] = "cached"] /\ row.print = PrintOf[c]
      /\ UNCHANGED <<row, events, cursor, shown, purged, takenOver, late>>
  BY DEF ClaimCached, Goto, Matches, history
<1>2. row.response \in Callers /\ PrintOf[row.response] = PrintOf[c]
  BY <1>1 DEF AnswersInv, TypeOK, Row, RowIsConsistent
<1>3. TypeOK'
  BY <1>1, <1>2 DEF AnswersInv, TypeOK, Phases
<1>4. RowIsConsistent'
  BY <1>1 DEF AnswersInv, RowIsConsistent
<1>5. HoldersHaveAnswers'
  BY <1>1 DEF AnswersInv, TypeOK, HoldersHaveAnswers
<1>6. AnswersAgree'
  BY <1>1 DEF AnswersInv, TypeOK, AnswersAgree
<1>7. AnswerFitsQuestion'
  BY <1>1, <1>2 DEF AnswersInv, TypeOK, AnswerFitsQuestion
<1>8. \A d \in Callers : (Holds(d)' => Holds(d)) /\ (Owns(d)' => Owns(d))
  BY <1>1 DEF Holds, Owns
<1>9. \A d \in Callers :
        /\ phase'[d] \in {"new", "polling", "asking"} => phase[d] \in {"new", "polling", "asking"}
        /\ phase'[d] = "appending" => phase[d] = "appending" \/ Owns(d)
  BY <1>1 DEF AnswersInv, TypeOK
<1>10. Records'
  BY <1>1, <1>8, <1>9, RecordsStay
<1> QED
  BY <1>3, <1>4, <1>5, <1>6, <1>7, <1>10 DEF AnswersInv, Records

LEMMA ReportStageIInv ==
  ASSUME AnswersInv, NEW c \in Callers, ReportStage(c)
  PROVE  AnswersInv'
<1>1. held[c] = None /\ TypeOK
  BY DEF ReportStage, AnswersInv, HoldersHaveAnswers
<1>2. cursor' \in [Callers -> Nat]
  BY <1>1, CursorType DEF ReportStage
<1>3. CASE Owns(c)
  BY <1>1, <1>2, <1>3, GotoIInv DEF ReportStage, Phases
<1>4. CASE ~Owns(c)
  BY <1>1, <1>2, <1>4, GotoIInv DEF ReportStage, Phases
<1> QED
  BY <1>3, <1>4

LEMMA AppendEventIInv ==
  ASSUME AnswersInv, NEW c \in Callers, AppendEvent(c)
  PROVE  AnswersInv'
<1> DEFINE n == cursor[c] + 1
           e == [by |-> c, stage |-> Len(shown[c]) + 1]
<1>1. held[c] = None /\ TypeOK /\ phase[c] = "appending" /\ cursor' \in [Callers -> Nat]
  BY CursorType DEF AppendEvent, AnswersInv, HoldersHaveAnswers
<1>2. CASE ~(row.status # "absent" /\ Vacant(n))
  BY <1>1, <1>2, GotoIInv DEF AppendEvent, Phases, history
<1>3. CASE row.status # "absent" /\ Vacant(n)
  <2>1. /\ events' = EventsWith(n, e) /\ shown' = [shown EXCEPT ![c] = Append(@, e)]
        /\ late' = IF Owns(c) THEN late ELSE [late EXCEPT ![c] = @ + 1]
        /\ phase' = [phase EXCEPT ![c] = "computing"]
        /\ UNCHANGED <<row, held, purged, takenOver>>
    BY <1>3 DEF AppendEvent, Goto
  <2>2. shown[c] \in Seq(Event) /\ Len(shown[c]) \in Nat /\ n \in Nat \ {0}
    BY <1>1, LenProperties DEF TypeOK
  <2>3. e \in Event /\ e.by = c
    BY <2>2, EventTypes
  <2>4. \A i \in 1 .. Len(events) : i = n => events[i].by = None
    BY <1>1, <1>3, NewEventsType DEF Vacant
  <2> HIDE DEF n, e
  <2>5. /\ events' \in Seq(Event) /\ n \in 1 .. Len(events') /\ events'[n] = e
        /\ \A i \in 1 .. Len(events) : /\ i \in 1 .. Len(events')
                                       /\ i # n => events'[i] = events[i]
        /\ \A i \in 1 .. Len(events') :
             events'[i] \in {e, NoEvent} \/ \E k \in 1 .. Len(events) : events'[i] = events[k]
    <3>1. events' = EventsWith(n, e)
      BY <2>1
    <3>2. /\ EventsWith(n, e) \in Seq(Event)
          /\ n \in 1 .. Len(EventsWith(n, e)) /\ EventsWith(n, e)[n] = e
          /\ \A i \in 1 .. Len(events) : /\ i \in 1 .. Len(EventsWith(n, e))
                                         /\ i # n => EventsWith(n, e)[i] = events[i]
          /\ \A i \in 1 .. Len(EventsWith(n, e)) :
               \/ EventsWith(n, e)[i] \in {e, NoEvent}
               \/ \E k \in 1 .. Len(events) : EventsWith(n, e)[i] = events[k]
      <4>1. TypeOK /\ n \in Nat \ {0} /\ e \in Event
        BY <1>1, <2>2, <2>3
      <4> QED
        BY <4>1, EventsWithType, ZenonT(30)
    <3> QED
      BY <3>1, <3>2
  <2>6. /\ shown' \in [Callers -> Seq(Event)]
        /\ \A d \in Callers : d # c => shown'[d] = shown[d]
        /\ \A j \in 1 .. Len(shown'[c]) :
             shown'[c][j] = e \/ \E k \in 1 .. Len(shown[c]) : shown'[c][j] = shown[c][k]
    <3>1. /\ Append(shown[c], e) \in Seq(Event) /\ Len(Append(shown[c], e)) = Len(shown[c]) + 1
          /\ \A j \in 1 .. Len(shown[c]) : Append(shown[c], e)[j] = shown[c][j]
          /\ Append(shown[c], e)[Len(shown[c]) + 1] = e
      BY <2>2, <2>3, AppendProperties
    <3>2. shown'[c] = Append(shown[c], e)
      BY <1>1, <2>1 DEF TypeOK
    <3>3. \A j \in 1 .. Len(shown'[c]) :
            shown'[c][j] = e \/ \E k \in 1 .. Len(shown[c]) : shown'[c][j] = shown[c][k]
      BY <2>2, <3>1, <3>2
    <3> QED
      BY <1>1, <2>1, <3>1, <3>3 DEF TypeOK
  <2>7. /\ late' \in [Callers -> Nat] /\ \A d \in Callers : d # c => late'[d] = late[d]
        /\ IF Owns(c) THEN late'[c] = late[c] ELSE late'[c] = late[c] + 1
    BY <1>1, <2>1 DEF TypeOK
  <2>8. TypeOK'
    BY <1>1, <2>1, <2>5, <2>6, <2>7 DEF TypeOK, Phases
  <2>9. /\ \A d \in Callers : d # c => phase'[d] = phase[d]
        /\ phase'[c] = "computing"
        /\ \A d \in Callers : (Holds(d)' <=> Holds(d)) /\ (Owns(d)' <=> Owns(d))
    BY <1>1, <2>1 DEF TypeOK, Holds, Owns
  <2>10. RecordersAreFresh /\ StagesAreRecorded /\ StragglersLeaveOne /\ late \in [Callers -> Nat]
    BY DEF AnswersInv, TypeOK
  <2>11. StagesAreRecorded'
    <3> SUFFICES ASSUME NEW d \in Callers, Holds(d), NEW j \in 1 .. Len(shown'[d]),
                        shown'[d][j].by = d
                 PROVE  \E i \in 1 .. Len(events') : events'[i] = shown'[d][j]
      BY <2>9 DEF StagesAreRecorded
    <3>1. CASE d = c /\ shown'[d][j] = e
      BY <2>5, <3>1
    <3>2. CASE ~(d = c /\ shown'[d][j] = e)
      <4>1. PICK k \in 1 .. Len(shown[d]) : shown'[d][j] = shown[d][k]
        BY <2>6, <3>2
      <4>2. PICK i \in 1 .. Len(events) : events[i] = shown[d][k]
        BY <2>10, <4>1 DEF StagesAreRecorded
      <4>3. events[i].by = d
        BY <4>1, <4>2
      <4>4. i # n
        BY <2>4, <4>3, QueryAssumption
      <4>5. i \in 1 .. Len(events') /\ events'[i] = events[i]
        BY <2>5, <4>4
      <4> QED
        BY <4>1, <4>2, <4>5
    <3> QED
      BY <3>1, <3>2
  <2>12. StragglersLeaveOne'
    BY <1>1, <2>7, <2>10 DEF StragglersLeaveOne, RecordersAreFresh
  <2>13. RecordersAreFresh'
    <3> SUFFICES ASSUME NEW d \in Callers
                 PROVE  /\ Owns(d) \/ phase'[d] \in {"new", "polling", "asking", "appending"}
                             => late'[d] = 0
                        /\ phase'[d] \in {"new", "polling", "asking"} =>
                             /\ \A i \in 1 .. Len(events') : events'[i].by # d
                             /\ \A j \in 1 .. Len(shown'[d]) : shown'[d][j].by # d
      BY <2>9 DEF RecordersAreFresh
    <3>1. CASE d = c
      BY <2>7, <2>9, <2>10, <3>1 DEF RecordersAreFresh
    <3>2. CASE d # c
      <4>1. e.by # d /\ NoEvent.by # d
        BY <2>3, <3>2, EventTypes
      <4>2. /\ Owns(d) \/ phase[d] \in {"new", "polling", "asking", "appending"} => late[d] = 0
            /\ phase[d] \in {"new", "polling", "asking"} =>
                 /\ \A i \in 1 .. Len(events) : events[i].by # d
                 /\ \A j \in 1 .. Len(shown[d]) : shown[d][j].by # d
        BY <2>10 DEF RecordersAreFresh
      <4>3. ASSUME \A i \in 1 .. Len(events) : events[i].by # d, NEW i \in 1 .. Len(events')
            PROVE  events'[i].by # d
        BY <2>5, <4>1, <4>3
      <4>4. late'[d] = late[d] /\ phase'[d] = phase[d] /\ shown'[d] = shown[d]
        BY <2>6, <2>7, <2>9, <3>2
      <4> QED
        BY <4>2, <4>3, <4>4
    <3> QED
      BY <3>1, <3>2
  <2>14. HoldersHaveAnswers' /\ AnswersAgree' /\ AnswerFitsQuestion'
    BY <1>1, <2>1, <2>9 DEF AnswersInv, HoldersHaveAnswers, AnswersAgree, AnswerFitsQuestion
  <2>15. RowIsConsistent'
    BY <1>3, <2>1 DEF AnswersInv, RowIsConsistent
  <2> QED
    BY <2>8, <2>11, <2>12, <2>13, <2>14, <2>15 DEF AnswersInv
<1> QED
  BY <1>2, <1>3

LEMMA CompleteIInv ==
  ASSUME AnswersInv, NEW c \in Callers, Complete(c)
  PROVE  AnswersInv'
<1>1. CASE Owns(c)
  <2>1. /\ row' = [row EXCEPT !.status = "completed", !.owner = None, !.lease = "none",
                              !.response = c]
        /\ held' = [held EXCEPT ![c] = c]
        /\ phase' = [phase EXCEPT ![c] = "answering"]
        /\ UNCHANGED <<events, cursor, shown, purged, takenOver, late>>
    BY <1>1 DEF Complete, Goto, history
  <2>2. /\ row'.status = "completed" /\ row'.response = c /\ row'.print = row.print
        /\ row'.owner = None /\ row' \in Row
    BY <2>1 DEF AnswersInv, TypeOK, Row
  <2>3. row.status = "processing" /\ row.owner = c /\ row.print = PrintOf[c]
    BY <1>1 DEF Owns, AnswersInv, RowIsConsistent
  <2>4. TypeOK'
    BY <2>1, <2>2 DEF AnswersInv, TypeOK, Phases
  <2>5. RowIsConsistent'
    BY <2>2, <2>3, QueryAssumption DEF RowIsConsistent
  <2>6. HoldersHaveAnswers'
    BY <2>1 DEF AnswersInv, TypeOK, HoldersHaveAnswers
  <2>7. AnswersAgree'
    BY <2>1, <2>2, <2>3 DEF AnswersInv, TypeOK, AnswersAgree
  <2>8. AnswerFitsQuestion'
    BY <2>1 DEF AnswersInv, TypeOK, AnswerFitsQuestion
  <2>10. \A d \in Callers : (Holds(d)' => Holds(d)) /\ (Owns(d)' => Owns(d))
    BY <1>1, <2>2 DEF Holds, Owns
  <2>11. \A d \in Callers :
          /\ phase'[d] \in {"new", "polling", "asking"} => phase[d] \in {"new", "polling", "asking"}
          /\ phase'[d] = "appending" => phase[d] = "appending" \/ Owns(d)
    BY <2>1 DEF AnswersInv, TypeOK
  <2>9. Records'
    BY <2>1, <2>10, <2>11, RecordsStay
  <2> QED
    BY <2>4, <2>5, <2>6, <2>7, <2>8, <2>9 DEF AnswersInv, Records
<1>2. CASE ~Owns(c)
  <2>1. held[c] = None
    BY DEF Complete, AnswersInv, HoldersHaveAnswers
  <2> QED
    BY <1>2, <2>1, CursorType, GotoIInv DEF Complete, Phases, AnswersInv
<1> QED
  BY <1>1, <1>2

\* Steps that change the status or the lease of a row that is not completed.
LEMMA RowStepIInv ==
  ASSUME AnswersInv, UNCHANGED <<events, held, shown, history>>, TypeOK', HoldersHaveAnswers',
         row'.print = row.print, row'.response = row.response,
         \/ row'.status = row.status /\ row'.owner = row.owner
         \/ row.status = "processing" /\ row'.status = "failed",
         \A d \in Callers : phase'[d] = phase[d] \/ phase'[d] = "failed"
  PROVE  AnswersInv'
<1>1. RowIsConsistent'
  BY DEF AnswersInv, RowIsConsistent
<1>2. AnswersAgree' /\ AnswerFitsQuestion'
  BY DEF AnswersInv, AnswersAgree, AnswerFitsQuestion, history
<1>3. \A d \in Callers : (Holds(d)' => Holds(d)) /\ (Owns(d)' => Owns(d))
  BY DEF Holds, Owns
<1>4. Records'
  BY <1>3, RecordsStay DEF history
<1> QED
  BY <1>1, <1>2, <1>4 DEF AnswersInv, Records

LEMMA FailIInv ==
  ASSUME AnswersInv, NEW c \in Callers, Fail(c)
  PROVE  AnswersInv'
<1>1. phase' = [phase EXCEPT ![c] = "failed"] /\ phase[c] = "failing"
      /\ UNCHANGED <<events, held, cursor, shown, purged, takenOver, late>>
      /\ \A d \in Callers : phase'[d] = phase[d] \/ phase'[d] = "failed"
  BY DEF Fail, Goto, history, AnswersInv, TypeOK
<1>2. HoldersHaveAnswers'
  BY <1>1 DEF AnswersInv, TypeOK, HoldersHaveAnswers
<1>3. CASE Owns(c)
  <2>1. row' = [row EXCEPT !.status = "failed", !.owner = None, !.lease = "none"]
    BY <1>3 DEF Fail
  <2>2. TypeOK'
    BY <1>1, <2>1 DEF AnswersInv, TypeOK, Row, Phases
  <2>3. /\ row'.print = row.print /\ row'.response = row.response
        /\ row.status = "processing" /\ row'.status = "failed"
    BY <1>3, <2>1 DEF Owns, AnswersInv, TypeOK, Row
  <2> QED
    BY <1>1, <1>2, <2>2, <2>3, RowStepIInv DEF history
<1>4. CASE ~Owns(c)
  <2>1. held[c] = None /\ row' = row
    BY <1>1, <1>4 DEF Fail, AnswersInv, HoldersHaveAnswers
  <2> QED
    BY <1>1, <2>1, CursorType, GotoIInv DEF Fail, Phases, AnswersInv
<1> QED
  BY <1>3, <1>4

LEMMA ClockIInv ==
  ASSUME AnswersInv, LeaseExpires
  PROVE  AnswersInv'
<1>1. /\ row' \in Row /\ row'.print = row.print /\ row'.response = row.response
      /\ row'.status = row.status /\ row'.owner = row.owner
  BY DEF LeaseExpires, AnswersInv, TypeOK, Row
<1>2. UNCHANGED <<events, callVars, history>>
  BY DEF LeaseExpires
<1>3. TypeOK' /\ HoldersHaveAnswers'
  BY <1>1, <1>2 DEF AnswersInv, TypeOK, HoldersHaveAnswers, callVars, history
<1> QED
  BY <1>1, <1>2, <1>3, RowStepIInv DEF callVars

LEMMA PurgeIInv == AnswersInv /\ Purge => AnswersInv'
<1> SUFFICES ASSUME AnswersInv, Purge PROVE AnswersInv'
  OBVIOUS
<1>1. row' = NoRow /\ events' = <<>> /\ purged' = 1 /\ UNCHANGED <<callVars, takenOver, late>>
  BY DEF Purge
<1>2. TypeOK'
  BY <1>1, EmptySeq DEF AnswersInv, TypeOK, Row, NoRow, callVars
<1>3. RowIsConsistent' /\ AnswersAgree'
  BY <1>1 DEF RowIsConsistent, AnswersAgree, NoRow
<1>4. HoldersHaveAnswers' /\ AnswerFitsQuestion'
  BY <1>1 DEF AnswersInv, HoldersHaveAnswers, AnswerFitsQuestion, callVars
<1>5. Len(events') = 0 /\ \A d \in Callers : ~Holds(d)' /\ ~Owns(d)'
  BY <1>1, EmptySeq DEF Holds, Owns, NoRow
<1>6. StagesAreRecorded' /\ StragglersLeaveOne'
  BY <1>1, <1>5 DEF AnswersInv, StagesAreRecorded, StragglersLeaveOne
<1>7. RecordersAreFresh'
  BY <1>1, <1>5 DEF AnswersInv, RecordersAreFresh, callVars
<1> QED
  BY <1>2, <1>3, <1>4, <1>6, <1>7 DEF AnswersInv

LEMMA StepIInv == AnswersInv /\ [Next]_vars => AnswersInv'
<1> SUFFICES ASSUME AnswersInv, [Next]_vars PROVE AnswersInv'
  OBVIOUS
<1>0. /\ cursor \in [Callers -> Nat]
      /\ \A c \in Callers : [cursor EXCEPT ![c] = 0] \in [Callers -> Nat]
  BY CursorType DEF AnswersInv, TypeOK
<1>1. ASSUME NEW c \in Callers, ClaimNew(c) PROVE AnswersInv'
  <2>1. /\ events' \in Seq(Event) /\ Len(events') = 0 /\ row.status # "completed"
        /\ takenOver' \in {0, 1}
    BY <1>1, EmptySeq DEF ClaimNew, Gone, history, AnswersInv, TypeOK
  <2> QED
    BY <1>1, <2>1, GrantIInv DEF ClaimNew, history
<1>2. ASSUME NEW c \in Callers, ClaimConflict(c) PROVE AnswersInv'
  BY <1>0, <1>2, GotoIInv DEF ClaimConflict, Phases
<1>3. ASSUME NEW c \in Callers, ClaimCached(c) PROVE AnswersInv'
  BY <1>3, ClaimCachedIInv
<1>4. ASSUME NEW c \in Callers, ClaimTakeover(c) PROVE AnswersInv'
  <2>1. row.status # "completed" /\ TypeOK /\ takenOver' \in {0, 1}
    BY <1>4 DEF ClaimTakeover, Unattended, AnswersInv
  <2>2. PICK n \in 0 .. Len(events) : events' = EventsAfter(n)
    BY <1>4 DEF ClaimTakeover
  <2>3. /\ events' \in Seq(Event)
        /\ \A i \in 1 .. Len(events') :
             events'[i] = NoEvent \/ \E k \in 1 .. Len(events) : events'[i] = events[k]
    BY <2>1, <2>2, EventsAfterType
  <2> QED
    BY <1>4, <2>1, <2>3, GrantIInv DEF ClaimTakeover
<1>5. ASSUME NEW c \in Callers, ClaimWaits(c) PROVE AnswersInv'
  <2>1. held[c] = None
    BY <1>5 DEF ClaimWaits, Claiming, AnswersInv, HoldersHaveAnswers
  <2> QED
    BY <1>0, <1>5, <2>1, GotoIInv DEF ClaimWaits, Claiming, Phases
<1>6. ASSUME NEW c \in Callers, ListEvents(c) PROVE AnswersInv'
  BY <1>6, ListEventsIInv
<1>7. ASSUME NEW c \in Callers, ReportStage(c) \/ AppendEvent(c) PROVE AnswersInv'
  BY <1>7, ReportStageIInv, AppendEventIInv
<1>8. ASSUME NEW c \in Callers, FinishComputing(c) PROVE AnswersInv'
  <2>1. held[c] = None
    BY <1>8 DEF FinishComputing, AnswersInv, HoldersHaveAnswers
  <2> QED
    BY <1>0, <1>8, <2>1, GotoIInv DEF FinishComputing, Phases
<1>9. ASSUME NEW c \in Callers, ComputingRaises(c) PROVE AnswersInv'
  <2>1. held[c] = None
    BY <1>9 DEF ComputingRaises, AnswersInv, HoldersHaveAnswers
  <2> QED
    BY <1>0, <1>9, <2>1, GotoIInv DEF ComputingRaises, Phases
<1>10. ASSUME NEW c \in Callers, Complete(c) PROVE AnswersInv'
  BY <1>10, CompleteIInv
<1>11. ASSUME NEW c \in Callers, Answer(c) PROVE AnswersInv'
  BY <1>0, <1>11, GotoIInv DEF Answer, Phases
<1>12. ASSUME NEW c \in Callers, Fail(c) PROVE AnswersInv'
  BY <1>12, FailIInv
<1>13. ASSUME NEW c \in Callers, WaitGivesUp(c) \/ AnswerRaises(c) \/ Crash(c) PROVE AnswersInv'
  BY <1>0, <1>13, GotoIInv DEF WaitGivesUp, AnswerRaises, Crash, Phases
<1>14. CASE LeaseExpires
  BY <1>14, ClockIInv
<1>15. CASE Purge
  BY <1>15, PurgeIInv
<1>16. CASE UNCHANGED vars
  <2>1. UNCHANGED <<row, events, phase, held, cursor, shown, purged, takenOver, late>>
    BY <1>16 DEF vars
  <2>2. Records'
    BY <2>1, RecordsStay DEF Holds, Owns
  <2> QED
    BY <2>1, <2>2, SameRowIInv DEF history, AnswersInv, TypeOK, HoldersHaveAnswers
<1> QED
  BY <1>1, <1>2, <1>3, <1>4, <1>5, <1>6, <1>7, <1>8, <1>9, <1>10, <1>11, <1>12, <1>13,
     <1>14, <1>15, <1>16 DEF Next, Proceed, Claim

-----------------------------------------------------------------------------

\* The part of the inductive invariant about rows and answers.
LEMMA AnswersInvariant == Spec => []AnswersInv
BY InitIInv, StepIInv, PTL DEF Spec

\* Until the row is purged, whoever answers answers what was saved.
THEOREM OneAnswer == Spec => []AnswersAgree
<1>1. AnswersInv => AnswersAgree
  BY DEF AnswersInv
<1> QED
  BY <1>1, AnswersInvariant, PTL

\* An answer is only given to a call that asked the same question as the same
\* principal, even after purges and takeovers.
THEOREM AnswersFit == Spec => []AnswerFitsQuestion
<1>1. AnswersInv => AnswerFitsQuestion
  BY DEF AnswersInv
<1> QED
  BY <1>1, AnswersInvariant, PTL

\* The stages that the running attempt, or the one whose answer stands, has streamed
\* stay recorded, and a call that lost the row adds at most one of its own.
THEOREM StagesSurviveStragglers == Spec => [](StagesAreRecorded /\ StragglersLeaveOne)
<1>1. AnswersInv => StagesAreRecorded /\ StragglersLeaveOne
  BY DEF AnswersInv
<1> QED
  BY <1>1, AnswersInvariant, PTL

-----------------------------------------------------------------------------
(* Replays.                                                                *)

LEMMA InitReplays == Init => ReplaysKeepUp
BY DEF Init, ReplaysKeepUp, Replayed

\* A call that stands still, while the row keeps its status and its events.
LEMMA StandsStill ==
  ASSUME NEW d \in Callers, Replayed(d), row' = row, events' = events,
         phase'[d] = phase[d], cursor'[d] = cursor[d], shown'[d] = shown[d]
  PROVE  Replayed(d)'
BY DEF Replayed, Owns

\* A call that leaves for a phase of which nothing is claimed.
LEMMA Leaves ==
  ASSUME NEW d \in Callers, phase'[d] \in {"failing", "failed"}
  PROVE  Replayed(d)'
BY DEF Replayed

\* The prefix a call has seen stays one when an event is appended.
LEMMA PrefixOfAppend ==
  ASSUME NEW s \in Seq(Event), NEW e \in Event, NEW n \in Nat, n <= Len(s)
  PROVE  SubSeq(Append(s, e), 1, n) = SubSeq(s, 1, n) /\ n <= Len(Append(s, e))
<1>1. Append(s, e) = s \o <<e>> /\ <<e>> \in Seq(Event)
  BY AppendIsConcat
<1>2. Len(s) \in Nat /\ Len(Append(s, e)) = Len(s) + 1
  BY LenProperties, AppendProperties
<1>3. CASE n = 0
  BY <1>2, <1>3, SubSeqEmpty
<1>4. CASE n >= 1
  <2>1. 1 \in 1 .. Len(s) /\ n \in 1 .. Len(s)
    BY <1>2, <1>4
  <2> QED
    BY <1>1, <1>2, <2>1, SubSeqOfConcat1
<1> QED
  BY <1>3, <1>4

\* A listing completes the prefix.
LEMMA ListingCompletes ==
  ASSUME NEW s \in Seq(Event), NEW n \in Nat, n <= Len(s)
  PROVE  SubSeq(s, 1, n) \o SubSeq(s, n + 1, Len(s)) = s
<1>1. Len(s) \in Nat
  BY LenProperties
<1>2. 1 \in 1 .. Len(s) + 1 /\ n \in 1 - 1 .. Len(s) /\ Len(s) \in n .. Len(s)
  BY <1>1
<1>3. SubSeq(s, 1, n) \o SubSeq(s, n + 1, Len(s)) = SubSeq(s, 1, Len(s))
  BY <1>2, ConcatAdjacentSubSeq
<1> QED
  BY <1>3, SubSeqFull

LEMMA ClaimReplays ==
  ASSUME AnswersInv, ReplaysKeepUp, NEW c \in Callers, Claim(c)
  PROVE  ReplaysKeepUp'
<1> SUFFICES ASSUME purged' = 0, takenOver' = 0, NEW d \in Callers
             PROVE  Replayed(d)'
  BY DEF ReplaysKeepUp
<1>1. CASE ClaimNew(c)
  <2>1. purged = 0 /\ takenOver = 0 /\ row.status = "absent"
    BY <1>1 DEF ClaimNew, Gone, history
  <2>2. \A e \in Callers : Replayed(e)
    BY <2>1 DEF ReplaysKeepUp
  <2>3. phase[c] = "new"
    BY <1>1, <2>1, <2>2 DEF ClaimNew, Claiming, Replayed
  <2>4. /\ phase' = [phase EXCEPT ![c] = "computing"] /\ UNCHANGED <<cursor, shown>>
        /\ row' = ClaimedRow(c) /\ events' = <<>>
    BY <1>1, <2>3 DEF ClaimNew, Granted, Goto
  <2>5. CASE d = c
    BY <2>2, <2>3, <2>4, <2>5 DEF AnswersInv, TypeOK, Replayed, Owns, ClaimedRow
  <2>6. CASE d # c
    <3>1. phase'[d] = phase[d] /\ phase[d] \in {"new", "failing", "failed"}
      BY <2>1, <2>2, <2>4, <2>6 DEF AnswersInv, TypeOK, Phases, Replayed, Owns
    <3> QED
      BY <2>2, <2>4, <3>1 DEF Replayed
  <2> QED
    BY <2>5, <2>6
<1>2. CASE ClaimTakeover(c)
  BY <1>2 DEF ClaimTakeover
<1>3. CASE ClaimConflict(c)
  <2>1. \A e \in Callers : Replayed(e)
    BY <1>3 DEF ClaimConflict, history, ReplaysKeepUp
  <2>2. CASE d = c
    BY <1>3, <2>2, Leaves DEF ClaimConflict, Goto, AnswersInv, TypeOK
  <2>3. CASE d # c
    BY <1>3, <2>1, <2>3, StandsStill DEF ClaimConflict, Goto, AnswersInv, TypeOK
  <2> QED
    BY <2>2, <2>3
<1>4. CASE ClaimCached(c) \/ ClaimWaits(c)
  <2>1. \A e \in Callers : Replayed(e)
    BY <1>4 DEF ClaimCached, ClaimWaits, history, ReplaysKeepUp
  <2>2. /\ row' = row /\ events' = events /\ cursor' = cursor /\ shown' = shown
        /\ phase[c] \in {"new", "asking"} /\ row.status # "absent"
        /\ \/ phase' = [phase EXCEPT ![c] = "polling"]
           \/ phase' = [phase EXCEPT ![c] = "cached"] /\ row.status = "completed"
    BY <1>4 DEF ClaimCached, ClaimWaits, Claiming, Goto, Matches
  <2>3. CASE d = c
    <3>1. phase'[c] \in {"polling", "cached"}
          /\ (phase'[c] = "cached" => row.status = "completed")
      BY <2>2 DEF AnswersInv, TypeOK
    <3>2. cursor[c] <= Len(events) /\ shown[c] = SubSeq(events, 1, cursor[c])
      BY <2>1, <2>2, SubSeqEmpty, LenProperties DEF AnswersInv, TypeOK, Replayed
    <3> QED
      BY <2>2, <2>3, <3>1, <3>2 DEF Replayed
  <2>4. CASE d # c
    BY <2>1, <2>2, <2>4, StandsStill DEF AnswersInv, TypeOK
  <2> QED
    BY <2>3, <2>4
<1> QED
  BY <1>1, <1>2, <1>3, <1>4 DEF Claim

LEMMA ListReplays ==
  ASSUME AnswersInv, ReplaysKeepUp, NEW c \in Callers, ListEvents(c)
  PROVE  ReplaysKeepUp'
<1> SUFFICES ASSUME purged = 0, takenOver = 0, NEW d \in Callers
             PROVE  Replayed(d)'
  BY DEF ReplaysKeepUp, ListEvents, history
<1>1. \A e \in Callers : Replayed(e)
  BY DEF ReplaysKeepUp
<1>2. phase[c] \in {"polling", "cached"} /\ row' = row /\ events' = events
  BY <1>1 DEF ListEvents, Replayed
<1>3. CASE d = c
  <2>1. /\ row.status # "absent" /\ cursor[c] <= Len(events)
        /\ shown[c] = SubSeq(events, 1, cursor[c])
        /\ phase[c] = "cached" => row.status = "completed"
    BY <1>1, <1>2 DEF Replayed
  <2>2. shown[c] \o NewEvents(c) = events
    BY <2>1, ListingCompletes DEF NewEvents, AnswersInv, TypeOK
  <2>3. Len(events) \in Nat /\ SubSeq(events, 1, Len(events)) = events
    BY LenProperties, SubSeqFull DEF AnswersInv, TypeOK
  <2>4. phase[c] = "polling" => cursor'[c] = Len(events)
    BY <2>1, <2>3 DEF ListEvents, AnswersInv, TypeOK
  <2>5. shown'[c] = events
    BY <2>2 DEF ListEvents, AnswersInv, TypeOK
  <2>6. \/ phase[c] = "polling" /\ phase'[c] = "asking"
        \/ phase[c] = "cached" /\ phase'[c] = "answering"
    BY <1>2 DEF ListEvents, Goto, AnswersInv, TypeOK
  <2> QED
    BY <1>2, <1>3, <2>1, <2>3, <2>4, <2>5, <2>6 DEF Replayed
<1>4. CASE d # c
  BY <1>1, <1>2, <1>4, StandsStill DEF ListEvents, Goto, AnswersInv, TypeOK
<1> QED
  BY <1>3, <1>4

\* The owner: nobody else computes or holds an answer.
LEMMA OwnerReplays ==
  ASSUME AnswersInv, ReplaysKeepUp, NEW c \in Callers,
         ReportStage(c) \/ AppendEvent(c) \/ FinishComputing(c) \/ Complete(c)
  PROVE  ReplaysKeepUp'
<1> SUFFICES ASSUME purged = 0, takenOver = 0, NEW d \in Callers
             PROVE  Replayed(d)'
  BY DEF ReplaysKeepUp, ReportStage, AppendEvent, FinishComputing, Complete, history
<1>1. \A e \in Callers : Replayed(e)
  BY DEF ReplaysKeepUp
<1>2. phase[c] \in {"computing", "appending", "saving"} /\ Owns(c) /\ shown[c] = events
  BY <1>1 DEF ReportStage, AppendEvent, FinishComputing, Complete, Replayed
<1>3. CASE FinishComputing(c) \/ ReportStage(c)
  <2>1. /\ row' = row /\ events' = events /\ shown' = shown
        /\ \/ phase' = [phase EXCEPT ![c] = "saving"] /\ cursor' = cursor
           \/ /\ phase' = [phase EXCEPT ![c] = "appending"]
              /\ cursor' = [cursor EXCEPT ![c] = Len(events)]
    BY <1>2, <1>3 DEF FinishComputing, ReportStage, Goto
  <2>2. CASE d = c
    <3>1. /\ phase'[c] \in {"appending", "saving"}
          /\ phase'[c] = "appending" => cursor'[c] = Len(events)
      BY <2>1 DEF AnswersInv, TypeOK
    <3> QED
      BY <1>2, <2>1, <2>2, <3>1 DEF Replayed, Owns
  <2>3. CASE d # c
    BY <1>1, <2>1, <2>3, StandsStill DEF AnswersInv, TypeOK
  <2> QED
    BY <2>2, <2>3
<1>4. CASE AppendEvent(c)
  <2> DEFINE e == [by |-> c, stage |-> Len(shown[c]) + 1]
  <2>1. cursor[c] = Len(events) /\ Len(events) \in Nat /\ e \in Event /\ TypeOK
    BY <1>1, <1>2, <1>4, EventTypes, LenProperties DEF AppendEvent, Replayed, AnswersInv, TypeOK
  <2>2. row.status # "absent" /\ Vacant(cursor[c] + 1)
    BY <1>2, <2>1 DEF Owns, Vacant
  <2>3. /\ events' = EventsWith(cursor[c] + 1, e)
        /\ shown' = [shown EXCEPT ![c] = Append(@, e)] /\ row' = row
        /\ phase' = [phase EXCEPT ![c] = "computing"] /\ cursor' = [cursor EXCEPT ![c] = 0]
    BY <1>4, <2>2 DEF AppendEvent, Goto
  <2> HIDE DEF e
  <2>4. events' = Append(events, e)
    <3>1. cursor[c] + 1 \in Nat \ {0} /\ cursor[c] + 1 = Len(events) + 1
      BY <2>1
    <3> QED
      BY <2>1, <2>3, <3>1, EventsWithType
  <2>5. CASE d = c
    <3>1. phase'[c] = "computing" /\ shown'[c] = Append(shown[c], e)
      BY <2>1, <2>3 DEF TypeOK
    <3> QED
      BY <1>2, <2>3, <2>4, <2>5, <3>1 DEF Replayed, Owns
  <2>6. CASE d # c
    <3>1. phase[d] \notin {"computing", "appending", "saving", "cached", "answering", "done"}
      BY <1>1, <1>2, <2>6 DEF Replayed, Owns
    <3>2. phase[d] \in {"polling", "asking"} =>
            cursor[d] <= Len(events') /\ shown[d] = SubSeq(events', 1, cursor[d])
      BY <1>1, <2>1, <2>4, PrefixOfAppend DEF TypeOK, Replayed
    <3>3. shown'[d] = shown[d] /\ cursor'[d] = cursor[d] /\ phase'[d] = phase[d]
      BY <2>1, <2>3, <2>6 DEF TypeOK
    <3> QED
      BY <1>1, <2>3, <3>1, <3>2, <3>3 DEF Replayed
  <2> QED
    BY <2>5, <2>6
<1>5. CASE Complete(c)
  <2>1. /\ row'.status = "completed" /\ phase' = [phase EXCEPT ![c] = "answering"]
        /\ events' = events /\ cursor' = cursor /\ shown' = shown
    BY <1>2, <1>5 DEF Complete, Goto, AnswersInv, TypeOK, Row
  <2>2. CASE d = c
    BY <1>2, <2>1, <2>2 DEF AnswersInv, TypeOK, Replayed
  <2>3. CASE d # c
    <3>1. phase[d] \notin {"computing", "appending", "saving"} /\ phase'[d] = phase[d]
      BY <1>1, <1>2, <2>1, <2>3 DEF Replayed, Owns, AnswersInv, TypeOK
    <3> QED
      BY <1>1, <2>1, <3>1 DEF Replayed
  <2> QED
    BY <2>2, <2>3
<1> QED
  BY <1>3, <1>4, <1>5

\* A call that ends, answers or fails.
LEMMA EndReplays ==
  ASSUME AnswersInv, ReplaysKeepUp, NEW c \in Callers,
         Answer(c) \/ WaitGivesUp(c) \/ ComputingRaises(c) \/ AnswerRaises(c) \/ Crash(c)
  PROVE  ReplaysKeepUp'
<1> SUFFICES ASSUME purged = 0, takenOver = 0, NEW d \in Callers
             PROVE  Replayed(d)'
  BY DEF ReplaysKeepUp, Answer, WaitGivesUp, ComputingRaises, AnswerRaises, Crash, history
<1>1. \A e \in Callers : Replayed(e)
  BY DEF ReplaysKeepUp
<1>2. /\ row' = row /\ events' = events /\ shown' = shown
      /\ cursor' = cursor \/ cursor' = [cursor EXCEPT ![c] = 0]
  BY DEF Answer, WaitGivesUp, ComputingRaises, AnswerRaises, Crash
<1>3. \/ phase' = [phase EXCEPT ![c] = "failing"]
      \/ phase' = [phase EXCEPT ![c] = "failed"]
      \/ phase[c] = "answering" /\ phase' = [phase EXCEPT ![c] = "done"]
  BY DEF Answer, WaitGivesUp, ComputingRaises, AnswerRaises, Crash, Goto
<1>4. CASE d = c
  BY <1>1, <1>2, <1>3, <1>4, Leaves DEF AnswersInv, TypeOK, Replayed
<1>5. CASE d # c
  BY <1>1, <1>2, <1>3, <1>5, StandsStill DEF AnswersInv, TypeOK
<1> QED
  BY <1>4, <1>5

LEMMA FailReplays ==
  ASSUME AnswersInv, ReplaysKeepUp, NEW c \in Callers, Fail(c)
  PROVE  ReplaysKeepUp'
<1> SUFFICES ASSUME purged = 0, takenOver = 0, NEW d \in Callers
             PROVE  Replayed(d)'
  BY DEF ReplaysKeepUp, Fail, history
<1>1. \A e \in Callers : Replayed(e)
  BY DEF ReplaysKeepUp
<1>2. /\ phase[c] = "failing" /\ phase' = [phase EXCEPT ![c] = "failed"]
      /\ events' = events /\ cursor' = cursor /\ shown' = shown
  BY DEF Fail, Goto
<1>3. CASE ~Owns(c)
  <2>1. row' = row
    BY <1>3 DEF Fail
  <2>2. CASE d = c
    BY <1>2, <2>2, Leaves DEF AnswersInv, TypeOK
  <2>3. CASE d # c
    BY <1>1, <1>2, <2>1, <2>3, StandsStill DEF AnswersInv, TypeOK
  <2> QED
    BY <2>2, <2>3
<1>4. CASE Owns(c)
  <2>1. row'.status = "failed"
    BY <1>4 DEF Fail, AnswersInv, TypeOK, Row
  <2>2. CASE d = c
    BY <1>2, <2>2, Leaves DEF AnswersInv, TypeOK
  <2>3. CASE d # c
    <3>1. phase[d] \notin {"computing", "appending", "saving", "cached", "answering", "done"}
      BY <1>1, <1>4, <2>3 DEF Replayed, Owns
    <3>2. phase'[d] = phase[d]
      BY <1>2, <2>3 DEF AnswersInv, TypeOK
    <3> QED
      BY <1>1, <1>2, <2>1, <3>1, <3>2 DEF Replayed
  <2> QED
    BY <2>2, <2>3
<1> QED
  BY <1>3, <1>4

LEMMA ClockReplays ==
  ASSUME AnswersInv, ReplaysKeepUp, LeaseExpires \/ Purge
  PROVE  ReplaysKeepUp'
<1> SUFFICES ASSUME purged' = 0, takenOver' = 0, NEW d \in Callers
             PROVE  Replayed(d)'
  BY DEF ReplaysKeepUp
<1>1. LeaseExpires
  BY DEF Purge
<1>2. /\ row'.status = row.status /\ row'.owner = row.owner
      /\ events' = events /\ UNCHANGED <<callVars, history>>
  BY <1>1 DEF LeaseExpires, AnswersInv, TypeOK, Row
<1>3. Replayed(d)
  BY <1>2 DEF ReplaysKeepUp, history
<1> QED
  BY <1>2, <1>3 DEF callVars, Replayed, Owns

LEMMA StepReplays == AnswersInv /\ ReplaysKeepUp /\ [Next]_vars => ReplaysKeepUp'
<1> SUFFICES ASSUME AnswersInv, ReplaysKeepUp, [Next]_vars PROVE ReplaysKeepUp'
  OBVIOUS
<1>1. CASE UNCHANGED vars
  BY <1>1 DEF vars, ReplaysKeepUp, Replayed, Owns
<1>2. CASE \E c \in Callers :
             Proceed(c) \/ WaitGivesUp(c) \/ ComputingRaises(c) \/ AnswerRaises(c) \/ Crash(c)
  BY <1>2, ClaimReplays, ListReplays, OwnerReplays, EndReplays, FailReplays DEF Proceed
<1>3. CASE LeaseExpires \/ Purge
  BY <1>3, ClockReplays
<1> QED
  BY <1>1, <1>2, <1>3 DEF Next

\* A call that answers has streamed every recorded stage, once and in order, if
\* the row was neither taken over nor purged.
THEOREM ReplaysAreComplete == Spec => []ReplayIsComplete
<1>1. ReplaysKeepUp => ReplayIsComplete
  BY DEF ReplaysKeepUp, Replayed, ReplayIsComplete
<1> QED
  BY <1>1, InitReplays, StepReplays, AnswersInvariant, PTL DEF Spec

-----------------------------------------------------------------------------
(* Refinement of AnswerOnce.                                               *)

Standing == IF row.status = "completed" THEN row.response ELSE None

\* A step that tells nobody anything, and leaves the standing answer or drops it.
LEMMA NothingTold ==
  ASSUME held' = held, Standing' = Standing \/ Standing' = None
  PROVE  [Once!ANext]_(Once!avars)
BY DEF Once!ANext, Once!avars, Once!Forget, Standing

LEMMA CachedLearns ==
  ASSUME AnswersInv, NEW c \in Callers, ClaimCached(c)
  PROVE  Once!Learn(c)
<1>1. row.status = "completed" /\ row.response # None
  BY DEF ClaimCached, AnswersInv, RowIsConsistent
<1>2. held[c] = None
  BY DEF ClaimCached, Claiming, AnswersInv, HoldersHaveAnswers
<1> QED
  BY <1>1, <1>2 DEF ClaimCached, Once!Learn, Once!Tell

LEMMA CompleteDecides ==
  ASSUME AnswersInv, NEW c \in Callers, Complete(c), Owns(c)
  PROVE  Once!Decide(c)
<1>1. row'.status = "completed" /\ row'.response = c
  BY DEF Complete, AnswersInv, TypeOK, Row
<1>2. row.status # "completed" /\ held' = [held EXCEPT ![c] = c]
  BY DEF Complete, Owns
<1>3. held[c] = None
  BY DEF Complete, AnswersInv, HoldersHaveAnswers
<1> QED
  BY <1>1, <1>2, <1>3 DEF Once!Decide, Once!Tell

LEMMA StepsImplement == AnswersInv /\ [Next]_vars => [Once!ANext]_(Once!avars)
<1> SUFFICES ASSUME AnswersInv, [Next]_vars PROVE [Once!ANext]_(Once!avars)
  OBVIOUS
<1>1. ASSUME NEW c \in Callers, ClaimNew(c) \/ ClaimTakeover(c)
      PROVE  [Once!ANext]_(Once!avars)
  BY <1>1, NothingTold DEF ClaimNew, ClaimTakeover, ClaimedRow, Standing
<1>2. ASSUME NEW c \in Callers, ClaimCached(c) PROVE [Once!ANext]_(Once!avars)
  BY <1>2, CachedLearns DEF Once!ANext
<1>3. ASSUME NEW c \in Callers, Complete(c), Owns(c) PROVE [Once!ANext]_(Once!avars)
  BY <1>3, CompleteDecides DEF Once!ANext
<1>4. ASSUME NEW c \in Callers, Complete(c), ~Owns(c) PROVE [Once!ANext]_(Once!avars)
  BY <1>4, NothingTold DEF Complete, Standing
<1>5. ASSUME NEW c \in Callers,
             ClaimConflict(c) \/ ClaimWaits(c) \/ ListEvents(c) \/ ReportStage(c)
               \/ AppendEvent(c) \/ FinishComputing(c) \/ Answer(c) \/ WaitGivesUp(c) \/ ComputingRaises(c)
               \/ AnswerRaises(c) \/ Crash(c)
      PROVE  [Once!ANext]_(Once!avars)
  BY <1>5, NothingTold DEF ClaimConflict, ClaimWaits, ListEvents, ReportStage, AppendEvent,
     FinishComputing, Answer, WaitGivesUp, ComputingRaises, AnswerRaises, Crash, Standing
<1>6. ASSUME NEW c \in Callers, Fail(c) PROVE [Once!ANext]_(Once!avars)
  <2>1. row'.status # "completed" \/ row' = row
    BY <1>6 DEF Fail, AnswersInv, TypeOK, Row
  <2> QED
    BY <1>6, <2>1, NothingTold DEF Fail, Standing
<1>7. CASE LeaseExpires
  <2>1. row'.status = row.status /\ row'.response = row.response
    BY <1>7 DEF LeaseExpires, AnswersInv, TypeOK, Row
  <2> QED
    BY <1>7, <2>1, NothingTold DEF LeaseExpires, callVars, Standing
<1>8. CASE Purge
  BY <1>8, NothingTold DEF Purge, NoRow, callVars, Standing
<1>9. CASE UNCHANGED vars
  BY <1>9, NothingTold DEF vars, Standing
<1> QED
  BY <1>1, <1>2, <1>3, <1>4, <1>5, <1>6, <1>7, <1>8, <1>9 DEF Next, Proceed, Claim

\* Leases, takeovers, replays and purges implement an answer that is decided
\* once and told to everybody.
THEOREM ResultsImplementAnswerOnce == Spec => ImplementsAnswerOnce
<1>1. Init => Once!AInit
  BY DEF Init, NoRow, Once!AInit
<1> QED
  BY <1>1, StepsImplement, AnswersInvariant, PTL DEF Spec, ImplementsAnswerOnce, Once!ASpec

-----------------------------------------------------------------------------
(* Whoever waits, waits for somebody else's work.                          *)

\* Where the owner of a row in progress may be.
Working == {"owning", "computing", "appending", "saving", "failing", "failed"}

\* A call that works, or has failed, stays with its work or fails.
LEMMA GoOnWaiters ==
  ASSUME TypeOK, WaitersHaveAnOwner, row' = row, NEW c \in Callers, NEW p, Goto(c, p),
         phase[c] \in Working =>
           p \in Working
  PROVE  WaitersHaveAnOwner'
<1> SUFFICES ASSUME row.status = "processing"
             PROVE  phase'[row.owner] \in Working
  BY DEF WaitersHaveAnOwner, Working
<1>1. row.owner \in Callers
  BY DEF WaitersHaveAnOwner, TypeOK, Row
<1> QED
  BY <1>1 DEF WaitersHaveAnOwner, TypeOK, Goto, Working

LEMMA StepWaiters == TypeOK /\ WaitersHaveAnOwner /\ [Next]_vars => WaitersHaveAnOwner'
<1> SUFFICES ASSUME TypeOK, WaitersHaveAnOwner, [Next]_vars PROVE WaitersHaveAnOwner'
  OBVIOUS
<1>1. CASE UNCHANGED vars
  BY <1>1 DEF vars, WaitersHaveAnOwner
<1>2. ASSUME NEW c \in Callers, ClaimNew(c) \/ ClaimTakeover(c)
      PROVE  WaitersHaveAnOwner'
  <2>1. row'.owner = c /\ row'.lease = "live"
    BY <1>2 DEF ClaimNew, ClaimTakeover, ClaimedRow
  <2>2. phase'[c] \in {"owning", "computing"}
    BY <1>2 DEF ClaimNew, ClaimTakeover, Granted, Goto, TypeOK
  <2> QED
    BY <2>1, <2>2, QueryAssumption DEF WaitersHaveAnOwner
<1>3. ASSUME NEW c \in Callers, ClaimConflict(c) \/ ClaimCached(c) \/ ClaimWaits(c)
      PROVE  WaitersHaveAnOwner'
  BY <1>3, GoOnWaiters DEF ClaimConflict, ClaimCached, ClaimWaits, Claiming, Working
<1>4. ASSUME NEW c \in Callers, ListEvents(c)
      PROVE  WaitersHaveAnOwner'
  <2>1. CASE phase[c] = "owning"
    BY <1>4, <2>1, GoOnWaiters DEF ListEvents, Working
  <2>2. CASE phase[c] # "owning"
    BY <1>4, <2>2, GoOnWaiters DEF ListEvents, Working
  <2> QED
    BY <2>1, <2>2
<1>5. ASSUME NEW c \in Callers, ReportStage(c) \/ AppendEvent(c)
      PROVE  WaitersHaveAnOwner'
  <2>1. PICK p \in {"computing", "appending", "failing"} : Goto(c, p) /\ row' = row
    BY <1>5 DEF ReportStage, AppendEvent
  <2> QED
    BY <2>1, GoOnWaiters DEF Working
<1>6. ASSUME NEW c \in Callers, \/ FinishComputing(c) \/ ComputingRaises(c)
                                \/ Answer(c) \/ AnswerRaises(c)
      PROVE  WaitersHaveAnOwner'
  BY <1>6, GoOnWaiters DEF FinishComputing, ComputingRaises, Answer, AnswerRaises, Working
<1>7. ASSUME NEW c \in Callers, WaitGivesUp(c) \/ Crash(c)
      PROVE  WaitersHaveAnOwner'
  BY <1>7, GoOnWaiters DEF WaitGivesUp, Crash, Working
<1>8. ASSUME NEW c \in Callers, Complete(c) \/ Fail(c)
      PROVE  WaitersHaveAnOwner'
  <2>1. CASE Owns(c)
    <3>1. row'.status \in {"completed", "failed"}
      BY <1>8, <2>1 DEF Complete, Fail, TypeOK, Row
    <3> QED
      BY <3>1 DEF WaitersHaveAnOwner
  <2>2. CASE ~Owns(c)
    BY <1>8, <2>2, GoOnWaiters DEF Complete, Fail, Working
  <2> QED
    BY <2>1, <2>2
<1>9. CASE LeaseExpires
  <2>1. /\ row'.status = row.status /\ row'.owner = row.owner /\ phase' = phase
        /\ row'.lease \in {row.lease, "expired"}
    BY <1>9 DEF LeaseExpires, callVars, TypeOK, Row
  <2> QED
    BY <2>1 DEF WaitersHaveAnOwner
<1>10. CASE Purge
  BY <1>10 DEF Purge, NoRow, WaitersHaveAnOwner
<1> QED
  BY <1>1, <1>2, <1>3, <1>4, <1>5, <1>6, <1>7, <1>8, <1>9, <1>10 DEF Next, Proceed, Claim

\* No call waits for itself, for another that waits, or for a row that nobody works
\* on and nobody may take over.
THEOREM NobodyWaitsInVain == Spec => []WaitersHaveAnOwner
<1>1. Init => WaitersHaveAnOwner
  BY DEF Init, NoRow, WaitersHaveAnOwner
<1>2. AnswersInv => TypeOK
  BY DEF AnswersInv
<1> QED
  BY <1>1, <1>2, StepWaiters, AnswersInvariant, PTL DEF Spec

\* The inductive invariant of query results.
THEOREM QueryInvariant == Spec => []IInv
BY AnswersInvariant, NobodyWaitsInVain, PTL DEF IInv
=============================================================================

---------------------------- MODULE AbsenceProofs ----------------------------
(***************************************************************************)
(* When absence and rejection are the venue's last word: for any delays    *)
(* that satisfy WindowAssumption, any number of attempts and any number of *)
(* overlapping passes.                                                     *)
(***************************************************************************)
EXTENDS AbsenceWindow, TLAPS

\* The commands that are given to the operation here.
Given == [type : {"BEGIN_SUBMISSION", "RECORD_AMBIGUOUS_SUBMISSION",
                  "RECORD_REJECTION", "BEGIN_RECONCILIATION",
                  "RECORD_RECONCILIATION_UNAVAILABLE"}]
           \cup [type : {"RECORD_ACKNOWLEDGEMENT", "RECORD_ORDER_OBSERVATION"},
                 observation : Orders]
           \cup [type : {"RECORD_ORDER_ABSENT"}, windowExhausted : BOOLEAN]

\* The commands that carry something the venue said of an order.
Sightings == {"RECORD_ACKNOWLEDGEMENT", "RECORD_ORDER_OBSERVATION"}

\* Where the states come from that the theorems are about.
Moves(v, w, c) ==
    /\ w \in Row
    /\ w.state = "APPROVED" => v.state = "APPROVED"
    /\ w.state = "NOT_FOUND_SAFE" =>
         \/ v.state = "NOT_FOUND_SAFE"
         \/ c.type = "RECORD_ORDER_ABSENT" /\ c.windowExhausted
    /\ w.venueOrderId # None =>
         v.venueOrderId # None \/ c.type \in Sightings
    /\ w.state = "REJECTED" =>
         \/ w = v
         \/ c.type = "RECORD_REJECTION" /\ w.venueOrderId = v.venueOrderId
         \/ c.type \in Sightings /\ w.venueOrderId # None

\* The delays are naturals.
LEMMA Delays ==
    /\ RecvWindow \in Nat /\ Timeout \in Nat /\ Window \in Nat
    /\ MaxCommit \in Nat /\ Lag \in Nat /\ MaxTime \in Nat
    /\ MinAttempts \in Nat \ {0}
BY TimesAssumption DEF TimesAssumption

\* A handler that only moves the state.
LEMMA MoveIsMove ==
    ASSUME NEW v \in Row, NEW from, NEW to \in OperationStates,
           NEW w \in Move(v, from, to), NEW c,
           to \notin {"APPROVED", "NOT_FOUND_SAFE"},
           to = "REJECTED" => c.type = "RECORD_REJECTION"
    PROVE  Moves(v, w, c)
BY DEF Move, Accept, Row, Moves

\* The venue's view of the order it has accepted.
LEMMA ObservedIsMove ==
    ASSUME NEW v \in Row, NEW obs \in Orders, NEW c, c.type \in Sightings
    PROVE  Moves(v, Observed(v, obs), c)
<1>1. obs \in Observation
  BY TimesAssumption DEF TimesAssumption
<1>2. StatusToState[obs.status] \in OperationStates
        \ {"APPROVED", "NOT_FOUND_SAFE"}
  BY <1>1 DEF Observation, StatusToState, VenueStatus, OperationStates
<1>3. obs.venueOrderId # None
  BY <1>1, MachineAssumption DEF MachineAssumption, Observation
<1> QED
  BY <1>1, <1>2, <1>3 DEF Observed, Row, Observation, Moves

\* Only a not-found in an exhausted window settles absence, and only a
\* classified refusal settles rejection.
LEMMA DecideMoves ==
    ASSUME NEW v \in Row, NEW c \in Given, NEW w \in Decide(v, c)
    PROVE  Moves(v, w, c)
<1>1. CASE v.state \in Terminal
  <2>1. w = v
    BY <1>1 DEF Decide, DecideSettled, ReobserveTerminal, Accept
  <2> QED
    BY <2>1 DEF Moves
<1>2. CASE v.state \notin Terminal
  <2>0. w \in DecideOpen(v, c)
    BY <1>2 DEF Decide
  <2>1. CASE c.type = "BEGIN_SUBMISSION"
    <3>1. w \in BeginSubmission(v)
      BY <2>0, <2>1 DEF DecideOpen
    <3>2. w = [v EXCEPT !.state = "SUBMITTING", !.submits = v.submits + 1]
      BY <3>1 DEF BeginSubmission, Accept
    <3>3. v.submits + 1 \in Nat
      BY DEF Row
    <3>4. w \in Row
      BY <3>2, <3>3 DEF Row, OperationStates
    <3>5. w.state = "SUBMITTING" /\ w.venueOrderId = v.venueOrderId
      BY <3>2 DEF Row
    <3> QED
      BY <3>4, <3>5 DEF Moves
  <2>2. CASE c.type = "RECORD_AMBIGUOUS_SUBMISSION"
    <3>1. w \in Move(v, {"SUBMITTING"}, "UNKNOWN")
      BY <2>0, <2>2 DEF DecideOpen, RecordAmbiguous
    <3> QED
      BY <3>1, MoveIsMove DEF OperationStates
  <2>3. CASE c.type = "RECORD_REJECTION"
    <3>1. w \in Move(v, {"SUBMITTING"}, "REJECTED")
      BY <2>0, <2>3 DEF DecideOpen, RecordRejection
    <3> QED
      BY <2>3, <3>1, MoveIsMove DEF OperationStates
  <2>4. CASE c.type = "BEGIN_RECONCILIATION"
    <3>1. w \in Move(v, {"UNKNOWN", "ACKNOWLEDGED", "PARTIALLY_FILLED",
                         "CANCEL_REQUESTED", "MANUAL_REVIEW"}, "RECONCILING")
      BY <2>0, <2>4 DEF DecideOpen, BeginReconciliation
    <3> QED
      BY <3>1, MoveIsMove DEF OperationStates
  <2>5. CASE c.type = "RECORD_RECONCILIATION_UNAVAILABLE"
    <3>1. w \in Move(v, {"RECONCILING"}, "UNKNOWN")
      BY <2>0, <2>5 DEF DecideOpen, ReconciliationUnavailable
    <3> QED
      BY <3>1, MoveIsMove DEF OperationStates
  <2>6. CASE c.type = "RECORD_ACKNOWLEDGEMENT"
    <3>1. c.observation \in Orders
      BY <2>6 DEF Given
    <3>2. w = Observed(v, c.observation)
      BY <2>0, <2>6 DEF DecideOpen, RecordAcknowledgement, Accept
    <3> QED
      BY <2>6, <3>1, <3>2, ObservedIsMove DEF Sightings
  <2>7. CASE c.type = "RECORD_ORDER_OBSERVATION"
    <3>1. c.observation \in Orders
      BY <2>7 DEF Given
    <3>2. \/ w = [v EXCEPT !.state = "MANUAL_REVIEW"]
          \/ w = Observed(v, c.observation)
      BY <2>0, <2>7 DEF DecideOpen, RecordOrderObservation
    <3>3. CASE w = [v EXCEPT !.state = "MANUAL_REVIEW"]
      BY <3>3 DEF Row, OperationStates, Moves
    <3> QED
      BY <2>7, <3>1, <3>2, <3>3, ObservedIsMove DEF Sightings
  <2>8. CASE c.type = "RECORD_ORDER_ABSENT"
    <3>1. w \in RecordOrderAbsent(v, c.windowExhausted)
      BY <2>0, <2>8 DEF DecideOpen
    <3>2. \E s \in {"MANUAL_REVIEW", "NOT_FOUND_SAFE", "UNKNOWN"} :
            /\ w = [v EXCEPT !.state = s]
            /\ s = "NOT_FOUND_SAFE" => c.windowExhausted
      BY <3>1 DEF RecordOrderAbsent
    <3> QED
      BY <2>8, <3>2 DEF Row, OperationStates, Moves
  <2> QED
    BY <2>1, <2>2, <2>3, <2>4, <2>5, <2>6, <2>7, <2>8 DEF Given
<1> QED
  BY <1>1, <1>2

\* The same of a transaction.
LEMMA TransactionMoves ==
    ASSUME row \in Row, NEW c \in Given, ApplyOrThrow(c)
    PROVE  Moves(row, row', c)
<1>1. CASE Apply(c)
  BY <1>1, DecideMoves DEF Apply
<1>2. CASE UNCHANGED row
  BY <1>2 DEF Moves
<1> QED
  BY <1>1, <1>2 DEF ApplyOrThrow

-----------------------------------------------------------------------------
(* The inductive invariant. *)

\* Nothing was begun for an operation that is still approved.
Untouched ==
    row.state = "APPROVED" =>
        /\ call = "no" /\ post = "unsent"
        /\ \A q \in Query : ~Active(q)

\* The POST is signed at most MaxCommit after the stamp.
SignedInTime ==
    /\ stamped <= now
    /\ call = "committed" => post = "unsent" /\ now <= stamped + MaxCommit
    /\ post # "unsent" => signed <= stamped + MaxCommit

\* From when on the venue cannot take the order any more.
TooLate(t) == t > stamped + MaxCommit + RecvWindow + Lag

\* A pass has begun before now, a sighting is of an order that was made, and a
\* not-found in answer to a query that was sent too late for the order is final.
AnswerInTime(q) ==
    /\ query[q].answer # None => Active(q)
    /\ Active(q) => query[q].sentAt <= now
    /\ query[q].answer # None /\ query[q].answer = "OBSERVED"
       => post = "accepted"
    /\ query[q].answer # None /\ query[q].answer = "ABSENT"
         /\ TooLate(query[q].sentAt)
       => post # "accepted"

AnswersInTime == \A q \in Query : AnswerInTime(q)

\* Only an order that was made has an id in the row.
OrderIsVenues == row.venueOrderId # None => post = "accepted"

TimeInv == /\ AbsenceTypeOK /\ Untouched /\ SignedInTime /\ AnswersInTime
           /\ OrderIsVenues
           /\ AbsenceIsFinal /\ RefusalIsVenues

\* What a pass holds.
LEMMA QueryFacts ==
    ASSUME AbsenceTypeOK, NEW q \in Query, Active(q)
    PROVE  /\ query[q].sentAt \in Nat
           /\ query[q].tries \in 0 .. MinAttempts
           /\ now <= query[q].sentAt + Timeout
BY DEF AbsenceTypeOK, QueryState, Active

LEMMA InitEstablishes == Init => TimeInv
<1> SUFFICES ASSUME Init PROVE TimeInv
  OBVIOUS
<1>1. row = [state |-> "APPROVED", venueOrderId |-> None, executed |-> 0,
             submits |-> 0]
  BY DEF Init, NewRow
<1>2. row \in Row
  BY <1>1, MachineAssumption DEF MachineAssumption, Row, OperationStates
<1>3. /\ query \in [Query -> QueryState]
      /\ \A q \in Query : query[q].sentAt = None /\ query[q].answer = None
  BY Delays DEF Init, NoQuery, QueryState
<1>4. \A q \in Query : ~Active(q)
  BY <1>3 DEF Active
<1>5. row.state = "APPROVED"
  BY <1>1
<1>6. AbsenceTypeOK
  BY <1>2, <1>3, <1>4, Delays DEF Init, AbsenceTypeOK
<1>7. Untouched /\ AnswersInTime
  BY <1>3, <1>4 DEF Init, Untouched, AnswersInTime, AnswerInTime
<1>7a. SignedInTime
  BY DEF Init, SignedInTime
<1>8. AbsenceIsFinal /\ RefusalIsVenues /\ OrderIsVenues
  BY <1>1, <1>5 DEF AbsenceIsFinal, RefusalIsVenues, OrderIsVenues
<1> QED
  BY <1>6, <1>7, <1>7a, <1>8 DEF TimeInv

-----------------------------------------------------------------------------
(* The steps that keep the invariant. *)

LEMMA TickKeeps == TimeInv /\ Tick => TimeInv'
<1> SUFFICES ASSUME TimeInv, Tick PROVE TimeInv'
  OBVIOUS
<1> USE Delays
<1>1. /\ now \in Nat /\ now' = now + 1 /\ stamped \in Nat /\ signed \in Nat
      /\ UNCHANGED <<row, stamped, attempts, call, signed, post, query>>
  BY DEF TimeInv, AbsenceTypeOK, Tick
<1>2. \A q \in Query : Active(q)' <=> Active(q)
  BY <1>1 DEF Active
<1>3. ASSUME NEW q \in Query, Active(q)
      PROVE  /\ query[q].sentAt \in Nat
             /\ now + 1 <= query[q].sentAt + Timeout
             /\ query[q].sentAt <= now
  <2>1. query[q].sentAt \in Nat
    BY <1>3, QueryFacts DEF TimeInv
  <2>2. ~(now >= query[q].sentAt + Timeout)
    BY <1>3 DEF Tick, Due
  <2>3. query[q].sentAt <= now
    BY <1>3 DEF TimeInv, AnswersInTime, AnswerInTime
  <2> QED
    BY <1>1, <2>1, <2>2, <2>3
<1>4. call = "placing" => now + 1 <= signed + Timeout
  BY <1>1 DEF Tick, Due
<1>5. call = "committed" => now + 1 <= stamped + MaxCommit
  BY <1>1 DEF Tick, Due
<1>6. AbsenceTypeOK'
  BY <1>1, <1>2, <1>3, <1>4 DEF TimeInv, AbsenceTypeOK
<1>7. Untouched' /\ SignedInTime'
  BY <1>1, <1>2, <1>5 DEF TimeInv, Untouched, SignedInTime
<1>8. AnswersInTime'
  BY <1>1, <1>2, <1>3 DEF TimeInv, AnswersInTime, AnswerInTime, TooLate
<1>9. AbsenceIsFinal' /\ RefusalIsVenues' /\ OrderIsVenues'
  BY <1>1 DEF TimeInv, AbsenceIsFinal, RefusalIsVenues, OrderIsVenues, Acceptable
<1> QED
  BY <1>6, <1>7, <1>8, <1>9 DEF TimeInv

LEMMA BeginDispatchKeeps == TimeInv /\ BeginDispatch => TimeInv'
<1> SUFFICES ASSUME TimeInv, BeginDispatch PROVE TimeInv'
  OBVIOUS
<1> USE Delays
<1>1. row \in Row /\ now \in Nat
  BY DEF TimeInv, AbsenceTypeOK
<1>2. row' \in BeginSubmission(row)
  <2>1. row' \in Decide(row, [type |-> "BEGIN_SUBMISSION"])
    BY DEF BeginDispatch, Apply
  <2> QED
    BY <2>1 DEF Decide, DecideSettled, DecideOpen
<1>3. row.state = "APPROVED" /\ row'.state = "SUBMITTING" /\ row' \in Row
      /\ row'.venueOrderId = row.venueOrderId
  <2>1. row.state = "APPROVED"
    BY <1>2 DEF BeginSubmission, Accept
  <2>2. row' = [row EXCEPT !.state = "SUBMITTING", !.submits = row.submits + 1]
    BY <1>2 DEF BeginSubmission, Accept
  <2>3. row.submits + 1 \in Nat
    BY <1>1 DEF Row
  <2>4. row' \in Row
    BY <1>1, <2>2, <2>3 DEF Row, OperationStates
  <2>5. row'.state = "SUBMITTING" /\ row'.venueOrderId = row.venueOrderId
    BY <1>1, <2>2 DEF Row
  <2> QED
    BY <2>1, <2>4, <2>5
<1>4. /\ post = "unsent" /\ stamped' = now /\ call' = "committed"
      /\ UNCHANGED <<now, attempts, signed, post, query>>
      /\ \A q \in Query : ~Active(q)
  BY <1>3 DEF TimeInv, Untouched, BeginDispatch
<1>5. \A q \in Query : ~Active(q)'
  BY <1>4 DEF Active
<1>6. AbsenceTypeOK'
  BY <1>1, <1>3, <1>4, <1>5 DEF TimeInv, AbsenceTypeOK
<1>7. Untouched' /\ SignedInTime'
  BY <1>1, <1>3, <1>4 DEF Untouched, SignedInTime
<1>8. AnswersInTime'
  BY <1>4, <1>5 DEF TimeInv, AnswersInTime, AnswerInTime
<1>9. AbsenceIsFinal' /\ RefusalIsVenues' /\ OrderIsVenues'
  BY <1>3, <1>4 DEF TimeInv, AbsenceIsFinal, RefusalIsVenues, OrderIsVenues
<1> QED
  BY <1>6, <1>7, <1>8, <1>9 DEF TimeInv

LEMMA SignAndSendKeeps == TimeInv /\ SignAndSend => TimeInv'
<1> SUFFICES ASSUME TimeInv, SignAndSend PROVE TimeInv'
  OBVIOUS
<1> USE Delays
<1>1. /\ call = "committed" /\ call' = "placing" /\ signed' = now
      /\ post' = "flying"
      /\ UNCHANGED <<now, row, stamped, attempts, query>>
  BY DEF SignAndSend
<1>2. /\ now \in Nat /\ stamped \in Nat
      /\ post = "unsent" /\ now <= stamped + MaxCommit
  BY <1>1 DEF TimeInv, AbsenceTypeOK, SignedInTime
<1>3. \A q \in Query : Active(q)' <=> Active(q)
  BY <1>1 DEF Active
<1>4. row.state \notin {"APPROVED", "NOT_FOUND_SAFE", "REJECTED"}
  BY <1>1, <1>2 DEF TimeInv, Untouched, AbsenceIsFinal, RefusalIsVenues
<1>5. AbsenceTypeOK'
  BY <1>1, <1>2, <1>3 DEF TimeInv, AbsenceTypeOK
<1>6. Untouched' /\ SignedInTime'
  BY <1>1, <1>2, <1>4 DEF TimeInv, Untouched, SignedInTime
<1>7. AnswersInTime'
  BY <1>1, <1>2, <1>3 DEF TimeInv, AnswersInTime, AnswerInTime
<1>8. AbsenceIsFinal' /\ RefusalIsVenues' /\ OrderIsVenues'
  BY <1>1, <1>2, <1>4
  DEF TimeInv, AbsenceIsFinal, RefusalIsVenues, OrderIsVenues
<1> QED
  BY <1>5, <1>6, <1>7, <1>8 DEF TimeInv

\* The end of a submission, with what was concluded from its answer.
LEMMA EndCallKeeps ==
    ASSUME TimeInv, call # "no", call' = "no",
           UNCHANGED <<now, stamped, attempts, signed, post, query>>,
           \/ UNCHANGED row
           \/ \E c \in Given :
                /\ ApplyOrThrow(c) /\ c.type # "RECORD_ORDER_ABSENT"
                /\ c.type = "RECORD_REJECTION" => post = "refused"
                /\ c.type \in Sightings => post = "accepted"
    PROVE  TimeInv'
<1> USE Delays
<1>1. /\ row' \in Row
      /\ row'.state = "APPROVED" => row.state = "APPROVED"
      /\ row'.state = "NOT_FOUND_SAFE" => row.state = "NOT_FOUND_SAFE"
      /\ RefusalIsVenues' /\ OrderIsVenues'
  <2>1. row \in Row /\ RefusalIsVenues /\ OrderIsVenues
    BY DEF TimeInv, AbsenceTypeOK
  <2>2. CASE UNCHANGED row
    BY <2>1, <2>2 DEF RefusalIsVenues, OrderIsVenues
  <2>3. CASE \E c \in Given :
                /\ ApplyOrThrow(c) /\ c.type # "RECORD_ORDER_ABSENT"
                /\ c.type = "RECORD_REJECTION" => post = "refused"
                /\ c.type \in Sightings => post = "accepted"
    <3>1. PICK c \in Given :
                /\ ApplyOrThrow(c) /\ c.type # "RECORD_ORDER_ABSENT"
                /\ c.type = "RECORD_REJECTION" => post = "refused"
                /\ c.type \in Sightings => post = "accepted"
      BY <2>3
    <3>2. Moves(row, row', c)
      BY <2>1, <3>1, TransactionMoves
    <3> QED
      BY <2>1, <3>1, <3>2 DEF Moves, RefusalIsVenues, OrderIsVenues
  <2> QED
    BY <2>2, <2>3
<1>2. row'.state # "APPROVED"
  BY <1>1 DEF TimeInv, Untouched
<1>3. \A q \in Query : Active(q)' <=> Active(q)
  BY DEF Active
<1>4. AbsenceTypeOK'
  BY <1>1, <1>3 DEF TimeInv, AbsenceTypeOK
<1>5. Untouched' /\ SignedInTime'
  BY <1>2 DEF TimeInv, Untouched, SignedInTime
<1>6. AnswersInTime'
  BY <1>3 DEF TimeInv, AnswersInTime, AnswerInTime, TooLate
<1>7. AbsenceIsFinal'
  BY <1>1 DEF TimeInv, AbsenceIsFinal, Acceptable
<1> QED
  BY <1>1, <1>4, <1>5, <1>6, <1>7 DEF TimeInv

LEMMA PostAnsweredKeeps == TimeInv /\ PostAnswered => TimeInv'
<1> SUFFICES ASSUME TimeInv, PostAnswered PROVE TimeInv'
  OBVIOUS
<1>1. PICK r \in RawResponse :
        /\ HonestToSubmission(r, post = "accepted", post = "refused")
        /\ EndCall(ClassifySubmission(r))
  BY DEF PostAnswered
<1> DEFINE verdict == ClassifySubmission(r)
<1>2. /\ verdict \in {"ACKNOWLEDGED", "REJECTED", "AMBIGUOUS", "THROWS"}
      /\ verdict = "ACKNOWLEDGED" => r.status = "200" /\ r.body = "ORDER"
      /\ verdict = "REJECTED" =>
           r.status = "OTHER" /\ HasVenueError(r) /\ r.code # "TIMEOUT"
  BY DEF ClassifySubmission, ToObservation
<1>3. /\ verdict = "REJECTED" => post = "refused"
      /\ verdict = "ACKNOWLEDGED" => post = "accepted"
  BY <1>1, <1>2 DEF HonestToSubmission
<1>4. ASSUME verdict # "THROWS", NEW c \in Recorded(verdict)
      PROVE  /\ c \in Given /\ c.type # "RECORD_ORDER_ABSENT"
             /\ c.type = "RECORD_REJECTION" => verdict = "REJECTED"
             /\ c.type \in Sightings => verdict = "ACKNOWLEDGED"
  BY <1>2, <1>4 DEF Recorded, Given, Sightings
<1>5. /\ call # "no" /\ call' = "no"
      /\ UNCHANGED <<now, stamped, attempts, signed, post, query>>
  BY <1>1 DEF PostAnswered, EndCall
<1>6. CASE verdict = "THROWS"
  BY <1>1, <1>5, <1>6, EndCallKeeps DEF EndCall
<1>7. CASE verdict # "THROWS"
  <2>1. PICK c \in Recorded(verdict) : ApplyOrThrow(c)
    BY <1>1, <1>7 DEF EndCall
  <2> QED
    BY <1>3, <1>4, <1>5, <1>7, <2>1, EndCallKeeps
<1> QED
  BY <1>6, <1>7

LEMMA TransportFailsKeeps == TimeInv /\ TransportFails => TimeInv'
<1> SUFFICES ASSUME TimeInv, TransportFails PROVE TimeInv'
  OBVIOUS
<1>1. \A c \in Recorded("AMBIGUOUS") :
         c = [type |-> "RECORD_AMBIGUOUS_SUBMISSION"]
  BY DEF Recorded
<1>2. [type |-> "RECORD_AMBIGUOUS_SUBMISSION"] \in Given
  BY DEF Given
<1>3. /\ call # "no" /\ call' = "no"
      /\ UNCHANGED <<now, stamped, attempts, signed, post, query>>
      /\ ApplyOrThrow([type |-> "RECORD_AMBIGUOUS_SUBMISSION"])
  BY <1>1 DEF TransportFails, EndCall
<1> QED
  BY <1>2, <1>3, EndCallKeeps DEF Sightings

LEMMA CallDiesKeeps == TimeInv /\ CallDies => TimeInv'
BY EndCallKeeps DEF CallDies

-----------------------------------------------------------------------------
\* The venue takes the order only while it is in time, and what was settled by
\* a clock was settled later than that.
LEMMA VenueAcceptsKeeps == TimeInv /\ VenueAccepts => TimeInv'
<1> SUFFICES ASSUME TimeInv, VenueAccepts PROVE TimeInv'
  OBVIOUS
<1> USE Delays
<1>1. /\ post = "flying" /\ now <= signed + RecvWindow + Lag
      /\ post' = "accepted"
      /\ UNCHANGED <<now, row, stamped, attempts, call, signed, query>>
  BY DEF VenueAccepts, Acceptable
<1>2. /\ now \in Nat /\ stamped \in Nat /\ signed \in Nat
      /\ signed <= stamped + MaxCommit /\ call # "committed"
  BY <1>1 DEF TimeInv, AbsenceTypeOK, SignedInTime
<1>3. \A q \in Query : Active(q)' <=> Active(q)
  BY <1>1 DEF Active
<1>4. row.state \notin {"APPROVED", "NOT_FOUND_SAFE", "REJECTED"}
  BY <1>1
  DEF TimeInv, Untouched, AbsenceIsFinal, RefusalIsVenues, Acceptable
<1>5. ASSUME NEW q \in Query, Active(q)
      PROVE  ~TooLate(query[q].sentAt)
  <2>1. query[q].sentAt \in Nat /\ query[q].sentAt <= now
    BY <1>5, QueryFacts DEF TimeInv, AnswersInTime, AnswerInTime
  <2> QED
    BY <1>1, <1>2, <2>1 DEF TooLate
<1>6. AbsenceTypeOK'
  BY <1>1, <1>3 DEF TimeInv, AbsenceTypeOK
<1>7. Untouched' /\ SignedInTime'
  BY <1>1, <1>2, <1>4 DEF TimeInv, Untouched, SignedInTime
<1>8. AnswersInTime'
  BY <1>1, <1>3, <1>5 DEF TimeInv, AnswersInTime, AnswerInTime, TooLate
<1>9. AbsenceIsFinal' /\ RefusalIsVenues' /\ OrderIsVenues'
  BY <1>1, <1>4 DEF AbsenceIsFinal, RefusalIsVenues, OrderIsVenues
<1> QED
  BY <1>6, <1>7, <1>8, <1>9 DEF TimeInv

LEMMA VenueRefusesKeeps == TimeInv /\ VenueRefuses => TimeInv'
<1> SUFFICES ASSUME TimeInv, VenueRefuses PROVE TimeInv'
  OBVIOUS
<1>1. /\ post = "flying" /\ post' = "refused"
      /\ UNCHANGED <<now, row, stamped, attempts, call, signed, query>>
  BY DEF VenueRefuses
<1>2. \A q \in Query : Active(q)' <=> Active(q)
  BY <1>1 DEF Active
<1>3. AbsenceTypeOK'
  BY <1>1, <1>2 DEF TimeInv, AbsenceTypeOK
<1>4. Untouched' /\ SignedInTime'
  BY <1>1, <1>2 DEF TimeInv, Untouched, SignedInTime
<1>5. AnswersInTime'
  BY <1>1, <1>2 DEF TimeInv, AnswersInTime, AnswerInTime, TooLate
<1>6. AbsenceIsFinal' /\ RefusalIsVenues' /\ OrderIsVenues'
  BY <1>1 DEF TimeInv, AbsenceIsFinal, RefusalIsVenues, OrderIsVenues, Acceptable
<1> QED
  BY <1>3, <1>4, <1>5, <1>6 DEF TimeInv

LEMMA DemoteKeeps == TimeInv /\ Demote => TimeInv'
<1> SUFFICES ASSUME TimeInv, Demote PROVE TimeInv'
  OBVIOUS
<1>1. /\ row' = [row EXCEPT !.state = "UNKNOWN"]
      /\ UNCHANGED <<now, stamped, attempts, call, signed, post, query>>
  BY DEF Demote, Demoted
<1>2. row' \in Row /\ row'.state = "UNKNOWN"
      /\ row'.venueOrderId = row.venueOrderId
  BY <1>1 DEF TimeInv, AbsenceTypeOK, Row, OperationStates
<1>3. \A q \in Query : Active(q)' <=> Active(q)
  BY <1>1 DEF Active
<1>4. AbsenceTypeOK'
  BY <1>1, <1>2, <1>3 DEF TimeInv, AbsenceTypeOK
<1>5. Untouched' /\ SignedInTime'
  BY <1>1, <1>2 DEF TimeInv, Untouched, SignedInTime
<1>6. AnswersInTime'
  BY <1>1, <1>3 DEF TimeInv, AnswersInTime, AnswerInTime, TooLate
<1>7. AbsenceIsFinal' /\ RefusalIsVenues' /\ OrderIsVenues'
  BY <1>1, <1>2 DEF TimeInv, AbsenceIsFinal, RefusalIsVenues, OrderIsVenues
<1> QED
  BY <1>4, <1>5, <1>6, <1>7 DEF TimeInv

\* A claim that comes to nothing moves the counter alone.
LEMMA ClaimInVainKeeps == TimeInv /\ ClaimInVain => TimeInv'
<1> SUFFICES ASSUME TimeInv, ClaimInVain PROVE TimeInv'
  OBVIOUS
<1> USE Delays
<1>1. UNCHANGED <<now, row, stamped, call, signed, post, query>>
  BY DEF ClaimInVain
<1>2. attempts' \in 0 .. MinAttempts
  <2>1. attempts \in 0 .. MinAttempts
    BY DEF TimeInv, AbsenceTypeOK
  <2> QED
    BY <2>1 DEF ClaimInVain, Tries
<1>3. \A q \in Query : Active(q)' <=> Active(q)
  BY <1>1 DEF Active
<1>4. AbsenceTypeOK'
  BY <1>1, <1>2, <1>3 DEF TimeInv, AbsenceTypeOK
<1>5. Untouched' /\ SignedInTime'
  BY <1>1, <1>3 DEF TimeInv, Untouched, SignedInTime
<1>6. AnswersInTime'
  BY <1>1, <1>3 DEF TimeInv, AnswersInTime, AnswerInTime, TooLate
<1>7. AbsenceIsFinal' /\ RefusalIsVenues' /\ OrderIsVenues'
  BY <1>1 DEF TimeInv, AbsenceIsFinal, RefusalIsVenues, OrderIsVenues, Acceptable
<1> QED
  BY <1>4, <1>5, <1>6, <1>7 DEF TimeInv

-----------------------------------------------------------------------------
\* The end of a pass, however it ends.
LEMMA EndQueryKeeps ==
    ASSUME TimeInv, NEW q \in Query, query' = [query EXCEPT ![q] = NoQuery],
           UNCHANGED <<now, stamped, attempts, call, signed, post>>,
           row' \in Row,
           row'.state = "APPROVED" => row.state = "APPROVED",
           row'.state = "NOT_FOUND_SAFE" =>
             post # "accepted" /\ ~Acceptable /\ call # "committed",
           RefusalIsVenues', OrderIsVenues'
    PROVE  TimeInv'
<1> USE Delays
<1>1. NoQuery \in QueryState /\ NoQuery.sentAt = None /\ NoQuery.answer = None
  BY DEF NoQuery, QueryState
<1>2. query \in [Query -> QueryState]
  BY DEF TimeInv, AbsenceTypeOK
<1>3. query' \in [Query -> QueryState]
  BY <1>1, <1>2
<1>4. \A k \in Query : query'[k] = IF k = q THEN NoQuery ELSE query[k]
  BY <1>2
<1>5. \A k \in Query : Active(k)' => k # q /\ Active(k)
  BY <1>1, <1>4 DEF Active
<1>5a. \A k \in Query \ {q} : Active(k) => Active(k)'
  BY <1>4 DEF Active
<1>6. AbsenceTypeOK'
  BY <1>3, <1>4, <1>5 DEF TimeInv, AbsenceTypeOK
<1>7. Untouched' /\ SignedInTime'
  BY <1>5 DEF TimeInv, Untouched, SignedInTime
<1>8. AnswersInTime'
  <2> SUFFICES ASSUME NEW k \in Query
               PROVE  AnswerInTime(k)'
    BY DEF AnswersInTime
  <2>1. CASE k = q
    BY <1>1, <1>4, <1>5, <2>1 DEF AnswerInTime
  <2>2. CASE k # q
    <3>1. query'[k] = query[k] /\ (Active(k)' <=> Active(k))
      BY <1>4, <1>5, <1>5a, <2>2
    <3> QED
      BY <3>1 DEF TimeInv, AnswersInTime, AnswerInTime, TooLate
  <2> QED
    BY <2>1, <2>2
<1>9. AbsenceIsFinal'
  BY DEF AbsenceIsFinal, Acceptable
<1> QED
  BY <1>6, <1>7, <1>8, <1>9 DEF TimeInv

LEMMA QueryDiesKeeps == ASSUME NEW q \in Query
                        PROVE  TimeInv /\ QueryDies(q) => TimeInv'
<1> SUFFICES ASSUME TimeInv, QueryDies(q) PROVE TimeInv'
  OBVIOUS
<1>1. row \in Row
  BY DEF TimeInv, AbsenceTypeOK
<1>2. /\ query' = [query EXCEPT ![q] = NoQuery]
      /\ UNCHANGED <<now, row, stamped, attempts, call, signed, post>>
  BY DEF QueryDies
<1> QED
  BY <1>1, <1>2, EndQueryKeeps
  DEF TimeInv, AbsenceIsFinal, RefusalIsVenues, OrderIsVenues

\* A not-found recorded with the window exhausted answered a query that was
\* sent after the last moment at which the venue could have taken the order.
LEMMA AbsenceIsLate ==
    ASSUME TimeInv, NEW q \in Query, query[q].answer = "ABSENT",
           query[q].answer # None, WindowExhausted(query[q])
    PROVE  post # "accepted" /\ ~Acceptable /\ call # "committed"
<1> USE Delays
<1>1. Active(q)
  BY DEF TimeInv, AnswersInTime, AnswerInTime
<1>2. /\ query[q].sentAt \in Nat /\ now <= query[q].sentAt + Timeout
      /\ query[q].sentAt <= now
  BY <1>1, QueryFacts DEF TimeInv, AnswersInTime, AnswerInTime
<1>3. now \in Nat /\ stamped \in Nat /\ signed \in Nat
        /\ stamped <= now
  BY DEF TimeInv, AbsenceTypeOK, SignedInTime
<1>4. now - stamped >= Window /\ Window > MaxCommit + RecvWindow + Lag + Timeout
  BY WindowAssumption DEF WindowExhausted, WindowAssumption
<1>5. query[q].sentAt > stamped + MaxCommit + RecvWindow + Lag
  BY <1>2, <1>3, <1>4
<1>6. post # "accepted"
  BY <1>1, <1>5 DEF TimeInv, AnswersInTime, AnswerInTime, TooLate
<1>7. ~Acceptable
  BY <1>2, <1>3, <1>5 DEF TimeInv, SignedInTime, Acceptable
<1>8. call # "committed"
  BY <1>2, <1>3, <1>5 DEF TimeInv, SignedInTime
<1> QED
  BY <1>6, <1>7, <1>8

LEMMA ConcludeKeeps == ASSUME NEW q \in Query
                       PROVE  TimeInv /\ Conclude(q) => TimeInv'
<1> SUFFICES ASSUME TimeInv, Conclude(q) PROVE TimeInv'
  OBVIOUS
<1>1. /\ query[q].answer # None
      /\ query' = [query EXCEPT ![q] = NoQuery]
      /\ UNCHANGED <<now, stamped, attempts, call, signed, post>>
  BY DEF Conclude
<1>2. query[q].answer \in Verdict
  BY <1>1 DEF TimeInv, AbsenceTypeOK, QueryState
<1>3. row \in Row
  BY DEF TimeInv, AbsenceTypeOK
<1>4. CASE query[q].answer = "THROWS"
  <2>1. UNCHANGED row
    BY <1>4 DEF Conclude
  <2> QED
    BY <1>1, <1>3, <2>1, EndQueryKeeps
    DEF TimeInv, AbsenceIsFinal, RefusalIsVenues, OrderIsVenues
<1>5. CASE query[q].answer # "THROWS"
  <2>0. PICK c \in Conclusions(query[q]) : ApplyOrThrow(c)
    BY <1>5 DEF Conclude
  <2>1. /\ c \in Given /\ c.type # "RECORD_REJECTION"
        /\ c.type \in Sightings => query[q].answer = "OBSERVED"
        /\ c.type = "RECORD_ORDER_ABSENT" =>
             /\ query[q].answer = "ABSENT"
             /\ c.windowExhausted => WindowExhausted(query[q])
    BY <1>2, <1>5 DEF Conclusions, Verdict, Given, Sightings, WindowExhausted
  <2>1a. c.type \in Sightings => post = "accepted"
    BY <1>1, <2>1 DEF TimeInv, AnswersInTime, AnswerInTime
  <2>2. Moves(row, row', c)
    BY <1>3, <2>0, <2>1, TransactionMoves
  <2>3. row'.state = "NOT_FOUND_SAFE" =>
           post # "accepted" /\ ~Acceptable /\ call # "committed"
    <3>1. CASE row.state = "NOT_FOUND_SAFE"
      BY <3>1 DEF TimeInv, AbsenceIsFinal
    <3>2. CASE c.type = "RECORD_ORDER_ABSENT" /\ c.windowExhausted
      BY <1>1, <2>1, <3>2, AbsenceIsLate
    <3> QED
      BY <2>2, <3>1, <3>2 DEF Moves
  <2>4. RefusalIsVenues' /\ OrderIsVenues'
    BY <1>1, <2>1, <2>1a, <2>2
    DEF Moves, TimeInv, RefusalIsVenues, OrderIsVenues
  <2>5. row' \in Row /\ (row'.state = "APPROVED" => row.state = "APPROVED")
    BY <2>2 DEF Moves
  <2> QED
    BY <1>1, <2>3, <2>4, <2>5, EndQueryKeeps
<1> QED
  BY <1>4, <1>5

LEMMA BeginQueryKeeps == ASSUME NEW q \in Query, NEW byHand \in BOOLEAN
                         PROVE  TimeInv /\ BeginQuery(q, byHand) => TimeInv'
<1> SUFFICES ASSUME TimeInv, BeginQuery(q, byHand) PROVE TimeInv'
  OBVIOUS
<1> USE Delays
<1>1. /\ now \in Nat /\ row \in Row /\ attempts \in 0 .. MinAttempts
      /\ query \in [Query -> QueryState]
  BY DEF TimeInv, AbsenceTypeOK
<1>2. PICK tries \in 0 .. MinAttempts :
        /\ query' = [query EXCEPT ![q] = [sentAt |-> now, tries |-> tries,
                                          answer |-> None]]
        /\ attempts' \in {attempts, tries}
  <2>1. Tries \in 0 .. MinAttempts
    BY <1>1 DEF Tries
  <2>2. /\ query' = [query EXCEPT ![q] = [sentAt |-> now, tries |-> Tries,
                                          answer |-> None]]
        /\ attempts' \in {attempts, Tries}
    BY DEF BeginQuery
  <2> QED
    BY <2>1, <2>2
<1>3. UNCHANGED <<now, stamped, call, signed, post>>
  BY DEF BeginQuery
<1>4. /\ row' \in Row
      /\ row.state \notin Terminal \cup {"APPROVED"}
      /\ row'.state = "RECONCILING" /\ row'.venueOrderId = row.venueOrderId
  <2>1. row' \in Decide(row, [type |-> "BEGIN_RECONCILIATION"])
    BY DEF BeginQuery, Apply
  <2>2. row' \in BeginReconciliation(row) /\ row.state \notin Terminal
    BY <2>1 DEF Decide, DecideSettled, DecideOpen
  <2>3. /\ row.state # "APPROVED"
        /\ row' = [row EXCEPT !.state = "RECONCILING"]
    BY <2>2 DEF BeginReconciliation, Move, Accept
  <2> QED
    BY <1>1, <2>2, <2>3 DEF Row, OperationStates
<1> DEFINE new == [sentAt |-> now, tries |-> tries, answer |-> None]
<1>5. new \in QueryState
  BY <1>1 DEF QueryState
<1>6. /\ query' \in [Query -> QueryState]
      /\ \A k \in Query : query'[k] = IF k = q THEN new ELSE query[k]
  BY <1>1, <1>2, <1>5
<1>7. /\ \A k \in Query \ {q} : Active(k)' <=> Active(k)
      /\ query'[q].sentAt = now /\ query'[q].answer = None
  BY <1>6 DEF Active
<1>8. AbsenceTypeOK'
  BY <1>1, <1>2, <1>3, <1>4, <1>6, <1>7 DEF TimeInv, AbsenceTypeOK
<1>9. Untouched' /\ SignedInTime'
  BY <1>3, <1>4 DEF TimeInv, Untouched, SignedInTime
<1>10. AnswersInTime'
  <2> SUFFICES ASSUME NEW k \in Query
               PROVE  AnswerInTime(k)'
    BY DEF AnswersInTime
  <2>1. CASE k = q
    BY <1>1, <1>3, <1>7, <2>1 DEF AnswerInTime
  <2>2. CASE k # q
    <3>1. query'[k] = query[k] /\ (Active(k)' <=> Active(k))
      BY <1>6, <1>7, <2>2
    <3> QED
      BY <1>3, <3>1 DEF TimeInv, AnswersInTime, AnswerInTime, TooLate
  <2> QED
    BY <2>1, <2>2
<1>11. AbsenceIsFinal' /\ RefusalIsVenues' /\ OrderIsVenues'
  BY <1>3, <1>4 DEF TimeInv, AbsenceIsFinal, RefusalIsVenues, OrderIsVenues
<1> QED
  BY <1>8, <1>9, <1>10, <1>11 DEF TimeInv

\* An answer comes in.
LEMMA AnsweredKeeps ==
    ASSUME TimeInv, NEW q \in Query, NEW verdict \in Verdict,
           Answered(q, verdict), verdict = "ABSENT" => post # "accepted",
           verdict = "OBSERVED" => post = "accepted"
    PROVE  TimeInv'
<1>1. /\ Active(q)
      /\ query' = [query EXCEPT ![q].answer = verdict]
      /\ UNCHANGED <<now, row, stamped, attempts, call, signed, post>>
  BY DEF Answered
<1>2. query \in [Query -> QueryState]
  BY DEF TimeInv, AbsenceTypeOK
<1> DEFINE new == [query[q] EXCEPT !.answer = verdict]
<1>3. new \in QueryState /\ new.sentAt = query[q].sentAt
        /\ new.answer = verdict
  BY <1>2 DEF QueryState
<1>4. /\ query' \in [Query -> QueryState]
      /\ \A k \in Query : query'[k] = IF k = q THEN new ELSE query[k]
  BY <1>1, <1>2, <1>3
<1>5. \A k \in Query : Active(k)' <=> Active(k)
  BY <1>3, <1>4 DEF Active
<1>6. AbsenceTypeOK'
  BY <1>1, <1>3, <1>4, <1>5 DEF TimeInv, AbsenceTypeOK
<1>7. Untouched' /\ SignedInTime'
  BY <1>1, <1>5 DEF TimeInv, Untouched, SignedInTime
<1>8. AnswersInTime'
  <2> SUFFICES ASSUME NEW k \in Query
               PROVE  AnswerInTime(k)'
    BY DEF AnswersInTime
  <2>1. CASE k = q
    BY <1>1, <1>3, <1>4, <1>5, <2>1
    DEF TimeInv, AnswersInTime, AnswerInTime
  <2>2. CASE k # q
    BY <1>1, <1>4, <1>5, <2>2
    DEF TimeInv, AnswersInTime, AnswerInTime, TooLate
  <2> QED
    BY <2>1, <2>2
<1>9. AbsenceIsFinal' /\ RefusalIsVenues' /\ OrderIsVenues'
  BY <1>1 DEF TimeInv, AbsenceIsFinal, RefusalIsVenues, OrderIsVenues, Acceptable
<1> QED
  BY <1>6, <1>7, <1>8, <1>9 DEF TimeInv

LEMMA VenueAnswersKeeps == ASSUME NEW q \in Query
                           PROVE  TimeInv /\ VenueAnswers(q) => TimeInv'
<1> SUFFICES ASSUME TimeInv, VenueAnswers(q) PROVE TimeInv'
  OBVIOUS
<1>1. PICK r \in RawResponse : /\ HonestToQuery(r, post = "accepted")
                               /\ Answered(q, ClassifyStatus(r))
  BY DEF VenueAnswers
<1>2. /\ ClassifyStatus(r) \in Verdict
      /\ ClassifyStatus(r) = "ABSENT" =>
           HasVenueError(r) /\ r.code = "NOT_FOUND"
      /\ ClassifyStatus(r) = "OBSERVED" => r.body = "ORDER"
  BY DEF ClassifyStatus, ToObservation, Verdict
<1>3. /\ ClassifyStatus(r) = "ABSENT" => post # "accepted"
      /\ ClassifyStatus(r) = "OBSERVED" => post = "accepted"
  BY <1>1, <1>2 DEF HonestToQuery
<1> QED
  BY <1>1, <1>2, <1>3, AnsweredKeeps

LEMMA QueryFailsKeeps == ASSUME NEW q \in Query
                         PROVE  TimeInv /\ QueryFails(q) => TimeInv'
BY AnsweredKeeps DEF QueryFails, Verdict

-----------------------------------------------------------------------------
\* Every step keeps the invariant.
LEMMA TimeInvStep == TimeInv /\ [Next]_vars => TimeInv'
<1> SUFFICES ASSUME TimeInv, [Next]_vars PROVE TimeInv'
  OBVIOUS
<1>1. CASE Tick \/ BeginDispatch \/ SignAndSend
  BY <1>1, TickKeeps, BeginDispatchKeeps, SignAndSendKeeps
<1>2. CASE PostAnswered \/ TransportFails \/ CallDies
  BY <1>2, PostAnsweredKeeps, TransportFailsKeeps, CallDiesKeeps
<1>3. CASE VenueAccepts \/ VenueRefuses \/ Demote \/ ClaimInVain
  BY <1>3, VenueAcceptsKeeps, VenueRefusesKeeps, DemoteKeeps,
     ClaimInVainKeeps
<1>4. ASSUME NEW q \in Query,
             \/ \E byHand \in BOOLEAN : BeginQuery(q, byHand)
             \/ VenueAnswers(q) \/ QueryFails(q) \/ Conclude(q) \/ QueryDies(q)
      PROVE  TimeInv'
  BY <1>4, BeginQueryKeeps, VenueAnswersKeeps, QueryFailsKeeps,
     ConcludeKeeps, QueryDiesKeeps
<1>5. CASE UNCHANGED vars
  BY <1>5
  DEF vars, TimeInv, AbsenceTypeOK, Untouched, SignedInTime, AnswersInTime,
      AnswerInTime, TooLate, Active, AbsenceIsFinal, RefusalIsVenues,
      OrderIsVenues, Acceptable
<1> QED
  BY <1>1, <1>2, <1>3, <1>4, <1>5 DEF Next

\* The invariant holds of every behaviour: the three theorems below read off it.
THEOREM TimeInvariance == AbsenceSpec => []TimeInv
<1> QED
  BY InitEstablishes, TimeInvStep, PTL DEF AbsenceSpec

\* The shapes are kept, and no request outlives its timeout.
THEOREM AbsenceTypeCorrect == AbsenceSpec => []AbsenceTypeOK
<1>1. TimeInv => AbsenceTypeOK
  BY DEF TimeInv
<1> QED
  BY <1>1, TimeInvariance, PTL

\* Whatever the delays, the attempts and the overlapping passes, an operation
\* settled as absent has no order at the venue and never will, provided the
\* window is longer than commit, recvWindow, lag and timeout together.
THEOREM AbsenceFinality == AbsenceSpec => []AbsenceIsFinal
<1>1. TimeInv => AbsenceIsFinal
  BY DEF TimeInv
<1> QED
  BY <1>1, TimeInvariance, PTL

\* Whatever answers in the venue's place, an operation settled as rejected was
\* refused by the venue, or is an order of the venue that it calls REJECTED.
THEOREM RejectionIsVenues == AbsenceSpec => []RefusalIsVenues
<1>1. TimeInv => RefusalIsVenues
  BY DEF TimeInv
<1> QED
  BY <1>1, TimeInvariance, PTL
=============================================================================

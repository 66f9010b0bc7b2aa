---------------------------- MODULE ConsoleProofs ----------------------------
(***************************************************************************)
(* The console and the registry, proved for any number of intents, clicks, *)
(* polls and keys: what is displayed stays what is selected, a key names   *)
(* one operation, which is dispatched once, and a retry is given it.       *)
(*                                                                         *)
(* Nothing is assumed of the connection: a request may be lost, answered   *)
(* after it was given up, or reach the server long after the operation has *)
(* moved on.                                                               *)
(***************************************************************************)
EXTENDS Console, DecimalProofs

-----------------------------------------------------------------------------
(* The invariant. *)

\* An order that has not been dispatched, or has been once.
RowOnce(v) ==
    /\ v.submits <= 1
    /\ v.state \in {"AWAITING_CONFIRMATION", "APPROVED"} => v.submits = 0

\* An intent that passed the checks of its own amount and cap.
Affords(intent) == intent.cap \in Affordable[intent.trade]

\* A key names one intent.
RegistryInv ==
    /\ RegistryTypeOK
    /\ \A i \in Ids : RowOnce(intents[i].row) /\ Affords(intents[i])
    /\ \A i, j \in Ids : intents[i].key = intents[j].key => i = j

\* A poll in flight asks for what is selected now.
PollOK(poll) ==
    \/ poll = IdlePoll
    \/ /\ poll = [of |-> poll.of, offers |-> poll.offers]
       /\ poll.of = selected /\ poll.of \in Ids
       /\ poll.offers = None \/ poll.offers \in SUBSET Buttons

ShownInv ==
    /\ selected \in Ids \cup {None}
    /\ detail = None \/ detail \in [of : Ids, offers : SUBSET Buttons]
    /\ polls = [s \in PollSlot |-> polls[s]]
    /\ \A s \in PollSlot : PollOK(polls[s])

\* A request about an operation is about one that exists.
RequestOK(r) == r \in Request /\ (r.type # "CREATE" => r.intent \in Ids)

ReplyOK == reply = [intent |-> reply.intent] /\ reply.intent \in Ids \cup {None}

TrafficInv ==
    /\ clicks \in 0 .. MaxClicks
    /\ \A r \in wire : RequestOK(r)
    /\ awaiting \in Request \cup {None, Refreshing}
    /\ reply = None \/ (awaiting \in Request /\ ReplyOK)

ConsoleInv == RegistryInv /\ ShownInv /\ TrafficInv

-----------------------------------------------------------------------------
(* The registry. *)

\* The commands that are given to an operation here.
Given == {CommandOf[b] : b \in DOMAIN CommandOf} \cup Lessons

\* The columns of a row.
LEMMA RowColumns ==
    ASSUME NEW v \in Row
    PROVE  /\ v.state \in OperationStates /\ v.submits \in Nat
           /\ v.venueOrderId \in VenueId \cup {None} /\ v.executed \in Quantity
           /\ v = [state |-> v.state, venueOrderId |-> v.venueOrderId,
                   executed |-> v.executed, submits |-> v.submits]
BY DEF Row

\* A handler that only moves the state.
LEMMA MoveKeeps ==
    ASSUME NEW v \in Row, RowOnce(v), NEW from, NEW to \in OperationStates,
           NEW w \in Move(v, from, to),
           to \in {"AWAITING_CONFIRMATION", "APPROVED"} => v.submits = 0
    PROVE  w \in Row /\ RowOnce(w)
<1>1. w = [v EXCEPT !.state = to]
  BY DEF Move, Accept
<1>2. /\ w = [state |-> to, venueOrderId |-> v.venueOrderId,
              executed |-> v.executed, submits |-> v.submits]
  BY <1>1, RowColumns
<1>3. w \in Row
  BY <1>2, RowColumns DEF Row
<1>4. w.state = to /\ w.submits = v.submits
  BY <1>2
<1> QED
  BY <1>3, <1>4 DEF RowOnce

\* What the venue reports of an order is never that it waits to be dispatched.
LEMMA ObservedKeeps ==
    ASSUME NEW v \in Row, RowOnce(v), NEW obs \in Observation
    PROVE  Observed(v, obs) \in Row /\ RowOnce(Observed(v, obs))
<1> DEFINE s == StatusToState[obs.status]
           w == Observed(v, obs)
<1>1. /\ obs.status \in VenueStatus /\ obs.venueOrderId \in VenueId
      /\ obs.executed \in Quantity
  BY DEF Observation
<1>2. s \in OperationStates /\ s \notin {"AWAITING_CONFIRMATION", "APPROVED"}
  BY <1>1 DEF StatusToState, VenueStatus, OperationStates
<1> HIDE DEF s
<1>3. w = [state |-> s, venueOrderId |-> obs.venueOrderId,
           executed |-> obs.executed, submits |-> v.submits]
  <2>1. w = [v EXCEPT !.state = s, !.venueOrderId = obs.venueOrderId,
                      !.executed = obs.executed]
    BY DEF Observed, s
  <2> QED
    BY <2>1 DEF Row
<1>4. w \in Row
  BY <1>1, <1>2, <1>3, RowColumns DEF Row
<1>5. w.state = s /\ w.submits = v.submits
  BY <1>3
<1> QED
  BY <1>2, <1>4, <1>5 DEF RowOnce

\* Neither is what a restart makes of an interrupted operation.
LEMMA DemotedKeeps ==
    ASSUME NEW v \in Row, RowOnce(v)
    PROVE  Demoted(v) \in Row /\ RowOnce(Demoted(v))
<1>1. Demoted(v) \in Move(v, {v.state}, "UNKNOWN")
  BY DEF Demoted, Move, Accept
<1> QED
  BY <1>1, MoveKeeps DEF OperationStates

\* Whatever command is given, and however often, the dispatch is not repeated.
LEMMA DecideKeeps ==
    ASSUME NEW v \in Row, RowOnce(v), NEW c \in Given, NEW w \in Decide(v, c)
    PROVE  w \in Row /\ RowOnce(w)
<1>1. CASE v.state \in Terminal
  <2>1. w = v
    BY <1>1 DEF Decide, DecideSettled, ReobserveTerminal, Accept
  <2> QED
    BY <2>1
<1>2. CASE v.state \notin Terminal
  <2>1. w \in DecideOpen(v, c)
    BY <1>2 DEF Decide
  <2>2. CASE c = CommandOf["CONFIRM"]
    <3>1. w \in ConfirmIntent(v)
      BY <2>1, <2>2 DEF DecideOpen, CommandOf
    <3>2. v.submits = 0
      BY <3>1 DEF ConfirmIntent, Move, Accept, RowOnce
    <3> QED
      BY <3>1, <3>2, MoveKeeps DEF ConfirmIntent, OperationStates
  <2>3. CASE c = CommandOf["EXECUTE"]
    <3>1. w \in BeginSubmission(v)
      BY <2>1, <2>3 DEF DecideOpen, CommandOf
    <3>2. /\ w = [v EXCEPT !.state = "SUBMITTING", !.submits = v.submits + 1]
          /\ v.submits = 0
      BY <3>1 DEF BeginSubmission, Accept, RowOnce
    <3>3. w = [state |-> "SUBMITTING", venueOrderId |-> v.venueOrderId,
               executed |-> v.executed, submits |-> 1]
      <4>1. w = [v EXCEPT !.state = "SUBMITTING", !.submits = 1]
        BY <3>2
      <4> QED
        BY <4>1 DEF Row
    <3>4. w \in Row
      BY <3>3, RowColumns DEF Row, OperationStates
    <3> QED
      BY <3>3, <3>4 DEF RowOnce
  <2>4. CASE c = CommandOf["RECONCILE"]
    <3>1. w \in BeginReconciliation(v)
      BY <2>1, <2>4 DEF DecideOpen, CommandOf
    <3> QED
      BY <3>1, MoveKeeps DEF BeginReconciliation, OperationStates
  <2>5. CASE c.type \in {"RECORD_ACKNOWLEDGEMENT", "RECORD_ORDER_OBSERVATION"}
    <3>1. c.observation \in Observation
      BY <2>5 DEF Given, CommandOf, Lessons, Command
    <3>2. \/ w \in RecordAcknowledgement(v, c.observation)
          \/ w \in RecordOrderObservation(v, c.observation)
      BY <2>1, <2>5 DEF DecideOpen
    <3>3. \/ w = Observed(v, c.observation)
          \/ w \in Move(v, {v.state}, "MANUAL_REVIEW")
      BY <3>2 DEF RecordAcknowledgement, RecordOrderObservation, Move, Accept
    <3> QED
      BY <3>1, <3>3, ObservedKeeps, MoveKeeps DEF OperationStates
  <2>6. CASE c.type \in {"RECORD_AMBIGUOUS_SUBMISSION", "RECORD_REJECTION",
                        "BEGIN_RECONCILIATION",
                        "RECORD_RECONCILIATION_UNAVAILABLE"}
    <3>1. \/ w \in RecordAmbiguous(v)
          \/ w \in RecordRejection(v)
          \/ w \in BeginReconciliation(v)
          \/ w \in ReconciliationUnavailable(v)
      BY <2>1, <2>6 DEF DecideOpen
    <3> QED
      BY <3>1, MoveKeeps
      DEF RecordAmbiguous, RecordRejection, BeginReconciliation,
          ReconciliationUnavailable, OperationStates
  <2>7. CASE c.type = "RECORD_ORDER_ABSENT"
    <3>1. w \in RecordOrderAbsent(v, c.windowExhausted)
      BY <2>1, <2>7 DEF DecideOpen
    <3>2. \E to \in {"MANUAL_REVIEW", "NOT_FOUND_SAFE", "UNKNOWN"} :
            w = [v EXCEPT !.state = to]
      BY <3>1 DEF RecordOrderAbsent
    <3>3. PICK to \in {"MANUAL_REVIEW", "NOT_FOUND_SAFE", "UNKNOWN"} :
            w \in Move(v, {v.state}, to)
      BY <3>2 DEF Move, Accept
    <3> QED
      BY <3>3, MoveKeeps DEF OperationStates
  <2>8. CASE c.type = "RECORD_ACCOUNT_OBSERVATION"
    BY <2>1, <2>8 DEF DecideOpen
  <2> QED
    BY <2>2, <2>3, <2>4, <2>5, <2>6, <2>7, <2>8
    DEF Given, CommandOf, Lessons, Command
<1> QED
  BY <1>1, <1>2

\* A new operation is about to be confirmed.
LEMMA NewRowOnce == NewRow \in Row /\ RowOnce(NewRow)
BY MachineAssumption
DEF MachineAssumption, NewRow, Row, RowOnce, OperationStates

\* What a request to create is answered, once the checks of its content are
\* through: what is there under its key decides.
LEMMA OutcomeIs ==
    ASSUME NEW r, r.trade \in Trade
    PROVE  /\ Outcome(r).kind = "CREATED" =>
                WithKey(r.key) = {} /\ Outcome(r).intent = Len(intents) + 1
           /\ Outcome(r).kind = "REUSED" =>
                /\ Outcome(r).intent \in WithKey(r.key)
                /\ \A i \in WithKey(r.key) : intents[i].trade = r.trade
           /\ Outcome(r).kind = "IDEMPOTENCY_CONFLICT" =>
                \E i \in WithKey(r.key) : intents[i].trade # r.trade
           /\ Outcome(r).kind \in {"CREATED", "REUSED"} => Affords(r)
           /\ Outcome(r).kind \notin {"CREATED", "REUSED"} =>
                Outcome(r).intent = None
<1> DEFINE existing == WithKey(r.key)
           valid == r.cap \in Valid[r.trade]
           allowed == r.cap \in Affordable[r.trade]
           conflict == \E i \in existing : intents[i].trade # r.trade
           kind == CASE ~valid -> "VALIDATION_FAILED"
                     [] valid /\ ~allowed -> "NOTIONAL_CAP_EXCEEDED"
                     [] allowed /\ existing = {} -> "CREATED"
                     [] allowed /\ conflict -> "IDEMPOTENCY_CONFLICT"
                     [] allowed /\ existing # {} /\ ~conflict -> "REUSED"
           intent == CASE kind = "CREATED" -> Len(intents) + 1
                       [] kind = "REUSED" -> CHOOSE i \in existing : TRUE
                       [] OTHER -> None
<1>1. Outcome(r) = [kind |-> kind, intent |-> intent]
  BY DEF Outcome, IntentDigest
<1>2. allowed => valid
  BY DEF Affordable, Valid
<1>3. conflict => existing # {}
  OBVIOUS
<1>4. /\ kind = "CREATED" => existing = {}
      /\ kind = "REUSED" => existing # {} /\ ~conflict
      /\ kind = "IDEMPOTENCY_CONFLICT" => conflict
      /\ kind \in {"CREATED", "REUSED"} => allowed
  <2> HIDE DEF valid, allowed, conflict, existing
  <2> QED
    BY <1>2, <1>3
<1>5. existing # {} => (CHOOSE i \in existing : TRUE) \in existing
  OBVIOUS
<1>6. /\ kind = "CREATED" => intent = Len(intents) + 1
      /\ kind = "REUSED" => intent = CHOOSE i \in existing : TRUE
      /\ kind \notin {"CREATED", "REUSED"} => intent = None
  <2> HIDE DEF kind, existing
  <2> QED
    OBVIOUS
<1> HIDE DEF kind, intent
<1> QED
  BY <1>1, <1>4, <1>5, <1>6 DEF Affords

\* What a step leaves of the registry: the intents that were there, under
\* their numbers and keys.
Grows == Ids \subseteq Ids'

\* Creating adds one intent under a key of its own, or none.
LEMMA CreateKeeps ==
    ASSUME RegistryInv, NEW r \in Creation, Create(r)
    PROVE  /\ RegistryInv' /\ Grows
           /\ Outcome(r).intent \in Ids' \cup {None}
<1>1. /\ intents \in Seq(Intent) /\ Len(intents) <= MaxIntents
      /\ Len(intents) \in Nat /\ Ids = 1 .. Len(intents)
      /\ Ids' = 1 .. Len(intents)' \/ UNCHANGED intents
      /\ \A i \in Ids : intents[i] \in Intent
  <2>1. intents \in Seq(Intent) /\ Len(intents) <= MaxIntents
    BY DEF RegistryInv, RegistryTypeOK
  <2>2. Ids' = 1 .. Len(intents)' \/ UNCHANGED intents
    BY <2>1 DEF Create, Ids
  <2> QED
    BY <2>1, <2>2 DEF Ids
<1>0. r.trade \in Trade
  BY DEF Creation
<1>2. CASE Outcome(r).kind = "CREATED"
  <2> DEFINE new == [key |-> r.key, trade |-> r.trade, cap |-> r.cap,
                     row |-> NewRow]
             next == Append(intents, new)
  <2>1. /\ intents' = next /\ Len(intents) < MaxIntents
        /\ WithKey(r.key) = {} /\ Outcome(r).intent = Len(intents) + 1
        /\ Affords(r)
    BY <1>0, <1>2, OutcomeIs DEF Create
  <2>2. new \in Intent /\ RowOnce(new.row) /\ Affords(new)
    BY <2>1, NewRowOnce DEF Creation, Intent, Affords
  <2>3. new.key = r.key
    OBVIOUS
  <2> HIDE DEF new
  <2>4. /\ next \in Seq(Intent) /\ Len(next) = Len(intents) + 1
        /\ \A i \in Ids : next[i] = intents[i]
        /\ next[Len(intents) + 1] = new
    BY <1>1, <2>2
  <2>5. Ids' = Ids \cup {Len(intents) + 1} /\ Len(intents) + 1 \notin Ids
    BY <1>1, <2>1, <2>4 DEF Ids
  <2> HIDE DEF next
  <2>6. RegistryTypeOK'
    BY <1>1, <2>1, <2>4, RegistryAssumption
    DEF RegistryTypeOK, RegistryAssumption
  <2>7. \A i \in Ids' : RowOnce(intents'[i].row) /\ Affords(intents'[i])
    BY <2>1, <2>2, <2>4, <2>5 DEF RegistryInv
  <2>8. \A i \in Ids : intents[i].key # r.key
    BY <2>1 DEF WithKey
  <2>9. ASSUME NEW i \in Ids', NEW j \in Ids', intents'[i].key = intents'[j].key
        PROVE  i = j
    BY <2>1, <2>3, <2>4, <2>5, <2>8, <2>9 DEF RegistryInv
  <2>10. RegistryInv'
    BY <2>6, <2>7, <2>9 DEF RegistryInv, RowOnce, Affords
  <2> QED
    BY <2>1, <2>5, <2>10 DEF Grows
<1>3. CASE Outcome(r).kind # "CREATED"
  <2>1. UNCHANGED intents
    BY <1>3 DEF Create
  <2>2. RegistryInv' /\ Ids' = Ids
    BY <2>1 DEF RegistryInv, RegistryTypeOK, Ids
  <2>3. Outcome(r).intent \in Ids \cup {None}
    BY <1>0, <1>3, OutcomeIs DEF WithKey
  <2> QED
    BY <2>2, <2>3 DEF Grows
<1> QED
  BY <1>2, <1>3

\* A new row for the operation of one intent changes nothing of its identity.
LEMMA RowKeeps ==
    ASSUME RegistryInv, NEW i \in Ids, NEW row \in Row, RowOnce(row),
           intents' = [intents EXCEPT ![i].row = row]
    PROVE  RegistryInv' /\ Grows
<1>1. /\ intents \in Seq(Intent) /\ Ids = 1 .. Len(intents)
      /\ Len(intents) \in Nat
      /\ \A k \in Ids : intents[k] \in Intent /\ RowOnce(intents[k].row)
  BY DEF RegistryInv, RegistryTypeOK, Ids
<1> DEFINE new == [intents[i] EXCEPT !.row = row]
<1>2. /\ new \in Intent /\ new.row = row
      /\ new.key = intents[i].key /\ Affords(new)
  <2>1. intents[i] \in Intent
    BY <1>1
  <2> QED
    BY <2>1 DEF Intent, RegistryInv, Affords
<1>3. intents' = [intents EXCEPT ![i] = new]
  OBVIOUS
<1> HIDE DEF new
<1>4. /\ intents' \in Seq(Intent) /\ Len(intents') = Len(intents)
      /\ Ids' = Ids
      /\ \A k \in Ids : intents'[k] = IF k = i THEN new ELSE intents[k]
  BY <1>1, <1>2, <1>3 DEF Ids
<1>5. RegistryTypeOK'
  BY <1>4 DEF RegistryInv, RegistryTypeOK
<1>6. \A k \in Ids' : RowOnce(intents'[k].row) /\ Affords(intents'[k])
  BY <1>1, <1>2, <1>4 DEF RegistryInv
<1>7. ASSUME NEW k \in Ids', NEW j \in Ids', intents'[k].key = intents'[j].key
      PROVE  k = j
  BY <1>2, <1>4, <1>7 DEF RegistryInv
<1> QED
  BY <1>4, <1>5, <1>6, <1>7 DEF RegistryInv, RowOnce, Affords, Grows

LEMMA StoredRow ==
    ASSUME RegistryInv, NEW i \in Ids
    PROVE  intents[i].row \in Row /\ RowOnce(intents[i].row)
<1>1. intents[i] \in Intent
  BY DEF RegistryInv, RegistryTypeOK, Ids
<1> QED
  BY <1>1 DEF RegistryInv, Intent

\* A command moves the row of one intent, or is refused.
LEMMA CommandKeeps ==
    ASSUME RegistryInv, NEW i \in Ids, NEW c \in Given, OnOperation(i, c)
    PROVE  RegistryInv' /\ Grows
<1>1. CASE UNCHANGED intents
  BY <1>1 DEF RegistryInv, RegistryTypeOK, Ids, Grows
<1>2. CASE Accepts(i, c)
  <2>1. PICK row \in Decide(intents[i].row, c) :
          intents' = [intents EXCEPT ![i].row = row]
    BY <1>2 DEF Accepts
  <2>2. row \in Row /\ RowOnce(row)
    BY StoredRow, DecideKeeps
  <2> QED
    BY <2>1, <2>2, RowKeeps
<1> QED
  BY <1>1, <1>2 DEF OnOperation

-----------------------------------------------------------------------------
(* The display and the requests. *)

\* At the start nothing is stored, selected or on its way.
LEMMA InitialConsole == Init => ConsoleInv
<1> SUFFICES ASSUME Init PROVE ConsoleInv
  OBVIOUS
<1>1. RegistryInv
  <2>1. intents = <<>> /\ Ids = {} /\ Len(intents) = 0 /\ MaxIntents \in Nat
    BY RegistryAssumption DEF Init, Ids, RegistryAssumption
  <2> QED
    BY <2>1 DEF RegistryInv, RegistryTypeOK
<1>2. ShownInv
  BY DEF Init, ShownInv, NoPolls, PollOK
<1>3. TrafficInv
  BY ConsoleAssumption DEF Init, TrafficInv, ConsoleAssumption
<1> QED
  BY <1>1, <1>2, <1>3 DEF ConsoleInv

\* What the display shows survives the server's steps.
LEMMA ShownKept ==
    ASSUME ShownInv, Grows, UNCHANGED shown
    PROVE  ShownInv'
<1>1. UNCHANGED <<selected, detail, polls>> /\ Ids \subseteq Ids'
  BY DEF shown, Grows
<1>2. detail = None \/ detail \in [of : Ids', offers : SUBSET Buttons]
  BY <1>1 DEF ShownInv
<1>3. ASSUME NEW s \in PollSlot
      PROVE  PollOK(polls[s])'
  BY <1>1 DEF ShownInv, PollOK
<1> QED
  BY <1>1, <1>2, <1>3 DEF ShownInv

\* So do the requests on their way.
LEMMA TrafficKept ==
    ASSUME TrafficInv, Grows, UNCHANGED traffic
    PROVE  TrafficInv'
<1>1. UNCHANGED <<clicks, wire, awaiting, reply>> /\ Ids \subseteq Ids'
  BY DEF traffic, Grows
<1>2. \A r \in wire' : RequestOK(r)'
  BY <1>1 DEF TrafficInv, RequestOK
<1>3. reply = None \/ (awaiting \in Request /\ ReplyOK')
  BY <1>1 DEF TrafficInv, ReplyOK
<1> QED
  BY <1>1, <1>2, <1>3 DEF TrafficInv

\* Selecting an operation drops the polls of the one before.
LEMMA SelectKeeps ==
    ASSUME ShownInv, NEW i \in Ids \cup {None}, SelectNow(i), UNCHANGED intents
    PROVE  ShownInv'
<1>1. Ids' = Ids
  BY DEF Ids
<1>2. CASE i = selected /\ UNCHANGED shown
  BY <1>1, <1>2, ShownKept DEF Grows
<1>3. CASE i # selected /\ i # None
  <2>1. PICK s \in PollSlot :
          /\ selected' = i /\ detail' = detail
          /\ polls' = [NoPolls EXCEPT ![s] = Asked(i)]
    BY <1>3 DEF SelectNow, CancelPolls
  <2>2. i \in Ids
    BY <1>3
  <2>3. /\ polls' = [q \in PollSlot |-> polls'[q]]
        /\ \A q \in PollSlot : polls'[q] = IF q = s THEN Asked(i) ELSE IdlePoll
    BY <2>1 DEF NoPolls
  <2>4. \A q \in PollSlot : PollOK(polls[q])'
    BY <1>1, <2>1, <2>2, <2>3 DEF PollOK, Asked
  <2> QED
    BY <1>1, <2>1, <2>2, <2>3, <2>4 DEF ShownInv
<1>4. CASE i # selected /\ i = None
  <2>1. selected' = None /\ detail' = None /\ polls' = NoPolls
    BY <1>4 DEF SelectNow, CancelPolls
  <2> QED
    BY <2>1 DEF ShownInv, NoPolls, PollOK
<1> QED
  BY <1>2, <1>3, <1>4 DEF SelectNow

\* A poll is asked, answered, delivered or lost.
LEMMA PollKeeps ==
    ASSUME RegistryInv, ShownInv, NEW s \in PollSlot,
           PollAsk(s) \/ PollAnswer(s) \/ PollDeliver(s) \/ PollFail(s)
    PROVE  ShownInv' /\ UNCHANGED <<intents, selected, traffic>>
<1>1. UNCHANGED <<intents, selected, traffic>> /\ Ids' = Ids
  BY DEF PollAsk, PollAnswer, PollDeliver, PollFail, Ids
<1>2. SUFFICES /\ detail' = None \/ detail' \in [of : Ids, offers : SUBSET Buttons]
               /\ \E poll : polls' = [polls EXCEPT ![s] = poll] /\ PollOK(poll)
  <2>1. PICK poll : polls' = [polls EXCEPT ![s] = poll] /\ PollOK(poll)
    BY <1>2
  <2>2. /\ polls' = [q \in PollSlot |-> polls'[q]]
        /\ \A q \in PollSlot : polls'[q] = IF q = s THEN poll ELSE polls[q]
    BY <2>1 DEF ShownInv
  <2>3. \A q \in PollSlot : PollOK(polls[q])'
    BY <1>1, <2>1, <2>2 DEF ShownInv, PollOK
  <2> QED
    BY <1>1, <1>2, <2>2, <2>3 DEF ShownInv
<1>3. /\ detail = None \/ detail \in [of : Ids, offers : SUBSET Buttons]
      /\ PollOK(polls[s]) /\ selected \in Ids \cup {None}
      /\ PollOK(IdlePoll)
  BY DEF ShownInv, PollOK
<1>4. CASE PollAsk(s)
  <2>1. PollOK(Asked(selected))
    BY <1>3, <1>4 DEF PollAsk, PollOK, Asked
  <2> QED
    BY <1>3, <1>4, <2>1 DEF PollAsk
<1>5. CASE PollAnswer(s)
  <2> DEFINE answer == Offers(intents[polls[s].of].row)
             poll == [of |-> polls[s].of, offers |-> answer]
  <2>1. /\ polls[s] = [of |-> polls[s].of, offers |-> polls[s].offers]
        /\ polls[s].of = selected /\ polls[s].of \in Ids
    BY <1>3, <1>5 DEF PollAnswer, PollOK, IdlePoll
  <2>2. answer \in SUBSET Buttons
    BY DEF Offers
  <2>3. polls' = [polls EXCEPT ![s].offers = answer] /\ detail' = detail
    BY <1>5 DEF PollAnswer
  <2> HIDE DEF answer
  <2>4. polls' = [polls EXCEPT ![s] = poll]
    <3>1. PICK old : /\ old = polls[s] /\ poll = [of |-> old.of, offers |-> answer]
                     /\ old = [of |-> old.of, offers |-> old.offers]
      BY <2>1
    <3>2. [old EXCEPT !.offers = answer] = poll
      BY <3>1
    <3>3. polls' = [polls EXCEPT ![s] = [old EXCEPT !.offers = answer]]
      BY <2>3, <3>1
    <3> QED
      BY <3>2, <3>3
  <2>5. PollOK(poll)
    BY <2>1, <2>2 DEF PollOK
  <2> QED
    BY <1>3, <2>3, <2>4, <2>5
<1>6. CASE PollDeliver(s)
  <2>1. detail' = polls[s] /\ polls' = [polls EXCEPT ![s] = IdlePoll]
        /\ polls[s].offers # None
    BY <1>6 DEF PollDeliver
  <2>2. polls[s] \in [of : Ids, offers : SUBSET Buttons]
    BY <1>3, <2>1 DEF PollOK, IdlePoll
  <2> QED
    BY <1>3, <2>1, <2>2
<1>7. CASE PollFail(s)
  BY <1>3, <1>7 DEF PollFail
<1> QED
  BY <1>4, <1>5, <1>6, <1>7

\* A click sends one request, about an operation that is displayed.
LEMMA ClickKeeps ==
    ASSUME ConsoleInv, UNCHANGED <<intents, shown, reply>>,
           NEW request, RequestOK(request), Send(request)
    PROVE  TrafficInv'
<1>1. Ids' = Ids
  BY DEF Ids
<1>2. /\ clicks < MaxClicks /\ clicks' = clicks + 1
      /\ wire' = wire \cup {request} /\ awaiting' = request /\ awaiting = None
      /\ reply' = reply
  BY DEF Send
<1>3. clicks' \in 0 .. MaxClicks
  BY <1>2, ConsoleAssumption DEF ConsoleAssumption, ConsoleInv, TrafficInv
<1>4. \A r \in wire' : RequestOK(r)'
  BY <1>1, <1>2 DEF ConsoleInv, TrafficInv, RequestOK
<1>5. awaiting' \in Request
  BY <1>2 DEF RequestOK
<1>6. reply = None \/ ReplyOK'
  BY <1>1, <1>2 DEF ConsoleInv, TrafficInv, ReplyOK
<1> QED
  BY <1>2, <1>3, <1>4, <1>5, <1>6 DEF TrafficInv

\* A request to create, with a fresh key.
LEMMA SubmitKeeps ==
    ASSUME ConsoleInv, NEW w \in Wanted, SubmitForm(w)
    PROVE  ConsoleInv'
<1> DEFINE creation == [key |-> clicks + 1, trade |-> w.trade, cap |-> w.cap]
           request == [click |-> clicks + 1, type |-> "CREATE",
                       creation |-> creation]
<1>1. clicks + 1 \in 1 .. MaxClicks /\ Send(request)
  BY ConsoleAssumption
  DEF ConsoleAssumption, SubmitForm, Send, ConsoleInv, TrafficInv
<1>2. creation \in Creation
  BY <1>1, ConsoleAssumption DEF ConsoleAssumption, Creation
<1>3. RequestOK(request)
  BY <1>1, <1>2 DEF RequestOK, Request
<1> HIDE DEF request
<1>4. UNCHANGED <<intents, shown, reply>>
  BY <1>1 DEF Send
<1>5. TrafficInv'
  BY <1>1, <1>3, <1>4, ClickKeeps
<1>6. RegistryInv' /\ Grows
  BY <1>4 DEF ConsoleInv, RegistryInv, RegistryTypeOK, Ids, Grows
<1> QED
  BY <1>4, <1>5, <1>6, ShownKept DEF ConsoleInv

\* A button, for the operation that is displayed.
LEMMA PressKeeps ==
    ASSUME ConsoleInv, NEW button \in DOMAIN CommandOf, Press(button)
    PROVE  ConsoleInv'
<1> DEFINE request == [click |-> clicks + 1, type |-> button,
                       intent |-> detail.of]
<1>1. clicks + 1 \in 1 .. MaxClicks /\ Send(request)
  BY ConsoleAssumption
  DEF ConsoleAssumption, Press, Send, ConsoleInv, TrafficInv
<1>2. detail.of \in Ids
  BY DEF Press, ConsoleInv, ShownInv
<1>3. detail.of \in IntentId
  BY <1>2, RegistryAssumption
  DEF RegistryAssumption, IntentId, Ids, ConsoleInv, RegistryInv,
      RegistryTypeOK
<1>4. button \in {"CONFIRM", "EXECUTE", "RECONCILE"}
  BY DEF CommandOf
<1>5. RequestOK(request)
  BY <1>1, <1>2, <1>3, <1>4 DEF RequestOK, Request, Buttons
<1> HIDE DEF request
<1>6. UNCHANGED <<intents, shown, reply>>
  BY <1>1 DEF Send
<1>7. TrafficInv'
  BY <1>1, <1>5, <1>6, ClickKeeps
<1>8. RegistryInv' /\ Grows
  BY <1>6 DEF ConsoleInv, RegistryInv, RegistryTypeOK, Ids, Grows
<1> QED
  BY <1>6, <1>7, <1>8, ShownKept DEF ConsoleInv

\* An answer, in time or given up.
LEMMA AnswerKeeps ==
    ASSUME ConsoleInv, Receive \/ GiveUp \/ RefreshEnds
    PROVE  ConsoleInv'
<1>1. UNCHANGED <<intents, clicks, wire>> /\ Ids' = Ids
  BY DEF Receive, GiveUp, RefreshEnds, Ids
<1>2. RegistryInv' /\ Grows
  BY <1>1 DEF ConsoleInv, RegistryInv, RegistryTypeOK, Ids, Grows
<1>3. TrafficInv'
  <2>1. /\ awaiting' \in {None, Refreshing}
        /\ reply' = None \/ (reply' = reply /\ awaiting = Refreshing)
    BY DEF Receive, GiveUp, RefreshEnds
  <2>2. reply' = None
    <3>1. Refreshing \notin Request
      BY DEF Refreshing, Request
    <3> QED
      BY <2>1, <3>1 DEF ConsoleInv, TrafficInv
  <2>3. \A r \in wire' : RequestOK(r)'
    BY <1>1 DEF ConsoleInv, TrafficInv, RequestOK
  <2> QED
    BY <1>1, <2>1, <2>2, <2>3 DEF ConsoleInv, TrafficInv
<1>4. ShownInv'
  <2>1. CASE Receive
    <3> DEFINE i == IF reply.intent = None THEN selected ELSE reply.intent
    <3>1. reply.intent \in Ids \cup {None} /\ selected \in Ids \cup {None}
      BY <2>1 DEF Receive, ConsoleInv, TrafficInv, ReplyOK, ShownInv
    <3>2. i \in Ids \cup {None} /\ SelectNow(i)
      BY <2>1, <3>1 DEF Receive
    <3> HIDE DEF i
    <3> QED
      BY <1>1, <3>2, SelectKeeps DEF ConsoleInv
  <2>2. CASE GiveUp \/ RefreshEnds
    BY <1>2, <2>2, ShownKept DEF GiveUp, RefreshEnds, ConsoleInv
  <2> QED
    BY <2>1, <2>2
<1> QED
  BY <1>2, <1>3, <1>4 DEF ConsoleInv

-----------------------------------------------------------------------------
(* The server. *)

\* A request is answered if the console still waits for it.
LEMMA AnsweredKeeps ==
    ASSUME ConsoleInv, NEW r \in wire, NEW i, Grows, Answered(r, i),
           i \in Ids' \cup {None}
    PROVE  ShownInv' /\ TrafficInv'
<1>1. /\ UNCHANGED <<shown, clicks, awaiting>> /\ wire' \subseteq wire
      /\ reply' = reply \/ (reply' = [intent |-> i] /\ awaiting = r)
  BY DEF Answered
<1>2. ShownInv'
  BY <1>1, ShownKept DEF ConsoleInv
<1>3. \A q \in wire' : RequestOK(q)'
  BY <1>1 DEF ConsoleInv, TrafficInv, RequestOK, Grows
<1>4. r \in Request
  BY DEF ConsoleInv, TrafficInv, RequestOK
<1>5. CASE reply' = reply
  <2>1. reply = None \/ (awaiting \in Request /\ ReplyOK')
    BY <1>5 DEF ConsoleInv, TrafficInv, ReplyOK, Grows
  <2> QED
    BY <1>1, <1>2, <1>3, <1>5, <2>1 DEF ConsoleInv, TrafficInv
<1>6. CASE reply' = [intent |-> i] /\ awaiting = r
  <2>1. ReplyOK'
    BY <1>6 DEF ReplyOK
  <2> QED
    BY <1>1, <1>2, <1>3, <1>4, <1>6, <2>1 DEF ConsoleInv, TrafficInv
<1> QED
  BY <1>1, <1>5, <1>6

\* A request arrives, soon or late.
LEMMA HandleKeeps ==
    ASSUME ConsoleInv, NEW r \in wire,
           HandleCreate(r) \/ HandleCommand(r) \/ Unhandled(r)
    PROVE  ConsoleInv'
<1>1. RequestOK(r) /\ RegistryInv
  BY DEF ConsoleInv, TrafficInv
<1>2. CASE HandleCreate(r)
  <2>1. r.creation \in Creation
    BY <1>1, <1>2 DEF HandleCreate, RequestOK, Request, Buttons
  <2>2. RegistryInv' /\ Grows /\ Outcome(r.creation).intent \in Ids' \cup {None}
    BY <1>1, <1>2, <2>1, CreateKeeps DEF HandleCreate
  <2> QED
    BY <1>2, <2>2, AnsweredKeeps DEF HandleCreate, ConsoleInv
<1>3. CASE HandleCommand(r)
  <2>1. r.intent \in Ids /\ CommandOf[r.type] \in Given
    <3>1. r.type \in {"CONFIRM", "EXECUTE", "RECONCILE"}
      BY <1>1, <1>3 DEF HandleCommand, RequestOK, Request, Buttons
    <3>2. r.type \in DOMAIN CommandOf
      BY <3>1 DEF CommandOf
    <3> QED
      BY <1>1, <1>3, <3>2 DEF HandleCommand, RequestOK, Given
  <2>2. RegistryInv' /\ Grows
    BY <1>1, <1>3, <2>1, CommandKeeps DEF HandleCommand
  <2> QED
    BY <1>3, <2>2, AnsweredKeeps DEF HandleCommand, ConsoleInv
<1>4. CASE Unhandled(r)
  <2>1. UNCHANGED intents /\ Answered(r, None)
    BY <1>4 DEF Unhandled
  <2>2. RegistryInv' /\ Grows
    BY <1>1, <2>1 DEF RegistryInv, RegistryTypeOK, Ids, Grows
  <2> QED
    BY <2>1, <2>2, AnsweredKeeps DEF ConsoleInv
<1> QED
  BY <1>2, <1>3, <1>4

\* The agent and the service move operations beside the console.
LEMMA OthersKeep ==
    ASSUME ConsoleInv,
           \/ \E w \in Wanted : AgentCreates(w)
           \/ \E i \in Ids :
                \/ ServiceLearns(i) \/ ServerRestarts(i)
                \/ \E type \in {"CONFIRM", "EXECUTE"} : AgentCommands(i, type)
    PROVE  ConsoleInv'
<1>1. UNCHANGED <<shown, traffic>>
  BY DEF AgentCreates, ServiceLearns, ServerRestarts, AgentCommands
<1>2. RegistryInv' /\ Grows
  <2>1. CASE \E w \in Wanted : AgentCreates(w)
    <3>1. PICK w \in Wanted :
            Create([key |-> AgentKey, trade |-> w.trade, cap |-> w.cap])
      BY <2>1 DEF AgentCreates
    <3>2. [key |-> AgentKey, trade |-> w.trade, cap |-> w.cap] \in Creation
      BY ConsoleAssumption DEF ConsoleAssumption, Creation
    <3> QED
      BY <3>1, <3>2, CreateKeeps DEF ConsoleInv
  <2>2. ASSUME NEW i \in Ids, NEW c \in Given, Accepts(i, c)
        PROVE  RegistryInv' /\ Grows
    BY <2>2, CommandKeeps DEF ConsoleInv, OnOperation
  <2>3. ASSUME NEW i \in Ids, ServiceLearns(i)
        PROVE  RegistryInv' /\ Grows
    BY <2>2, <2>3 DEF ServiceLearns, Given
  <2>4. ASSUME NEW i \in Ids, NEW type \in {"CONFIRM", "EXECUTE"},
               AgentCommands(i, type)
        PROVE  RegistryInv' /\ Grows
    <3>1. type \in DOMAIN CommandOf
      BY DEF CommandOf
    <3> QED
      BY <2>2, <2>4, <3>1 DEF AgentCommands, Given
  <2>5. ASSUME NEW i \in Ids, ServerRestarts(i)
        PROVE  RegistryInv' /\ Grows
    <3>1. /\ Demoted(intents[i].row) \in Row
          /\ RowOnce(Demoted(intents[i].row))
      BY StoredRow, DemotedKeeps DEF ConsoleInv
    <3>2. intents' = [intents EXCEPT ![i].row = Demoted(intents[i].row)]
      BY <2>5 DEF ServerRestarts
    <3> QED
      BY <3>1, <3>2, RowKeeps DEF ConsoleInv
  <2> QED
    BY <2>1, <2>3, <2>4, <2>5
<1> QED
  BY <1>1, <1>2, ShownKept, TrafficKept DEF ConsoleInv

\* Every step keeps the invariant.
LEMMA ConsoleStep == ConsoleInv /\ [Next]_vars => ConsoleInv'
<1> SUFFICES ASSUME ConsoleInv, [Next]_vars PROVE ConsoleInv'
  OBVIOUS
<1>1. CASE UNCHANGED vars
  <2>1. RegistryInv' /\ Grows
    BY <1>1 DEF vars, ConsoleInv, RegistryInv, RegistryTypeOK, Ids, Grows
  <2>2. UNCHANGED <<shown, traffic>>
    BY <1>1 DEF vars, shown, traffic
  <2> QED
    BY <2>1, <2>2, ShownKept, TrafficKept DEF ConsoleInv
<1>2. ASSUME UNCHANGED <<intents, traffic>>, ShownInv'
      PROVE  ConsoleInv'
  <2>1. RegistryInv' /\ Grows
    BY <1>2 DEF ConsoleInv, RegistryInv, RegistryTypeOK, Ids, Grows
  <2> QED
    BY <1>2, <2>1, TrafficKept DEF ConsoleInv
<1>3. ASSUME NEW i \in Ids \cup {None}, Select(i)
      PROVE  ConsoleInv'
  BY <1>2, <1>3, SelectKeeps DEF Select, ConsoleInv
<1>4. ASSUME NEW s \in PollSlot,
             PollAsk(s) \/ PollAnswer(s) \/ PollDeliver(s) \/ PollFail(s)
      PROVE  ConsoleInv'
  BY <1>2, <1>4, PollKeeps DEF ConsoleInv
<1> QED
  BY <1>1, <1>3, <1>4, SubmitKeeps, PressKeeps, AnswerKeeps, HandleKeeps,
     OthersKeep DEF Next

-----------------------------------------------------------------------------
(* The properties. *)

\* The invariant holds in every state.
THEOREM ConsoleInvariant == ConsoleSpec => []ConsoleInv
BY InitialConsole, ConsoleStep, PTL DEF ConsoleSpec

\* What is selected and displayed exists, polls ask for what is selected, and
\* at most one request is waited for.
THEOREM ConsoleTypeCorrect == ConsoleSpec => []ConsoleTypeOK
<1>1. ASSUME ConsoleInv PROVE ConsoleTypeOK
  <2>1. wire \subseteq Request
    BY <1>1 DEF ConsoleInv, TrafficInv, RequestOK
  <2>2. \A s \in PollSlot :
          polls[s] = IdlePoll \/ (polls[s].of = selected /\ polls[s].of \in Ids)
    BY <1>1 DEF ConsoleInv, ShownInv, PollOK
  <2> QED
    BY <1>1, <2>1, <2>2
    DEF ConsoleInv, RegistryInv, ShownInv, TrafficInv, ConsoleTypeOK
<1> QED
  BY <1>1, ConsoleInvariant, PTL

\* However often an order is created, confirmed and executed under one key, by
\* the console, an agent or a late retry, it is dispatched once.
THEOREM KeyDispatchedOnce == ConsoleSpec => []OneDispatchPerKey
<1>1. ASSUME ConsoleInv PROVE OneDispatchPerKey
  <2> SUFFICES ASSUME NEW i \in Ids, intents[i].row.submits > 0
               PROVE  intents[i].row.submits = 1 /\ WithKey(intents[i].key) = {i}
    BY DEF OneDispatchPerKey
  <2>1. intents[i].row.submits \in Nat /\ intents[i].row.submits <= 1
    <3>1. intents[i] \in Intent
      BY <1>1 DEF ConsoleInv, RegistryInv, RegistryTypeOK, Ids
    <3> QED
      BY <1>1, <3>1 DEF ConsoleInv, RegistryInv, RowOnce, Intent, Row
  <2>2. WithKey(intents[i].key) = {i}
    BY <1>1 DEF ConsoleInv, RegistryInv, WithKey
  <2> QED
    BY <2>1, <2>2
<1> QED
  BY <1>1, ConsoleInvariant, PTL

\* A retry of a trade with its key is never called a conflict, whatever cap it
\* carries and whatever has happened to its operation (intentDigest leaves the
\* cap out).
THEOREM RetryIsNoConflict == ConsoleSpec => []ConflictIsReal
<1>1. ASSUME ConsoleInv PROVE ConflictIsReal
  <2> SUFFICES ASSUME NEW i \in Ids, NEW cap \in Cap
               PROVE  Outcome([intents[i] EXCEPT !.cap = cap]).kind
                        # "IDEMPOTENCY_CONFLICT"
    BY DEF ConflictIsReal
  <2> DEFINE retry == [intents[i] EXCEPT !.cap = cap]
  <2>1. intents[i] \in Intent
    BY <1>1 DEF ConsoleInv, RegistryInv, RegistryTypeOK, Ids
  <2>2. /\ retry.key = intents[i].key /\ retry.trade = intents[i].trade
        /\ retry.trade \in Trade
    BY <2>1 DEF Intent
  <2>3. WithKey(retry.key) = {i}
    BY <1>1, <2>2 DEF ConsoleInv, RegistryInv, WithKey
  <2> HIDE DEF retry
  <2>4. Outcome(retry).kind # "IDEMPOTENCY_CONFLICT"
    BY <2>2, <2>3, OutcomeIs
  <2> QED
    BY <2>4 DEF retry
<1> QED
  BY <1>1, ConsoleInvariant, PTL

-----------------------------------------------------------------------------
(* The caps. *)

LEMMA SumOfPlaces ==
    ASSUME NEW i \in Nat, NEW j \in Nat, NEW k \in Nat
    PROVE  /\ i + j \in Nat /\ i + j + k \in Nat
           /\ i <= i + j /\ j <= i + j /\ j <= i + j + k
OBVIOUS

LEMMA UnitsInt ==
    ASSUME NEW a \in Decimal, NEW places \in Nat, Len(a.fraction) <= places
    PROVE  Units(a, places) \in Int
<1>1. Units(a, places) = Scaled(a) * Pow10[places - Len(a.fraction)]
  BY UnitsAre
<1>2. places - Len(a.fraction) \in Nat
  BY DecimalDigits
<1>3. Scaled(a) \in Int /\ Pow10[places - Len(a.fraction)] \in Int
  BY <1>2, DecimalDigits, Pow10Int
<1> QED
  BY <1>1, <1>3

LEMMA SignOfNone ==
    ASSUME NEW l \in Int, NEW r \in Int
    PROVE  Sign(l, r) <= 0 <=> l <= r
BY DEF Sign

\* The comparison the code makes is the one the digits ask for.
LEMMA AtMostIs ==
    ASSUME NEW a \in Decimal, NEW b \in Decimal
    PROVE  CompareDecimal(a, b) <= 0 <=> AtMost(a, b)
<1> DEFINE places == Len(a.fraction) + Len(b.fraction)
<1>1. /\ places \in Nat
      /\ Len(a.fraction) <= places /\ Len(b.fraction) <= places
  <2>1. Len(a.fraction) \in Nat /\ Len(b.fraction) \in Nat
    BY DecimalDigits
  <2> QED
    BY <2>1, SumOfPlaces
<1>2. AtMost(a, b) <=> Units(a, places) <= Units(b, places)
  BY DEF AtMost
<1> HIDE DEF places
<1>3. CompareDecimal(a, b) = Sign(Units(a, places), Units(b, places))
  BY <1>1, CompareExact
<1>4. Units(a, places) \in Int /\ Units(b, places) \in Int
  BY <1>1, UnitsInt
<1> QED
  BY <1>2, <1>3, <1>4, SignOfNone

LEMMA ProductAtMostIs ==
    ASSUME NEW a \in Decimal, NEW b \in Decimal, NEW c \in Decimal
    PROVE  /\ MultiplyDecimal(a, b) \in Decimal
           /\ CompareDecimal(MultiplyDecimal(a, b), c) <= 0
                <=> ProductAtMost(a, b, c)
<1> DEFINE left == Len(a.fraction) + Len(c.fraction)
           right == Len(b.fraction)
           places == left + right
           product == MultiplyDecimal(a, b)
<1>1. /\ left \in Nat /\ right \in Nat /\ places \in Nat
      /\ Len(a.fraction) <= left /\ Len(b.fraction) <= right
      /\ Len(c.fraction) <= places
  <2> DEFINE i == Len(a.fraction)
             j == Len(c.fraction)
             k == Len(b.fraction)
  <2>1. i \in Nat /\ j \in Nat /\ k \in Nat
    BY DecimalDigits
  <2> HIDE DEF i, j, k
  <2>2. /\ i + j \in Nat /\ i + j + k \in Nat
        /\ i <= i + j /\ k <= k /\ j <= i + j + k
    BY <2>1, SumOfPlaces
  <2> QED
    BY <2>1, <2>2 DEF i, j, k
<1>2. ProductAtMost(a, b, c)
        <=> Units(a, left) * Units(b, right) <= Units(c, places)
  BY DEF ProductAtMost
<1> HIDE DEF left, right
<1>3. /\ product \in Decimal /\ Len(product.fraction) <= places
      /\ Units(product, places) = Units(a, left) * Units(b, right)
  BY <1>1, MultiplyExact
<1> HIDE DEF places, product
<1>4. CompareDecimal(product, c) = Sign(Units(product, places), Units(c, places))
  BY <1>1, <1>3, CompareExact
<1>5. Units(product, places) \in Int /\ Units(c, places) \in Int
  BY <1>1, <1>3, UnitsInt
<1>6. CompareDecimal(product, c) <= 0 <=> ProductAtMost(a, b, c)
  BY <1>2, <1>3, <1>4, <1>5, SignOfNone
<1> QED
  BY <1>3, <1>6 DEF product

\* What the caps allow, by the meaning of the amounts.
Exact(t) == IF t \in Unpriced THEN Cap ELSE TrueCaps[t] \cap CapsBelowServers

\* The checks of createIntent admit exactly that, of what its schema lets by.
LEMMA AffordableIsExact ==
    ASSUME NEW t \in Trade
    PROVE  Affordable[t] = Valid[t] \cap Exact(t)
<1> DEFINE f == Fields[t]
<1>1. /\ f.orderType \in {"MARKET", "LIMIT"}
      /\ f.quantity \in Amount /\ f.quoteQuantity \in Amount
      /\ f.limitPrice \in Amount
  BY RegistryAssumption DEF RegistryAssumption
<1>2. Cap \subseteq Decimal /\ ServerCap \in Decimal /\ None \notin Decimal
  BY RegistryAssumption DEF RegistryAssumption
<1>3. ASSUME NEW cap \in Valid[t]
      PROVE  WithinCaps(t, cap) <=> cap \in Exact(t)
  <2>1. cap \in Cap /\ cap \in Decimal /\ WellFormed(t, cap)
    BY <1>2 DEF Valid
  <2>2. /\ (f.quantity = None) # (f.quoteQuantity = None)
        /\ f.orderType = "LIMIT" => f.limitPrice # None /\ f.quoteQuantity = None
        /\ f.orderType = "MARKET" => f.limitPrice = None
    BY <2>1 DEF WellFormed
  <2>3. t \in Unpriced <=> f.orderType = "MARKET" /\ f.quoteQuantity = None
    BY DEF Unpriced
  <2>4. /\ cap \in TrueCaps[t] <=> WorthAtMost(t, cap)
        /\ cap \in CapsBelowServers <=> AtMost(cap, ServerCap)
    BY <2>1 DEF TrueCaps, CapsBelowServers
  <2>5. WorthAtMost(t, cap) <=>
          /\ f.quoteQuantity # None => AtMost(f.quoteQuantity, cap)
          /\ f.limitPrice # None =>
               ProductAtMost(f.quantity, f.limitPrice, cap)
    BY DEF WorthAtMost
  <2>6. WithinCaps(t, cap) <=>
          (EstimateNotional(t) # None =>
             /\ CompareDecimal(EstimateNotional(t), cap) <= 0
             /\ AtMost(cap, ServerCap))
    BY <1>2, <2>1, AtMostIs DEF WithinCaps
  <2>7. CASE f.quoteQuantity # None
    <3>1. f.limitPrice = None /\ f.quoteQuantity \in Decimal
      BY <1>1, <2>2, <2>7 DEF Amount
    <3>2. EstimateNotional(t) = f.quoteQuantity
      BY <2>7 DEF EstimateNotional
    <3>3. CompareDecimal(f.quoteQuantity, cap) <= 0
            <=> AtMost(f.quoteQuantity, cap)
      BY <2>1, <3>1, AtMostIs
    <3> HIDE DEF f
    <3> QED
      BY <2>1, <2>3, <2>4, <2>5, <2>6, <2>7, <3>1, <3>2, <3>3 DEF Exact
  <2>8. CASE f.quoteQuantity = None /\ f.orderType = "LIMIT"
    <3>1. /\ f.limitPrice # None /\ f.limitPrice \in Decimal
          /\ f.quantity # None /\ f.quantity \in Decimal
      BY <1>1, <2>2, <2>8 DEF Amount
    <3>2. EstimateNotional(t) = MultiplyDecimal(f.quantity, f.limitPrice)
      BY <2>8, <3>1 DEF EstimateNotional
    <3>3. /\ MultiplyDecimal(f.quantity, f.limitPrice) \in Decimal
          /\ CompareDecimal(MultiplyDecimal(f.quantity, f.limitPrice), cap) <= 0
               <=> ProductAtMost(f.quantity, f.limitPrice, cap)
      BY <2>1, <3>1, ProductAtMostIs
    <3>4. EstimateNotional(t) # None
      BY <1>2, <3>2, <3>3
    <3> HIDE DEF f
    <3> QED
      BY <2>1, <2>3, <2>4, <2>5, <2>6, <2>8, <3>1, <3>2, <3>3, <3>4 DEF Exact
  <2>9. CASE f.quoteQuantity = None /\ f.orderType = "MARKET"
    <3>1. EstimateNotional(t) = None
      BY <2>2, <2>9 DEF EstimateNotional
    <3> HIDE DEF f
    <3> QED
      BY <2>1, <2>3, <2>6, <2>9, <3>1 DEF Exact
  <2> QED
    BY <1>1, <2>7, <2>8, <2>9
<1>4. Affordable[t] = {cap \in Valid[t] : WithinCaps(t, cap)}
  BY DEF Affordable
<1> QED
  BY <1>3, <1>4

\* For any amounts, however many digits they have and wherever their points
\* stand: an order whose worth is known beforehand is stored only if it is
\* worth no more than its cap and the cap no more than the server's, it is not
\* refused for a cap it does not exceed, and no later command or retry changes
\* what it may cost (createIntent).  Of a MARKET order sized in base quantity,
\* which the code holds against neither cap, nothing is said.
THEOREM PricedCapsExact == ConsoleSpec => []PricedCapsAreExact
<1>1. ASSUME ConsoleInv PROVE PricedCapsAreExact
  <2>1. \A t \in Trade : Affordable[t] = Valid[t] \cap Exact(t)
    BY AffordableIsExact
  <2>2. ASSUME NEW i \in Ids PROVE intents[i].cap \in Exact(intents[i].trade)
    <3>1. intents[i] \in Intent
      BY <1>1 DEF ConsoleInv, RegistryInv, RegistryTypeOK, Ids
    <3>2. intents[i].cap \in Affordable[intents[i].trade]
      BY <1>1 DEF ConsoleInv, RegistryInv, Affords
    <3>3. intents[i].trade \in Trade
      BY <3>1 DEF Intent
    <3> QED
      BY <2>1, <3>2, <3>3
  <2> QED
    BY <2>1, <2>2 DEF PricedCapsAreExact, Exact
<1> QED
  BY <1>1, ConsoleInvariant, PTL

\* What is affordable is worth no more than its cap, and what has no price
\* beforehand is a MARKET order.
LEMMA AffordableIsTrue ==
    ASSUME NEW t \in Trade, NEW cap \in Affordable[t]
    PROVE  cap \in TrueCaps[t]
<1>1. CASE t \in Unpriced
  <2>1. cap \in Cap /\ WellFormed(t, cap)
    BY DEF Affordable, Valid
  <2>2. Fields[t].quoteQuantity = None /\ Fields[t].limitPrice = None
    BY <1>1, <2>1 DEF Unpriced, WellFormed
  <2>3. WorthAtMost(t, cap)
    BY <2>2 DEF WorthAtMost
  <2> QED
    BY <2>1, <2>3 DEF TrueCaps
<1>2. CASE t \notin Unpriced
  BY <1>2, AffordableIsExact DEF Exact
<1> QED
  BY <1>1, <1>2

\* Whoever repeats a key is given an operation for the trade that was asked for,
\* within the cap that was asked for where its worth is known beforehand, even
\* when an earlier request with another cap created it (createIntent's digest
\* check).
THEOREM AnswerWithinCap == ConsoleSpec => []AnswerIsAskedFor
<1>1. ASSUME ConsoleInv PROVE AnswerIsAskedFor
  <2> SUFFICES ASSUME NEW i \in Ids, NEW t \in Trade, NEW cap \in Cap,
                      NEW r, r = [key |-> intents[i].key, trade |-> t,
                                  cap |-> cap],
                      Outcome(r).kind = "REUSED"
               PROVE  /\ intents[Outcome(r).intent].trade = t
                      /\ cap \in TrueCaps[t]
    BY DEF AnswerIsAskedFor
  <2>1. r.trade = t /\ r.cap = cap
    OBVIOUS
  <2>2. /\ Outcome(r).intent \in WithKey(r.key) /\ Affords(r)
        /\ \A k \in WithKey(r.key) : intents[k].trade = r.trade
    BY <2>1, OutcomeIs
  <2>3. cap \in TrueCaps[t]
    BY <2>1, <2>2, AffordableIsTrue DEF Affords
  <2> QED
    BY <2>1, <2>2, <2>3
<1> QED
  BY <1>1, ConsoleInvariant, PTL

-----------------------------------------------------------------------------
(* The display. *)

\* Once the selected operation is displayed, no late answer replaces it by
\* another one while it stays selected: every poll in flight is its own (the
\* cancelled flag of the effect).
THEOREM DisplayStaysSelected == ConsoleSpec => ShownStaysSelected
<1> DEFINE Stays == detail # None /\ selected # None /\ selected' = selected
                      /\ detail.of = selected => detail'.of = selected
<1>1. ASSUME ConsoleInv, [Next]_vars
      PROVE  [Stays]_vars
  <2> SUFFICES ASSUME Next, detail # None, selected # None,
                      selected' = selected, detail.of = selected
               PROVE  detail'.of = selected
    BY <1>1
  <2>1. ASSUME UNCHANGED detail PROVE detail'.of = selected
    BY <2>1
  <2>2. ASSUME NEW i, SelectNow(i) PROVE detail'.of = selected
    BY <2>1, <2>2 DEF SelectNow, shown
  <2>3. ASSUME NEW s \in PollSlot, PollDeliver(s) PROVE detail'.of = selected
    <3>1. detail' = polls[s] /\ polls[s].offers # None /\ PollOK(polls[s])
      BY <1>1, <2>3 DEF PollDeliver, ConsoleInv, ShownInv
    <3> QED
      BY <3>1 DEF PollOK, IdlePoll
  <2>4. ASSUME NEW i, Select(i) PROVE detail'.of = selected
    BY <2>2, <2>4 DEF Select
  <2>5. ASSUME NEW s \in PollSlot, PollAsk(s) \/ PollAnswer(s) \/ PollFail(s)
        PROVE  detail'.of = selected
    BY <2>1, <2>5 DEF PollAsk, PollAnswer, PollFail
  <2>6. ASSUME UNCHANGED shown PROVE detail'.of = selected
    BY <2>1, <2>6 DEF shown
  <2>7. CASE \/ \E w \in Wanted : SubmitForm(w) \/ AgentCreates(w)
             \/ \E button \in DOMAIN CommandOf : Press(button)
             \/ GiveUp \/ RefreshEnds
    BY <2>6, <2>7
    DEF SubmitForm, AgentCreates, Press, GiveUp, RefreshEnds, Send
  <2>8. CASE Receive
    BY <2>2, <2>8 DEF Receive
  <2>9. CASE \/ \E r \in wire : HandleCreate(r) \/ HandleCommand(r)
                                  \/ Unhandled(r)
             \/ \E i \in Ids :
                  \/ ServiceLearns(i) \/ ServerRestarts(i)
                  \/ \E type \in {"CONFIRM", "EXECUTE"} : AgentCommands(i, type)
    BY <2>6, <2>9
    DEF HandleCreate, HandleCommand, Unhandled, Answered, ServiceLearns,
        ServerRestarts, AgentCommands
  <2> QED
    BY <2>3, <2>4, <2>5, <2>7, <2>8, <2>9 DEF Next
<1> QED
  BY <1>1, ConsoleInvariant, PTL DEF ConsoleSpec, ShownStaysSelected
=============================================================================

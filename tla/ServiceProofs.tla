---------------------------- MODULE ServiceProofs ----------------------------
(***************************************************************************)
(* Theorems about RescueService, proved for every number of operations,    *)
(* processes, requests and crashes: its type invariant, that every step of *)
(* it is a step of Journal (so that what holds of any client of the        *)
(* journal holds of the service), that at most one POST leaves for an      *)
(* operation, and that the journal agrees with the venue.                  *)
(***************************************************************************)
EXTENDS RescueService, JournalProofs

\* A call that is not idle works for an operation.
OwnedCall == {k \in Call : k.pc # "idle" => k.op \in Op}

CallsOK == call \in [Proc -> [Slot -> OwnedCall]]

\* The type of everything but the journal and the calls.
RestOK ==
    /\ confirmed \subseteq Op /\ expired \subseteq Op
    /\ windowOver \in [Op -> BOOLEAN]
    /\ venue \in [Op -> VenueOrder] /\ wire \subseteq Op
    /\ armed \in [Proc -> BOOLEAN]
    /\ status \in [Proc -> {"down", "resuming", "up"}]
    /\ crashes \in 0 .. MaxCrashes
    /\ posts \in [Op -> Nat]
    /\ absents \in [Op -> 0 .. MinAttempts]

TypedInv == JournalTypeOK /\ CallsOK /\ RestOK

\* What most steps do: no call comes to be about to send, nothing is sent, and
\* no confirmation is taken back.
QuietCalls ==
    \A p \in Proc, s \in Slot :
        call'[p][s].pc = "dispatch" => /\ call[p][s].pc = "dispatch"
                                       /\ call'[p][s].op = call[p][s].op

Quiet == QuietCalls /\ posts' = posts /\ confirmed \subseteq confirmed'

StepOK == [JournalNext]_journalVars /\ CallsOK' /\ RestOK'

Rest == <<intentVars, windowOver, venueVars, armed, status, crashes,
          historyVars>>

-----------------------------------------------------------------------------
(* The assumptions, as facts. *)

\* A request and the worker are slots; an order's quantity is a quantity.
LEMMA ServiceFacts ==
    /\ Requests \subseteq Slot /\ Worker \in Slot
    /\ \A o \in Op : VenueIdOf[o] \in VenueId
    /\ 0 \in 0 .. FullQuantity /\ FullQuantity \in 0 .. FullQuantity
    /\ \A q \in 0 .. FullQuantity : q \in Quantity
    /\ Anomalies \subseteq Observation
    /\ FullQuantity \in Nat /\ MinAttempts \in Nat \ {0} /\ MaxCrashes \in Nat
BY ServiceAssumption, JournalAssumption
DEF ServiceAssumption, JournalAssumption, Slot

\* The two answers that carry nothing, and the one that carries an order.
LEMMA Replies ==
    /\ NoReply \in Reply
    /\ [kind |-> "ABSENT", observation |-> None] \in Reply
    /\ [kind |-> "REJECTED", observation |-> None] \in Reply
    /\ \A obs \in Observation :
         [kind |-> "OBSERVED", observation |-> obs] \in Reply
    /\ \A r \in Reply : r.kind = "OBSERVED" => r.observation \in Observation
BY DEF Reply, NoReply

\* The idle call is well formed.
LEMMA IdleOwned == IdleCall \in OwnedCall
BY Replies, ServiceFacts DEF IdleCall, OwnedCall, Call, PC

\* A new call for an operation is well formed.
LEMMA NewOwned ==
    ASSUME NEW pc \in PC, NEW o \in Op, NEW tries \in 0 .. MinAttempts
    PROVE  /\ CallAt(pc, o, tries) \in OwnedCall
           /\ CallAt(pc, o, tries).pc = pc
           /\ CallAt(pc, o, tries).op = o
BY Replies, ServiceFacts DEF CallAt, IdleCall, OwnedCall, Call, PC

\* The saturated counter stays in its range.
LEMMA Saturates ==
    ASSUME NEW n \in 0 .. MinAttempts
    PROVE  AtMost(n + 1, MinAttempts) \in 0 .. MinAttempts
BY ServiceFacts DEF AtMost

-----------------------------------------------------------------------------
(* How calls move. *)

\* A call set to one that is not about to send.
LEMMA SettingACall ==
    ASSUME CallsOK, NEW p \in Proc, NEW s \in Slot, NEW k \in OwnedCall,
           k.pc # "dispatch", call' = [call EXCEPT ![p][s] = k]
    PROVE  CallsOK' /\ QuietCalls
BY DEF CallsOK, QuietCalls

\* A call that ends.
LEMMA Finishing ==
    ASSUME CallsOK, NEW p \in Proc, NEW s \in Slot, Done(p, s)
    PROVE  CallsOK' /\ QuietCalls
<1>1. IdleCall.pc # "dispatch"
  BY DEF IdleCall
<1> QED
  BY <1>1, IdleOwned, SettingACall DEF Done

\* A call that goes on with its operation.
LEMMA GoingOn ==
    ASSUME CallsOK, NEW p \in Proc, NEW s \in Slot, call[p][s].pc # "idle",
           NEW pc \in PC \ {"dispatch"}, Goto(p, s, pc)
    PROVE  CallsOK' /\ QuietCalls
<1> DEFINE k == [call[p][s] EXCEPT !.pc = pc]
<1>1. call[p][s] \in OwnedCall
  BY DEF CallsOK
<1>2. k \in OwnedCall /\ k.pc # "dispatch"
  BY <1>1 DEF OwnedCall, Call
<1>3. call' = [call EXCEPT ![p][s] = k]
  BY DEF Goto
<1> QED
  BY <1>2, <1>3, SettingACall

\* An exception leaves no call about to send.
LEMMA Throwing ==
    ASSUME CallsOK, NEW p \in Proc, NEW s \in Slot, call[p][s].pc # "idle",
           Throw(p, s)
    PROVE  CallsOK' /\ QuietCalls
BY GoingOn, Finishing DEF Throw, PC

\* Calls that are left alone.
LEMMA Holding ==
    ASSUME CallsOK, call' = call
    PROVE  CallsOK' /\ QuietCalls
BY DEF CallsOK, QuietCalls

\* Everything else left alone.
LEMMA RestKept ==
    ASSUME RestOK, UNCHANGED Rest
    PROVE  RestOK' /\ posts' = posts /\ confirmed' = confirmed
BY DEF RestOK, Rest, intentVars, venueVars, historyVars

-----------------------------------------------------------------------------
(* The steps of the journal's clients. *)

\* The commands of the service are commands.
LEMMA ServiceCommands ==
    /\ [type |-> "CONFIRM_INTENT"] \in Command
    /\ [type |-> "BEGIN_SUBMISSION"] \in Command
    /\ [type |-> "RECORD_REJECTION"] \in Command
    /\ AmbiguousCommand \in Command /\ BeginCommand \in Command
    /\ UnavailableCommand \in Command
    /\ \A k \in Call : k.answer.kind = "OBSERVED" =>
          AckCommand(k) \in Command /\ ObservedCommand(k) \in Command
    /\ \A k \in OwnedCall : k.pc # "idle" => AbsentCommand(k) \in Command
<1>1. \A obs \in Observation :
        /\ [type |-> "RECORD_ACKNOWLEDGEMENT", observation |-> obs] \in Command
        /\ [type |-> "RECORD_ORDER_OBSERVATION", observation |-> obs] \in Command
  BY DEF Command
<1>2. \A k \in Call : k.answer.kind = "OBSERVED" =>
          k.answer.observation \in Observation
  BY Replies DEF Call
<1>3. \A b \in BOOLEAN : [type |-> "RECORD_ORDER_ABSENT",
                          windowExhausted |-> b] \in Command
  BY DEF Command
<1> QED
  BY <1>1, <1>2, <1>3 DEF Command, AmbiguousCommand, BeginCommand,
     UnavailableCommand, AckCommand, ObservedCommand, AbsentCommand

\* What the service does to the journal, the journal's clients may do.
LEMMA ClientSteps ==
    ASSUME NEW o \in Op
    PROVE  /\ \A c \in Command : ApplyCommand(o, c) => JournalNext
           /\ EnqueueReconciliation(o) => JournalNext
           /\ ClaimDueReconciliation(o) => JournalNext
           /\ \A outcome \in {"PENDING", "SETTLED", "GAVE_UP"} :
                 ReleaseReconciliation(o, outcome) => JournalNext
           /\ \A p \in Proc : ResumeDemote(p, o) \/ ResumeEnqueue(p, o)
                                 => JournalNext
BY DEF JournalNext

-----------------------------------------------------------------------------
(* executeIntent.  Two of its steps are not quiet: the one that authorises  *)
(* the dispatch, and the one that sends.                                    *)

\* A call that is somewhere works for an operation and is well formed.
LEMMA CallsAtWork ==
    ASSUME CallsOK, NEW p \in Proc, NEW s \in Slot
    PROVE  /\ call[p][s] \in OwnedCall /\ call[p][s] \in Call
           /\ call[p][s].pc # "idle" => call[p][s].op \in Op
BY DEF CallsOK, OwnedCall

\* Checking and authorising an execution.
LEMMA ExecuteStep ==
    ASSUME TypedInv, NEW p \in Proc, NEW r \in Requests, NEW o \in Op,
           ExecuteIntent(p, r, o)
    PROVE  /\ StepOK
           /\ posts' = posts /\ confirmed' = confirmed
           /\ o \in confirmed
           /\ ops[o].state = "APPROVED"
           /\ \A q \in Op \ {o} : ops'[q] = ops[q]
           /\ ops'[o].submits = ops[o].submits + 1
           /\ call' = [call EXCEPT ![p][r] = CallAt("dispatch", o, 0)]
<1> USE ServiceFacts
<1>1. JournalNext
  BY ClientSteps, ServiceCommands DEF ExecuteIntent
<1>2. UNCHANGED Rest
  BY DEF ExecuteIntent, Rest
<1>3. CallAt("dispatch", o, 0) \in OwnedCall
  <2>1. "dispatch" \in PC /\ 0 \in 0 .. MinAttempts
    BY DEF PC
  <2> QED
    BY <2>1, NewOwned
<1>4. call' = [call EXCEPT ![p][r] = CallAt("dispatch", o, 0)]
  BY DEF ExecuteIntent
<1>5. CallsOK'
  BY <1>3, <1>4 DEF CallsOK, TypedInv
<1>6. ops[o] \in Row
  BY DEF TypedInv, JournalTypeOK
<1>7. PICK row \in Applied(o, [type |-> "BEGIN_SUBMISSION"]) :
        ops' = [ops EXCEPT ![o] = row]
  BY DEF ExecuteIntent, ApplyCommand
<1>8. row \in BeginSubmission(ops[o])
  <2>1. row \in Decide(ops[o], [type |-> "BEGIN_SUBMISSION"])
    BY <1>7 DEF Applied
  <2> QED
    BY <2>1 DEF Decide, DecideSettled, DecideOpen
<1>9. ops[o].state = "APPROVED" /\ row.submits = ops[o].submits + 1
  BY <1>6, <1>8 DEF BeginSubmission, Accept, Row
<1>10. /\ \A q \in Op \ {o} : ops'[q] = ops[q]
       /\ ops'[o] = row
  BY <1>7 DEF TypedInv, JournalTypeOK
<1>11. RestOK' /\ posts' = posts /\ confirmed' = confirmed
  BY <1>2, RestKept DEF TypedInv
<1>12. o \in confirmed
  BY DEF ExecuteIntent
<1> QED
  BY <1>1, <1>4, <1>5, <1>9, <1>10, <1>11, <1>12 DEF StepOK

\* Sending.
LEMMA PlaceStep ==
    ASSUME TypedInv, NEW p \in Proc, NEW r \in Requests, PlaceOrder(p, r)
    PROVE  /\ StepOK /\ QuietCalls
           /\ UNCHANGED journalVars /\ confirmed' = confirmed
           /\ call[p][r].op \in Op /\ call[p][r].pc = "dispatch"
           /\ posts' = [posts EXCEPT ![call[p][r].op] = @ + 1]
           /\ call'[p][r].pc = "placing"
           /\ \A q \in Proc, s \in Slot :
                <<q, s>> # <<p, r>> => call'[q][s] = call[q][s]
<1> USE ServiceFacts DEF TypedInv
<1>1. call[p][r].op \in Op /\ call[p][r].pc = "dispatch"
  BY CallsAtWork DEF PlaceOrder, At
<1>2. CallsOK' /\ QuietCalls
  BY <1>1, GoingOn DEF PlaceOrder, PC
<1>3. /\ call'[p][r].pc = "placing"
      /\ \A q \in Proc, s \in Slot :
            <<q, s>> # <<p, r>> => call'[q][s] = call[q][s]
  <2>1. call[p][r] \in Call
    BY CallsAtWork
  <2> QED
    BY <2>1 DEF PlaceOrder, Goto, CallsOK, Call
<1>4. UNCHANGED journalVars /\ confirmed' = confirmed
  BY DEF PlaceOrder, journalVars, intentVars
<1>5. posts' = [posts EXCEPT ![call[p][r].op] = @ + 1]
  BY DEF PlaceOrder
<1>6. posts' \in [Op -> Nat] /\ wire' \subseteq Op
  BY <1>1, <1>5 DEF PlaceOrder, RestOK
<1>7. RestOK'
  BY <1>6 DEF PlaceOrder, RestOK, intentVars
<1> QED
  BY <1>1, <1>2, <1>3, <1>4, <1>5, <1>7 DEF StepOK

\* The steps that record what was learnt of a submission.
LEMMA RequestSteps ==
    ASSUME TypedInv, NEW p \in Proc, NEW r \in Requests,
           \/ RecordAck(p, r) \/ RecordReject(p, r) \/ RecordLost(p, r)
           \/ QueueLost(p, r) \/ FaultDropsAnswer(p, r)
           \/ PlacementRefused(p, r)
    PROVE  StepOK /\ Quiet
<1> USE ServiceFacts DEF TypedInv
<1> DEFINE o == call[p][r].op
<1>0. call[p][r] \in Call /\ (call[p][r].pc # "idle" => o \in Op)
  BY CallsAtWork
<1>1. CASE RecordAck(p, r)
  <2>1. o \in Op /\ AckCommand(call[p][r]) \in Command
    BY <1>0, <1>1, ServiceCommands DEF RecordAck, Hears, At
  <2>2. JournalNext
    BY <1>1, <2>1, ClientSteps DEF RecordAck, Learn
  <2>3. CallsOK' /\ QuietCalls
    BY <1>1, Finishing DEF RecordAck
  <2>4. UNCHANGED Rest
    BY <1>1 DEF RecordAck, Learn, Rest
  <2> QED
    BY <2>2, <2>3, <2>4, RestKept DEF StepOK, Quiet
<1>2. CASE RecordReject(p, r)
  <2>1. o \in Op
    BY <1>0, <1>2 DEF RecordReject, Hears, At
  <2>2. JournalNext
    BY <1>2, <2>1, ClientSteps, ServiceCommands DEF RecordReject, Learn
  <2>3. CallsOK' /\ QuietCalls
    BY <1>2, Finishing DEF RecordReject
  <2>4. UNCHANGED Rest
    BY <1>2 DEF RecordReject, Learn, Rest
  <2> QED
    BY <2>2, <2>3, <2>4, RestKept DEF StepOK, Quiet
<1>3. CASE RecordLost(p, r)
  <2>1. o \in Op /\ call[p][r].pc # "idle"
    BY <1>0, <1>3 DEF RecordLost, Hears, At
  <2>2. JournalNext
    BY <1>3, <2>1, ClientSteps, ServiceCommands DEF RecordLost, Learn
  <2>3. CallsOK' /\ QuietCalls
    BY <1>3, <2>1, GoingOn DEF RecordLost, PC
  <2>4. UNCHANGED Rest
    BY <1>3 DEF RecordLost, Learn, Rest
  <2> QED
    BY <2>2, <2>3, <2>4, RestKept DEF StepOK, Quiet
<1>4. CASE QueueLost(p, r)
  <2>1. o \in Op
    BY <1>0, <1>4 DEF QueueLost, At
  <2>2. JournalNext
    BY <1>4, <2>1, ClientSteps DEF QueueLost
  <2>3. CallsOK' /\ QuietCalls
    BY <1>4, Finishing DEF QueueLost
  <2>4. UNCHANGED Rest
    BY <1>4 DEF QueueLost, Rest
  <2> QED
    BY <2>2, <2>3, <2>4, RestKept DEF StepOK, Quiet
<1>5. CASE FaultDropsAnswer(p, r)
  <2>1. o \in Op
    BY <1>0, <1>5 DEF FaultDropsAnswer, At
  <2>2. JournalNext
    BY <1>5, <2>1, ClientSteps, ServiceCommands DEF FaultDropsAnswer
  <2>3. CallsOK' /\ QuietCalls
    BY <1>5, Finishing DEF FaultDropsAnswer
  <2>4. RestOK' /\ posts' = posts /\ confirmed' = confirmed
    BY <1>5 DEF FaultDropsAnswer, RestOK, intentVars, venueVars, historyVars
  <2> QED
    BY <2>2, <2>3, <2>4 DEF StepOK, Quiet
<1>6. CASE PlacementRefused(p, r)
  <2>1. UNCHANGED journalVars
    BY <1>6 DEF PlacementRefused, journalVars
  <2>2. CallsOK' /\ QuietCalls
    BY <1>6, Finishing DEF PlacementRefused
  <2>3. RestOK' /\ posts' = posts /\ confirmed' = confirmed
    BY <1>6 DEF PlacementRefused, RestOK, intentVars, venueVars, historyVars
  <2> QED
    BY <2>1, <2>2, <2>3 DEF StepOK, Quiet
<1> QED
  BY <1>1, <1>2, <1>3, <1>4, <1>5, <1>6

-----------------------------------------------------------------------------
(* reconcileOnce and the worker. *)

\* A pass that has its answer leaves a well-formed call behind.
LEMMA ConcludeStep ==
    ASSUME TypedInv, NEW p \in Proc, NEW s \in Slot, call[p][s].pc # "idle",
           NEW c \in Command, Conclude(p, s, c)
    PROVE  /\ JournalNext
           /\ CallsOK' /\ QuietCalls
           /\ UNCHANGED <<intentVars, windowOver, venueVars, armed, status,
                          crashes, posts>>
<1> USE ServiceFacts DEF TypedInv
<1> DEFINE o == call[p][s].op
           b == Resolved(ops'[o].state)
           k == CallAt("releasing", o, call[p][s].tries)
<1>1. o \in Op /\ call[p][s].tries \in 0 .. MinAttempts
  BY CallsAtWork DEF Call
<1>2. JournalNext
  BY <1>1, ClientSteps DEF Conclude
<1>3. k \in OwnedCall /\ k.pc = "releasing"
  BY <1>1, NewOwned DEF PC
<1>4. b \in BOOLEAN
  BY DEF Resolved
<1>5. [k EXCEPT !.settled = b] \in OwnedCall
      /\ [k EXCEPT !.settled = b].pc # "dispatch"
  <2> HIDE DEF k, b
  <2> QED
    BY <1>3, <1>4 DEF OwnedCall, Call
<1>6. call' = [call EXCEPT ![p][s] = [k EXCEPT !.settled = b]]
  BY DEF Conclude
<1>7. CallsOK' /\ QuietCalls
  <2> HIDE DEF k, b
  <2> QED
    BY <1>5, <1>6, SettingACall
<1>8. UNCHANGED <<intentVars, windowOver, venueVars, armed, status,
                  crashes, posts>>
  BY DEF Conclude
<1> QED
  BY <1>2, <1>7, <1>8

\* An answer that arrives leaves a well-formed call behind.
LEMMA AnswerStep ==
    ASSUME TypedInv, NEW p \in Proc, NEW s \in Slot, Awaits(p, s),
           NEW reply \in Reply, Answer(p, s, reply)
    PROVE  StepOK /\ Quiet
<1> USE ServiceFacts DEF TypedInv
<1> DEFINE k == [call[p][s] EXCEPT !.answer = reply]
<1>1. call[p][s] \in OwnedCall /\ call[p][s].pc = "querying"
  BY CallsAtWork DEF Awaits, At
<1>2. k \in OwnedCall /\ k.pc # "dispatch"
  BY <1>1 DEF OwnedCall, Call
<1>3. call' = [call EXCEPT ![p][s] = k]
  BY DEF Answer
<1>4. CallsOK' /\ QuietCalls
  <2> HIDE DEF k
  <2> QED
    BY <1>2, <1>3, SettingACall
<1>5. UNCHANGED journalVars /\ UNCHANGED Rest
  BY DEF Answer, journalVars, Rest
<1> QED
  BY <1>4, <1>5, RestKept DEF StepOK, Quiet

\* The steps of a pass, whoever runs it.
LEMMA PassSteps ==
    ASSUME TypedInv, NEW p \in Proc, NEW s \in Slot, PassNext(p, s)
    PROVE  StepOK /\ Quiet
<1> USE ServiceFacts DEF TypedInv
<1> DEFINE o == call[p][s].op
<1>0. call[p][s] \in Call /\ call[p][s] \in OwnedCall
      /\ (call[p][s].pc # "idle" => o \in Op)
  BY CallsAtWork
<1>1. CASE VenueAnswers(p, s)
  <2>1. o \in Op
    BY <1>0, <1>1 DEF VenueAnswers, Awaits, At
  <2>2. venue[o] \in VenueOrder
    BY <2>1 DEF RestOK
  <2>3. venue[o].status # "NONE" => Snapshot(o) \in Observation
    BY <2>1, <2>2 DEF Snapshot, Observation, VenueOrder
  <2>4. Awaits(p, s)
    BY <1>1 DEF VenueAnswers
  <2>5. \/ Answer(p, s, [kind |-> "ABSENT", observation |-> None])
        \/ /\ venue[o].status # "NONE"
           /\ Answer(p, s, [kind |-> "OBSERVED",
                            observation |-> Snapshot(o)])
    BY <1>1 DEF VenueAnswers
  <2> QED
    BY <2>3, <2>4, <2>5, AnswerStep, Replies
<1>2. CASE VenueMisreports(p, s)
  BY <1>2, AnswerStep, Replies DEF VenueMisreports
<1>3. CASE RecordObserved(p, s)
  <2>1. ObservedCommand(call[p][s]) \in Command /\ call[p][s].pc # "idle"
    BY <1>0, <1>3, ServiceCommands DEF RecordObserved, At
  <2>2. Conclude(p, s, ObservedCommand(call[p][s]))
    BY <1>3 DEF RecordObserved
  <2>3. UNCHANGED Rest
    BY <1>3, <2>1, <2>2, ConcludeStep DEF RecordObserved, Rest, historyVars
  <2> QED
    BY <2>1, <2>2, <2>3, ConcludeStep, RestKept DEF StepOK, Quiet
<1>4. CASE RecordAbsent(p, s)
  <2>1. AbsentCommand(call[p][s]) \in Command /\ call[p][s].pc # "idle"
    BY <1>0, <1>4, ServiceCommands DEF RecordAbsent, At
  <2>2. Conclude(p, s, AbsentCommand(call[p][s]))
    BY <1>4 DEF RecordAbsent
  <2>3. absents' \in [Op -> 0 .. MinAttempts]
    BY <1>0, <1>4, <2>1, Saturates DEF RecordAbsent, RestOK
  <2>4. RestOK' /\ posts' = posts /\ confirmed' = confirmed
    BY <2>1, <2>2, <2>3, ConcludeStep DEF RestOK, intentVars, venueVars
  <2> QED
    BY <2>1, <2>2, <2>4, ConcludeStep DEF StepOK, Quiet
<1>5. CASE RecordUnavailable(p, s)
  <2>1. UnavailableCommand \in Command /\ call[p][s].pc # "idle"
    BY <1>5, ServiceCommands DEF RecordUnavailable, At
  <2>2. Conclude(p, s, UnavailableCommand)
    BY <1>5 DEF RecordUnavailable
  <2>3. UNCHANGED Rest
    BY <1>5, <2>1, <2>2, ConcludeStep DEF RecordUnavailable, Rest, historyVars
  <2> QED
    BY <2>1, <2>2, <2>3, ConcludeStep, RestKept DEF StepOK, Quiet
<1>6. CASE PassRefused(p, s)
  <2>1. call[p][s].pc # "idle" /\ Throw(p, s)
    BY <1>6 DEF PassRefused, At
  <2>2. UNCHANGED journalVars /\ UNCHANGED Rest
    BY <1>6 DEF PassRefused, journalVars, Rest
  <2> QED
    BY <2>1, <2>2, Throwing, RestKept DEF StepOK, Quiet
<1>7. CASE ReleaseJob(p, s)
  <2>1. o \in Op /\ ReleaseOutcome(call[p][s]) \in {"PENDING", "SETTLED"}
    BY <1>0, <1>7 DEF ReleaseJob, At, ReleaseOutcome
  <2>2. JournalNext
    BY <1>7, <2>1, ClientSteps DEF ReleaseJob
  <2>3. UNCHANGED Rest /\ Done(p, s)
    BY <1>7 DEF ReleaseJob, Rest
  <2> QED
    BY <2>2, <2>3, Finishing, RestKept DEF StepOK, Quiet
<1>8. CASE ReplyUnreadable(p, s)
  <2>1. call[p][s].pc # "idle" /\ Throw(p, s)
    BY <1>8 DEF ReplyUnreadable, At
  <2>2. UNCHANGED journalVars /\ UNCHANGED Rest
    BY <1>8 DEF ReplyUnreadable, journalVars, Rest
  <2> QED
    BY <2>1, <2>2, Throwing, RestKept DEF StepOK, Quiet
<1> QED
  BY <1>1, <1>2, <1>3, <1>4, <1>5, <1>6, <1>7, <1>8 DEF PassNext

\* A pass begins, by hand or by the worker; the worker claims and gives back.
LEMMA WorkerSteps ==
    ASSUME TypedInv, NEW p \in Proc,
           \/ \E r \in Requests, o \in Op : ReconcileByHand(p, r, o)
           \/ WorkerNext(p)
    PROVE  StepOK /\ Quiet
<1> USE ServiceFacts DEF TypedInv
<1> DEFINE w == call[p][Worker]
<1>0. w \in Call /\ (w.pc # "idle" => w.op \in Op)
  BY CallsAtWork
<1>1. ASSUME NEW r \in Requests, NEW o \in Op, ReconcileByHand(p, r, o)
      PROVE  StepOK /\ Quiet
  <2> DEFINE tries == AtMost(jobs[o].attempts + 1, MinAttempts)
             k == CallAt("querying", o, tries)
  <2>1. tries \in 0 .. MinAttempts
    BY Saturates DEF JournalTypeOK, Job
  <2>2. k \in OwnedCall /\ k.pc # "dispatch"
    <3> HIDE DEF tries
    <3> QED
      BY <2>1, NewOwned DEF PC
  <2>3. call' = [call EXCEPT ![p][r] = k]
    BY <1>1 DEF ReconcileByHand
  <2>4. CallsOK' /\ QuietCalls
    <3> HIDE DEF k
    <3> QED
      BY <2>2, <2>3, SettingACall
  <2>5. JournalNext
    BY <1>1, ClientSteps, ServiceCommands DEF ReconcileByHand
  <2>6. UNCHANGED Rest
    BY <1>1 DEF ReconcileByHand, Rest
  <2> QED
    BY <2>4, <2>5, <2>6, RestKept DEF StepOK, Quiet
<1>2. ASSUME NEW o \in Op, WorkerClaims(p, o)
      PROVE  StepOK /\ Quiet
  <2> DEFINE k == CallAt("claimed", o, jobs'[o].attempts)
  <2>1. jobs'[o].attempts \in 0 .. MinAttempts
    <3>1. jobs[o].attempts \in 0 .. MinAttempts
      BY DEF JournalTypeOK, Job
    <3>2. jobs'[o].attempts = AtMost(jobs[o].attempts + 1, MinAttempts)
      BY <1>2 DEF WorkerClaims, ClaimDueReconciliation, JournalTypeOK
    <3> QED
      BY <3>1, <3>2, Saturates
  <2>2. k \in OwnedCall /\ k.pc # "dispatch"
    BY <2>1, NewOwned DEF PC
  <2>3. call' = [call EXCEPT ![p][Worker] = k]
    BY <1>2 DEF WorkerClaims
  <2>4. CallsOK' /\ QuietCalls
    <3> HIDE DEF k
    <3> QED
      BY <2>2, <2>3, SettingACall
  <2>5. JournalNext
    BY <1>2, ClientSteps DEF WorkerClaims
  <2>6. UNCHANGED Rest
    BY <1>2 DEF WorkerClaims, Rest
  <2> QED
    BY <2>4, <2>5, <2>6, RestKept DEF StepOK, Quiet
<1>3. CASE WorkerBegins(p)
  <2>1. w.pc # "idle" /\ w.op \in Op
    BY <1>0, <1>3 DEF WorkerBegins, At
  <2>2. JournalNext
    BY <1>3, <2>1, ClientSteps, ServiceCommands DEF WorkerBegins
  <2>3. CallsOK' /\ QuietCalls
    BY <1>3, <2>1, GoingOn DEF WorkerBegins, PC
  <2>4. UNCHANGED Rest
    BY <1>3 DEF WorkerBegins, Rest
  <2> QED
    BY <2>2, <2>3, <2>4, RestKept DEF StepOK, Quiet
<1>4. CASE WorkerRefused(p)
  <2>1. w.pc # "idle" /\ Throw(p, Worker)
    BY <1>4 DEF WorkerRefused, At
  <2>2. UNCHANGED journalVars /\ UNCHANGED Rest
    BY <1>4 DEF WorkerRefused, journalVars, Rest
  <2> QED
    BY <2>1, <2>2, Throwing, RestKept DEF StepOK, Quiet
<1>5. CASE GiveBack(p)
  <2>1. w.op \in Op
    BY <1>0, <1>5 DEF GiveBack, At
  <2>2. JournalNext
    BY <1>5, <2>1, ClientSteps DEF GiveBack
  <2>3. UNCHANGED Rest /\ Done(p, Worker)
    BY <1>5 DEF GiveBack, Rest
  <2> QED
    BY <2>2, <2>3, Finishing, RestKept DEF StepOK, Quiet
<1> QED
  BY <1>1, <1>2, <1>3, <1>4, <1>5 DEF WorkerNext

-----------------------------------------------------------------------------
(* Startup, crashes and the venue. *)

\* The steps of a process as a whole.
LEMMA ProcessSteps ==
    ASSUME TypedInv, NEW p \in Proc, ProcessNext(p)
    PROVE  StepOK /\ Quiet
<1> USE ServiceFacts DEF TypedInv
<1>1. ASSUME NEW o \in Op, Confirm(p, o)
      PROVE  StepOK /\ Quiet
  <2>1. JournalNext
    BY <1>1, ClientSteps, ServiceCommands DEF Confirm
  <2>2. CallsOK' /\ QuietCalls
    BY <1>1, Holding DEF Confirm
  <2>3. RestOK' /\ posts' = posts /\ confirmed \subseteq confirmed'
    BY <1>1 DEF Confirm, RestOK, venueVars, historyVars
  <2> QED
    BY <2>1, <2>2, <2>3 DEF StepOK, Quiet
<1>2. ASSUME NEW o \in Op, Resume(p, o)
      PROVE  StepOK /\ Quiet
  <2>1. JournalNext
    BY <1>2, ClientSteps DEF Resume
  <2>2. CallsOK' /\ QuietCalls
    BY <1>2, Holding DEF Resume, BesidesStartup
  <2>3. UNCHANGED Rest
    BY <1>2 DEF Resume, BesidesStartup, Rest
  <2> QED
    BY <2>1, <2>2, <2>3, RestKept DEF StepOK, Quiet
<1>3. ASSUME NEW b \in BOOLEAN, SetFault(p, b)
      PROVE  StepOK /\ Quiet
  <2>1. UNCHANGED journalVars
    BY <1>3 DEF SetFault, journalVars
  <2>2. CallsOK' /\ QuietCalls
    BY <1>3, Holding DEF SetFault
  <2>3. RestOK' /\ posts' = posts /\ confirmed' = confirmed
    BY <1>3 DEF SetFault, RestOK, intentVars, venueVars, historyVars
  <2> QED
    BY <2>1, <2>2, <2>3 DEF StepOK, Quiet
<1>4. CASE Start(p)
  <2>1. JournalNext
    BY <1>4 DEF Start, JournalNext
  <2>2. CallsOK' /\ QuietCalls
    BY <1>4, Holding DEF Start, BesidesStartup
  <2>3. RestOK' /\ posts' = posts /\ confirmed' = confirmed
    BY <1>4 DEF Start, BesidesStartup, RestOK, intentVars, venueVars,
       historyVars
  <2> QED
    BY <2>1, <2>2, <2>3 DEF StepOK, Quiet
<1>5. CASE StartServing(p)
  <2>1. UNCHANGED journalVars
    BY <1>5 DEF StartServing, journalVars
  <2>2. CallsOK' /\ QuietCalls
    BY <1>5, Holding DEF StartServing, BesidesStartup
  <2>3. RestOK' /\ posts' = posts /\ confirmed' = confirmed
    BY <1>5 DEF StartServing, BesidesStartup, RestOK, intentVars, venueVars,
       historyVars
  <2> QED
    BY <2>1, <2>2, <2>3 DEF StepOK, Quiet
<1>6. CASE Crash(p)
  <2>1. [JournalNext]_journalVars
    <3>1. CASE resuming[p] = NotResuming
      <4>1. resuming' = resuming
        BY <1>6, <3>1 DEF Crash, JournalTypeOK
      <4> QED
        BY <1>6, <4>1 DEF Crash, journalVars
    <3>2. CASE resuming[p] # NotResuming
      BY <1>6, <3>2 DEF Crash, JournalNext, Disconnect
    <3> QED
      BY <3>1, <3>2
  <2>2. call' = [call EXCEPT ![p] = [s \in Slot |-> IdleCall]]
    BY <1>6 DEF Crash
  <2>3. IdleCall.pc # "dispatch" /\ IdleCall \in OwnedCall
    BY IdleOwned DEF IdleCall
  <2>4. CallsOK' /\ QuietCalls
    BY <2>2, <2>3 DEF CallsOK, QuietCalls
  <2>5. crashes' \in 0 .. MaxCrashes
    BY <1>6 DEF Crash, RestOK
  <2>6. RestOK' /\ posts' = posts /\ confirmed' = confirmed
    BY <1>6, <2>5 DEF Crash, RestOK, intentVars, venueVars, historyVars
  <2> QED
    BY <2>1, <2>4, <2>6 DEF StepOK, Quiet
<1> QED
  BY <1>1, <1>2, <1>3, <1>4, <1>5, <1>6 DEF ProcessNext

\* A response of the venue reaches well-formed calls.
LEMMA Responding ==
    ASSUME CallsOK, NEW o \in Op, NEW reply \in Reply, Respond(o, reply)
    PROVE  CallsOK' /\ QuietCalls
<1>1. \A k \in OwnedCall : /\ [k EXCEPT !.answer = reply] \in OwnedCall
                           /\ [k EXCEPT !.answer = reply].pc = k.pc
                           /\ [k EXCEPT !.answer = reply].op = k.op
  BY DEF OwnedCall, Call
<1>2. \A p \in Proc, s \in Slot :
        /\ call[p][s] \in OwnedCall
        /\ \/ call'[p][s] = [call[p][s] EXCEPT !.answer = reply]
           \/ call'[p][s] = call[p][s]
  BY DEF Respond, CallsOK
<1>3. \A p \in Proc, s \in Slot : /\ call'[p][s] \in OwnedCall
                                  /\ call'[p][s].pc = call[p][s].pc
                                  /\ call'[p][s].op = call[p][s].op
  BY <1>1, <1>2
<1>4. CallsOK'
  <2> DEFINE f == [p \in Proc |-> [s \in Slot |->
               IF call[p][s].pc = "placing" /\ call[p][s].op = o
               THEN [call[p][s] EXCEPT !.answer = reply]
               ELSE call[p][s]]]
  <2>1. call' = f
    BY DEF Respond
  <2>2. \A p \in Proc, s \in Slot : f[p][s] \in OwnedCall
    BY <1>3, <2>1
  <2>3. \A p \in Proc : f[p] \in [Slot -> OwnedCall]
    BY <2>2
  <2>4. f \in [Proc -> [Slot -> OwnedCall]]
    BY <2>3
  <2> QED
    BY <2>1, <2>4 DEF CallsOK
<1> QED
  BY <1>3, <1>4 DEF QuietCalls

\* An order goes on to be an order.
LEMMA OrdersGoOn ==
    ASSUME NEW v \in VenueOrder, NEW w \in Successors(v)
    PROVE  w \in VenueOrder
BY ServiceFacts DEF Successors, VenueOrder, VenueStatus

\* The venue's own steps, and the passage of time.
LEMMA VenueSteps ==
    ASSUME TypedInv, NEW o \in Op,
           VenueNext(o) \/ IntentExpires(o) \/ WindowElapses(o)
    PROVE  StepOK /\ Quiet
<1> USE ServiceFacts DEF TypedInv
<1>1. CASE VenueAccepts(o)
  <2>1. PICK order \in FirstStatus :
          /\ venue' = [venue EXCEPT ![o] = order]
          /\ Respond(o, [kind |-> "OBSERVED", observation |->
                           [venueOrderId |-> VenueIdOf[o],
                            status |-> order.status,
                            executed |-> order.executed]])
    BY <1>1 DEF VenueAccepts
  <2>2. order \in VenueOrder /\ order.status \in VenueStatus
    BY DEF FirstStatus, VenueOrder, VenueStatus
  <2>3. [venueOrderId |-> VenueIdOf[o], status |-> order.status,
         executed |-> order.executed] \in Observation
    BY <2>2 DEF Observation, VenueOrder
  <2>4. CallsOK' /\ QuietCalls
    BY <2>1, <2>3, Replies, Responding
  <2>5. venue' \in [Op -> VenueOrder] /\ wire' \subseteq Op
    BY <1>1, <2>1, <2>2 DEF VenueAccepts, RestOK
  <2>6. UNCHANGED journalVars
    BY <1>1 DEF VenueAccepts, OnTheWireOnly, journalVars
  <2>7. RestOK' /\ posts' = posts /\ confirmed' = confirmed
    BY <1>1, <2>5 DEF VenueAccepts, OnTheWireOnly, RestOK, intentVars,
       historyVars
  <2> QED
    BY <2>4, <2>6, <2>7 DEF StepOK, Quiet
<1>2. CASE VenueRejects(o)
  <2>1. CallsOK' /\ QuietCalls
    BY <1>2, Replies, Responding DEF VenueRejects
  <2>2. UNCHANGED journalVars
    BY <1>2 DEF VenueRejects, OnTheWireOnly, journalVars
  <2>3. RestOK' /\ posts' = posts /\ confirmed' = confirmed
    BY <1>2 DEF VenueRejects, OnTheWireOnly, RestOK, intentVars, historyVars
  <2> QED
    BY <2>1, <2>2, <2>3 DEF StepOK, Quiet
<1>3. CASE WireDrops(o)
  <2>1. CallsOK' /\ QuietCalls
    BY <1>3, Holding DEF WireDrops
  <2>2. UNCHANGED journalVars
    BY <1>3 DEF WireDrops, OnTheWireOnly, journalVars
  <2>3. RestOK' /\ posts' = posts /\ confirmed' = confirmed
    BY <1>3 DEF WireDrops, OnTheWireOnly, RestOK, intentVars, historyVars
  <2> QED
    BY <2>1, <2>2, <2>3 DEF StepOK, Quiet
<1>4. CASE VenueMoves(o)
  <2>1. CallsOK' /\ QuietCalls
    BY <1>4, Holding DEF VenueMoves
  <2>2. UNCHANGED journalVars
    BY <1>4 DEF VenueMoves, OnTheWireOnly, journalVars
  <2>3. venue' \in [Op -> VenueOrder]
    BY <1>4, OrdersGoOn DEF VenueMoves, RestOK
  <2>4. RestOK' /\ posts' = posts /\ confirmed' = confirmed
    BY <1>4, <2>3 DEF VenueMoves, OnTheWireOnly, RestOK, intentVars,
       historyVars
  <2> QED
    BY <2>1, <2>2, <2>4 DEF StepOK, Quiet
<1>5. CASE IntentExpires(o)
  <2>1. CallsOK' /\ QuietCalls
    BY <1>5, Holding DEF IntentExpires
  <2>2. UNCHANGED journalVars
    BY <1>5 DEF IntentExpires, journalVars
  <2>3. RestOK' /\ posts' = posts /\ confirmed' = confirmed
    BY <1>5 DEF IntentExpires, RestOK, venueVars, historyVars
  <2> QED
    BY <2>1, <2>2, <2>3 DEF StepOK, Quiet
<1>6. CASE WindowElapses(o)
  <2>1. CallsOK' /\ QuietCalls
    BY <1>6, Holding DEF WindowElapses
  <2>2. UNCHANGED journalVars
    BY <1>6 DEF WindowElapses, journalVars
  <2>3. RestOK' /\ posts' = posts /\ confirmed' = confirmed
    BY <1>6 DEF WindowElapses, RestOK, intentVars, venueVars, historyVars
  <2> QED
    BY <2>1, <2>2, <2>3 DEF StepOK, Quiet
<1> QED
  BY <1>1, <1>2, <1>3, <1>4, <1>5, <1>6 DEF VenueNext

-----------------------------------------------------------------------------
(* Every step, and the type invariant. *)

\* Every step of the service is a step of the journal or leaves it alone and
\* keeps the types; only executeIntent's two steps are not quiet.
LEMMA ServiceStep ==
    ASSUME TypedInv, [Next]_vars
    PROVE  /\ StepOK
           /\ \/ Quiet
              \/ \E p \in Proc, r \in Requests :
                   \/ \E o \in Op : ExecuteIntent(p, r, o)
                   \/ PlaceOrder(p, r)
<1>1. CASE UNCHANGED vars
  <2>1. UNCHANGED journalVars /\ UNCHANGED Rest /\ call' = call
    BY <1>1 DEF vars, journalVars, Rest
  <2> QED
    BY <2>1, Holding, RestKept DEF TypedInv, StepOK, Quiet
<1>2. ASSUME NEW p \in Proc, NEW r \in Requests, RequestNext(p, r)
      PROVE  /\ StepOK
             /\ \/ Quiet
                \/ \E o \in Op : ExecuteIntent(p, r, o)
                \/ PlaceOrder(p, r)
  BY <1>2, ExecuteStep, PlaceStep, RequestSteps, WorkerSteps DEF RequestNext
<1>3. ASSUME NEW p \in Proc,
             \/ \E s \in Slot : PassNext(p, s)
             \/ WorkerNext(p) \/ ProcessNext(p)
      PROVE  StepOK /\ Quiet
  BY <1>3, PassSteps, WorkerSteps, ProcessSteps
<1>4. ASSUME NEW o \in Op,
             VenueNext(o) \/ IntentExpires(o) \/ WindowElapses(o)
      PROVE  StepOK /\ Quiet
  BY <1>4, VenueSteps
<1> QED
  BY <1>1, <1>2, <1>3, <1>4 DEF Next

ServiceInv == JournalInv /\ TypedInv

\* The service starts in its invariant.
LEMMA InitialService == Init => ServiceInv
<1> SUFFICES ASSUME Init PROVE ServiceInv
  OBVIOUS
<1> USE ServiceFacts
<1>1. JournalInv
  BY InitialJournal DEF Init
<1>2. CallsOK
  BY IdleOwned DEF Init, CallsOK
<1>3. NoOrder \in VenueOrder
  BY DEF NoOrder, VenueOrder
<1>4. RestOK
  BY <1>3 DEF Init, RestOK
<1> QED
  BY <1>1, <1>2, <1>4 DEF ServiceInv, TypedInv, JournalInv

\* Every step of the service keeps its invariant and is the journal's.
LEMMA ServiceInvStep ==
    ServiceInv /\ [Next]_vars => ServiceInv' /\ [JournalNext]_journalVars
<1> SUFFICES ASSUME ServiceInv, [Next]_vars
             PROVE  ServiceInv' /\ [JournalNext]_journalVars
  OBVIOUS
<1>1. StepOK
  BY ServiceStep DEF ServiceInv
<1>2. JournalInv'
  BY <1>1, InvariantStep DEF ServiceInv, StepOK
<1> QED
  BY <1>1, <1>2 DEF ServiceInv, TypedInv, StepOK, JournalInv

\* The service never leaves its invariant.
THEOREM ServiceInvariant == Spec => []ServiceInv
BY InitialService, ServiceInvStep, PTL DEF Spec

\* Every variable of the service keeps its shape.
THEOREM ServiceTypeCorrect == Spec => []ServiceTypeOK
<1>1. ServiceInv => ServiceTypeOK
  <2>1. CallsOK => call \in [Proc -> [Slot -> Call]]
    <3> SUFFICES ASSUME CallsOK PROVE call \in [Proc -> [Slot -> Call]]
      OBVIOUS
    <3>1. \A f \in [Slot -> OwnedCall] : f \in [Slot -> Call]
      BY DEF OwnedCall
    <3> QED
      BY <3>1 DEF CallsOK
  <2> QED
    BY <2>1 DEF ServiceInv, TypedInv, RestOK, ServiceTypeOK
<1> QED
  BY <1>1, ServiceInvariant, PTL

\* The handlers, the worker and the startup sequence drive the journal only
\* through what its most general client may do, crashes included: what is
\* proved of any client of the journal holds of the service.
THEOREM ServiceImplementsJournal == Spec => JournalSpec
<1>1. Init => JournalInit
  BY DEF Init
<1>2. ServiceInv /\ [Next]_vars => [JournalNext]_journalVars
  BY ServiceInvStep
<1> QED
  BY <1>1, <1>2, ServiceInvariant, PTL DEF Spec, JournalSpec

-----------------------------------------------------------------------------
(* One dispatch.  What forbids a second POST is the operation's row: the    *)
(* dispatch is authorised by a transaction that only an APPROVED row lets   *)
(* through and that counts in submits.  The invariant ties the posts sent   *)
(* and the calls about to send to that count.                               *)

\* Call <<p, s>> is about to send the order of operation o.
AboutToSend(p, s, o) == call[p][s].pc = "dispatch" /\ call[p][s].op = o

DispatchAt(o) ==
    /\ posts[o] <= 1
    /\ posts[o] = 1 => ops[o].submits = 1 /\ o \in confirmed
    /\ \A p \in Proc, s \in Slot : AboutToSend(p, s, o) =>
         /\ posts[o] = 0 /\ ops[o].submits = 1 /\ o \in confirmed
         /\ \A q \in Proc, t \in Slot :
              AboutToSend(q, t, o) => <<q, t>> = <<p, s>>

DispatchInv == \A o \in Op : DispatchAt(o)

\* No step takes an authorisation back.
LEMMA SubmitsKept ==
    ASSUME ServiceInv, StepOK, NEW o \in Op
    PROVE  ops'[o].submits >= ops[o].submits /\ ops'[o].submits <= 1
           /\ ops[o].submits \in Nat /\ ops'[o].submits \in Nat
<1>1. OpsStep
  BY JournalOpsStep DEF ServiceInv, StepOK
<1>2. ops \in [Op -> Row] /\ \A q \in Op : RowInv(ops[q])
  BY DEF ServiceInv, JournalInv, JournalTypeOK
<1>3. RowStep(ops[o], ops'[o])
  BY <1>1, <1>2, StutterStep DEF OpsStep
<1>4. ops[o].submits \in Nat /\ ops'[o].submits \in Nat
  BY <1>2, <1>3, NaturalColumns DEF RowStep
<1> QED
  BY <1>3, <1>4 DEF RowStep, RowInv

\* The service starts with nothing sent.
LEMMA InitialDispatch == Init => DispatchInv
BY DEF Init, DispatchInv, DispatchAt, AboutToSend, IdleCall

\* No step lets a second order out.
LEMMA DispatchStep ==
    ServiceInv /\ DispatchInv /\ [Next]_vars => DispatchInv'
<1> SUFFICES ASSUME ServiceInv, DispatchInv, [Next]_vars
             PROVE  DispatchInv'
  OBVIOUS
<1>0. TypedInv /\ StepOK
  BY ServiceStep DEF ServiceInv
<1>2. CASE Quiet
  <2> SUFFICES ASSUME NEW o \in Op
               PROVE  DispatchAt(o)'
    BY DEF DispatchInv
  <2>1. \A p \in Proc, s \in Slot :
          AboutToSend(p, s, o)' => AboutToSend(p, s, o)
    BY <1>2 DEF Quiet, QuietCalls, AboutToSend
  <2>2. /\ ops'[o].submits >= ops[o].submits /\ ops'[o].submits <= 1
        /\ ops[o].submits \in Nat /\ ops'[o].submits \in Nat
    BY <1>0, SubmitsKept
  <2>3. ops[o].submits = 1 => ops'[o].submits = 1
    BY <2>2
  <2>4. posts' = posts /\ confirmed \subseteq confirmed' /\ DispatchAt(o)
    BY <1>2 DEF Quiet, DispatchInv
  <2> QED
    BY <2>1, <2>3, <2>4 DEF DispatchAt
<1>3. ASSUME NEW p \in Proc, NEW r \in Requests, NEW x \in Op,
             ExecuteIntent(p, r, x)
      PROVE  DispatchInv'
  <2> SUFFICES ASSUME NEW y \in Op
               PROVE  DispatchAt(y)'
    BY DEF DispatchInv
  <2>0. r \in Slot /\ DispatchAt(y)
    BY ServiceFacts DEF DispatchInv
  <2>1. /\ posts' = posts /\ confirmed' = confirmed /\ x \in confirmed
        /\ ops[x].state = "APPROVED"
        /\ \A q \in Op \ {x} : ops'[q] = ops[q]
        /\ ops'[x].submits = ops[x].submits + 1
        /\ call' = [call EXCEPT ![p][r] = CallAt("dispatch", x, 0)]
    BY <1>0, <1>3, ExecuteStep
  <2>2. ops[x].submits = 0 /\ ops'[x].submits = 1
    BY <2>1 DEF ServiceInv, JournalInv, RowInv
  <2>3. \A q \in Proc, t \in Slot :
          AboutToSend(q, t, y)' <=> IF <<q, t>> = <<p, r>> THEN y = x
                                    ELSE AboutToSend(q, t, y)
    <3>1. CallAt("dispatch", x, 0).pc = "dispatch"
          /\ CallAt("dispatch", x, 0).op = x
      BY DEF CallAt, IdleCall
    <3> QED
      BY <1>0, <2>0, <2>1, <3>1 DEF TypedInv, CallsOK, AboutToSend
  <2>4. CASE y = x
    <3>1. \A q \in Proc, t \in Slot : ~AboutToSend(q, t, y)
      BY <2>0, <2>2, <2>4 DEF DispatchAt
    <3>2. posts[y] = 0
      BY <1>0, <2>0, <2>2, <2>4 DEF DispatchAt, TypedInv, RestOK
    <3> QED
      BY <2>1, <2>2, <2>3, <2>4, <3>1, <3>2 DEF DispatchAt
  <2>5. CASE y # x
    <3>1. ops'[y] = ops[y]
      BY <2>1, <2>5
    <3>2. \A q \in Proc, t \in Slot :
            AboutToSend(q, t, y)' => AboutToSend(q, t, y)
      BY <2>3, <2>5
    <3> QED
      BY <2>0, <2>1, <3>1, <3>2 DEF DispatchAt
  <2> QED
    BY <2>4, <2>5
<1>4. ASSUME NEW p \in Proc, NEW r \in Requests, PlaceOrder(p, r)
      PROVE  DispatchInv'
  <2> SUFFICES ASSUME NEW y \in Op
               PROVE  DispatchAt(y)'
    BY DEF DispatchInv
  <2>0. r \in Slot /\ DispatchAt(y)
    BY ServiceFacts DEF DispatchInv
  <2> DEFINE x == call[p][r].op
  <2>1. /\ QuietCalls
        /\ ops' = ops /\ confirmed' = confirmed
        /\ x \in Op /\ call[p][r].pc = "dispatch"
        /\ posts' = [posts EXCEPT ![x] = @ + 1]
        /\ call'[p][r].pc = "placing"
    BY <1>0, <1>4, PlaceStep DEF journalVars
  <2>2. \A q \in Proc, t \in Slot :
          AboutToSend(q, t, y)' => /\ AboutToSend(q, t, y)
                                   /\ <<q, t>> # <<p, r>>
    BY <2>1 DEF QuietCalls, AboutToSend
  <2>3. CASE y = x
    <3>1. AboutToSend(p, r, y)
      BY <2>1, <2>3 DEF AboutToSend
    <3>2. /\ posts[y] = 0 /\ ops[y].submits = 1 /\ y \in confirmed
          /\ \A q \in Proc, t \in Slot :
               AboutToSend(q, t, y) => <<q, t>> = <<p, r>>
      BY <2>0, <3>1 DEF DispatchAt
    <3>3. posts'[y] = 1
      BY <1>0, <2>1, <2>3, <3>2 DEF TypedInv, RestOK
    <3>4. \A q \in Proc, t \in Slot : ~AboutToSend(q, t, y)'
      BY <2>2, <3>2
    <3> QED
      BY <2>1, <3>2, <3>3, <3>4 DEF DispatchAt
  <2>4. CASE y # x
    <3>1. posts'[y] = posts[y]
      BY <1>0, <2>1, <2>4 DEF TypedInv, RestOK
    <3> QED
      BY <2>0, <2>1, <2>2, <3>1 DEF DispatchAt
  <2> QED
    BY <2>3, <2>4
<1> QED
  BY <1>0, <1>2, <1>3, <1>4, ServiceStep

\* At most one POST ever leaves for an operation, only for a confirmed intent,
\* and only once its dispatch is in the journal, however many processes,
\* requests and restarts there are (executeIntent, steps 1 and 2).
THEOREM OneDispatch == Spec => []OneDurableDispatch
<1>1. ServiceInv /\ DispatchInv => OneDurableDispatch
  BY DEF ServiceInv, JournalInv, RowInv, DispatchInv, DispatchAt,
     OneDurableDispatch
<1> QED
  BY <1>1, InitialDispatch, DispatchStep, ServiceInvariant, PTL DEF Spec

\* The service settles no operation as absent that has a venue order or a fill.
THEOREM ServiceAbsenceWithoutTrace == Spec => []AbsenceCarriesNoTrace
BY ServiceImplementsJournal, AbsenceWithoutTrace, PTL

\* The service never rebinds a venue order and never takes a fill back.
THEOREM ServiceEvidenceKept == Spec => EvidenceNeverShrinks
BY ServiceImplementsJournal, EvidenceKept, PTL

-----------------------------------------------------------------------------
(***************************************************************************)
(* What the journal says of an operation is what the venue did, for any    *)
(* number of operations, processes, requests and crashes, with lost, late  *)
(* and unreadable replies, armed faults and restarts: NeverAheadOfVenue    *)
(* and SettledTruth.  The one hypothesis is that the venue itself tells    *)
(* the truth (Anomalies = {}).                                             *)
(*                                                                         *)
(* The properties are not inductive.  What a row may become depends on the *)
(* answers the calls hold, which may be old, and on what may still be on   *)
(* the wire, so the invariant says what every answer in flight is worth.   *)
(***************************************************************************)

OpenStatus == {"NEW", "PARTIALLY_FILLED", "PENDING_CANCEL"}
ClosedStatus == {"FILLED", "CANCELED", "EXPIRED", "EXPIRED_IN_MATCH",
                 "REJECTED"}

\* An order exists at the venue only after its one POST, and not while that
\* POST is still on the wire.
WorldAt(o) ==
    /\ venue[o] = NoOrder \/ venue[o].status \in OpenStatus \cup ClosedStatus
    /\ o \in wire => venue[o] = NoOrder /\ posts[o] = 1
    /\ venue[o] # NoOrder => posts[o] = 1

\* The POST is used up and left no order: none can appear any more.
Refused(o) == venue[o] = NoOrder /\ o \notin wire /\ posts[o] = 1

\* An observation of o that is true of the venue, or was: its quantity has at
\* most grown since, and if it saw the order closed nothing has changed.
Faithful(o, obs) ==
    /\ obs.venueOrderId = VenueIdOf[o]
    /\ obs.status \in OpenStatus \cup ClosedStatus
    /\ venue[o] # NoOrder
    /\ obs.executed <= venue[o].executed
    /\ obs.status \in ClosedStatus => /\ venue[o].status = obs.status
                                      /\ venue[o].executed = obs.executed

\* The answer a call holds, however long it has held it.
AnswerTrue(k) ==
    /\ k.answer.kind = "OBSERVED" => Faithful(k.op, k.answer.observation)
    /\ k.answer.kind = "REJECTED" => Refused(k.op)

\* A row whose every claim the venue backs.
RowTrue(o) ==
    /\ ops[o].executed <= venue[o].executed
    /\ ops[o].venueOrderId # None => /\ ops[o].venueOrderId = VenueIdOf[o]
                                     /\ venue[o] # NoOrder
    /\ ops[o].state \in HeardVerdict =>
         SettledByOrder(ops[o]) \/ SettledByRefusal(ops[o])
    /\ SettledByOrder(ops[o]) =>
         /\ venue[o].status \in ClosedStatus
         /\ ops[o].state = StatusToState[venue[o].status]
         /\ ops[o].executed = venue[o].executed
    /\ SettledByRefusal(ops[o]) => Refused(o)

VenueInv ==
    /\ \A o \in Op : WorldAt(o) /\ RowTrue(o)
    /\ \A p \in Proc, s \in Slot :
         call[p][s].op \in Op => AnswerTrue(call[p][s])

-----------------------------------------------------------------------------
(* One step, seen from the three sides: the venue goes on, rows are        *)
(* written, answers are kept or arrive.                                    *)

\* The venue goes on with the order of o.
Onward(o) ==
    /\ venue[o].executed <= venue'[o].executed
    /\ venue[o] # NoOrder => venue'[o] # NoOrder
    /\ venue[o].status \in ClosedStatus => venue'[o] = venue[o]
    /\ Refused(o) => Refused(o)'

\* The row of o is restated, or takes over something true of the venue.
RowBacked(o) ==
    \/ ops'[o] = ops[o]
    \/ /\ ops'[o].executed = ops[o].executed
       /\ ops'[o].venueOrderId = ops[o].venueOrderId
       /\ \/ ops'[o].state \notin HeardVerdict
          \/ ops'[o].state = "REJECTED" /\ Refused(o)
    \/ \E obs \in Observation :
         /\ Faithful(o, obs)
         /\ ops'[o].state = StatusToState[obs.status]
         /\ ops'[o].venueOrderId = obs.venueOrderId
         /\ ops'[o].executed = obs.executed

\* The call holds no answer, or the one it held.
AnswerKept(p, s) ==
    \/ call'[p][s].answer = NoReply
    \/ /\ call'[p][s].answer = call[p][s].answer
       /\ call'[p][s].op = call[p][s].op

\* The two sides a step takes that outlast the calls: the venue goes on, and
\* every row is backed.
Followed == \A o \in Op : Onward(o) /\ RowBacked(o)

\* What an open and what a closed status become in the journal.
LEMMA StatusMeaning ==
    /\ \A s \in OpenStatus : s \in VenueStatus
          /\ StatusToState[s] \in {"ACKNOWLEDGED", "PARTIALLY_FILLED",
                                   "CANCEL_REQUESTED"}
    /\ \A s \in ClosedStatus : s \in VenueStatus
          /\ StatusToState[s] \in HeardVerdict
BY DEF OpenStatus, ClosedStatus, VenueStatus, StatusToState, HeardVerdict

\* The quantities at the venue are numbers.
LEMMA VenueNumbers ==
    ASSUME RestOK, NEW o \in Op
    PROVE  venue[o] \in VenueOrder /\ venue[o].executed \in Nat
BY ServiceFacts DEF RestOK, VenueOrder

\* What was true of the venue stays worth as much while the venue goes on.
LEMMA FaithfulLater ==
    ASSUME RestOK, RestOK', NEW o \in Op, Onward(o), NEW obs \in Observation,
           Faithful(o, obs)
    PROVE  Faithful(o, obs)'
<1>1. venue[o].executed \in Nat /\ venue'[o].executed \in Nat
      /\ obs.executed \in Nat
  BY VenueNumbers, NaturalColumns DEF RestOK, VenueOrder
<1> QED
  BY <1>1 DEF Faithful, Onward

\* The row goes on being backed, whichever side moves.
LEMMA RowLater ==
    ASSUME TypedInv, TypedInv', NEW o \in Op, Onward(o), RowBacked(o),
           WorldAt(o), RowTrue(o)
    PROVE  RowTrue(o)'
<1>0. /\ venue[o].executed \in Nat /\ venue'[o].executed \in Nat
      /\ ops[o].executed \in Nat /\ ops'[o].executed \in Nat
      /\ ops[o] \in Row /\ ops'[o] \in Row
  BY VenueNumbers, NaturalColumns DEF TypedInv, RestOK, VenueOrder,
     JournalTypeOK
<1>1. ASSUME /\ ops'[o].executed <= venue[o].executed
             /\ ops'[o].venueOrderId # None =>
                  /\ ops'[o].venueOrderId = VenueIdOf[o]
                  /\ venue[o] # NoOrder
             /\ ops'[o].state \in HeardVerdict =>
                  SettledByOrder(ops'[o]) \/ SettledByRefusal(ops'[o])
             /\ SettledByOrder(ops'[o]) =>
                  /\ venue[o].status \in ClosedStatus
                  /\ ops'[o].state = StatusToState[venue[o].status]
                  /\ ops'[o].executed = venue[o].executed
             /\ SettledByRefusal(ops'[o]) => Refused(o)
      PROVE  RowTrue(o)'
  BY <1>0, <1>1 DEF RowTrue, Onward
<1>2. CASE ops'[o] = ops[o]
  BY <1>1, <1>2 DEF RowTrue
<1>3. CASE /\ ops'[o].executed = ops[o].executed
           /\ ops'[o].venueOrderId = ops[o].venueOrderId
           /\ \/ ops'[o].state \notin HeardVerdict
              \/ ops'[o].state = "REJECTED" /\ Refused(o)
  BY <1>1, <1>3 DEF RowTrue, Refused, HeardVerdict, SettledByOrder,
                    SettledByRefusal
<1>4. ASSUME NEW obs \in Observation, Faithful(o, obs),
             ops'[o].state = StatusToState[obs.status],
             ops'[o].venueOrderId = obs.venueOrderId,
             ops'[o].executed = obs.executed
      PROVE  RowTrue(o)'
  <2>1. CASE obs.status \in OpenStatus
    <3>1. ops'[o].state \in {"ACKNOWLEDGED", "PARTIALLY_FILLED",
                             "CANCEL_REQUESTED"}
      BY <1>4, <2>1, StatusMeaning
    <3> QED
      BY <1>1, <1>4, <3>1 DEF Faithful, HeardVerdict, SettledByOrder,
                              SettledByRefusal
  <2>2. CASE obs.status \in ClosedStatus
    <3>1. ops'[o].state \in HeardVerdict
      BY <1>4, <2>2, StatusMeaning
    <3>2. SettledByOrder(ops'[o]) /\ ~SettledByRefusal(ops'[o])
      BY <1>4, <3>1, MachineAssumption
      DEF MachineAssumption, Observation, SettledByOrder, SettledByRefusal
    <3> QED
      BY <1>1, <1>4, <2>2, <3>2 DEF Faithful
  <2> QED
    BY <1>4, <2>1, <2>2 DEF Faithful
<1> QED
  BY <1>2, <1>3, <1>4 DEF RowBacked

\* The three sides together keep the invariant.
LEMMA TruthKept ==
    ASSUME TypedInv, TypedInv', VenueInv,
           \A o \in Op : WorldAt(o)' /\ Onward(o) /\ RowBacked(o),
           \A p \in Proc, s \in Slot :
              \/ AnswerKept(p, s)
              \/ call'[p][s].op \in Op => AnswerTrue(call[p][s])'
    PROVE  VenueInv'
<1>1. \A o \in Op : RowTrue(o)'
  BY RowLater DEF VenueInv
<1>2. ASSUME NEW p \in Proc, NEW s \in Slot, call'[p][s].op \in Op
      PROVE  AnswerTrue(call[p][s])'
  <2> DEFINE k == call'[p][s]
  <2>1. CASE k.answer = NoReply
    BY <2>1 DEF AnswerTrue, NoReply
  <2>2. CASE k.answer = call[p][s].answer /\ k.op = call[p][s].op
    <3>1. AnswerTrue(call[p][s])
      BY <1>2, <2>2 DEF VenueInv
    <3>2. PICK o \in Op : o = call[p][s].op
      BY <1>2, <2>2
    <3>3. PICK a : a = call[p][s].answer
      OBVIOUS
    <3>4. a.kind = "OBSERVED" => a.observation \in Observation
      BY <3>3, Replies DEF TypedInv, CallsOK, OwnedCall, Call
    <3>5. a.kind = "OBSERVED" => Faithful(o, a.observation)'
      BY <3>1, <3>2, <3>3, <3>4, FaithfulLater DEF AnswerTrue, TypedInv
    <3>6. a.kind = "REJECTED" => Refused(o)'
      BY <3>1, <3>2, <3>3 DEF AnswerTrue, Onward
    <3>7. k.answer = a /\ k.op = o
      BY <2>2, <3>2, <3>3
    <3> QED
      BY <3>5, <3>6, <3>7 DEF AnswerTrue
  <2> QED
    BY <1>2, <2>1, <2>2 DEF AnswerKept
<1> QED
  BY <1>1, <1>2 DEF VenueInv

-----------------------------------------------------------------------------
(* Rows. *)

\* What a command leaves: the row itself, the row in another state, or the
\* observation it carries.
LEMMA DecideShape ==
    ASSUME NEW v \in Row, NEW c \in Command, NEW w \in Decide(v, c)
    PROVE  \/ w = v
           \/ /\ w.executed = v.executed /\ w.venueOrderId = v.venueOrderId
              /\ \/ w.state \notin HeardVerdict
                 \/ w.state = "REJECTED" /\ c.type = "RECORD_REJECTION"
           \/ /\ c.type \in {"RECORD_ACKNOWLEDGEMENT",
                             "RECORD_ORDER_OBSERVATION"}
              /\ w = Observed(v, c.observation)
<1>1. CASE v.state \in Terminal
  BY <1>1 DEF Decide, DecideSettled, ReobserveTerminal, Accept
<1>2. CASE v.state \notin Terminal
  <2>1. w \in DecideOpen(v, c)
    BY <1>2 DEF Decide
  <2>2. CASE c.type \in {"RECORD_ACKNOWLEDGEMENT", "RECORD_ORDER_OBSERVATION"}
    <3>1. \/ w = Observed(v, c.observation)
          \/ w = [v EXCEPT !.state = "MANUAL_REVIEW"]
      BY <2>1, <2>2 DEF DecideOpen, RecordAcknowledgement, Accept,
         RecordOrderObservation
    <3> QED
      BY <2>2, <3>1 DEF Row, HeardVerdict
  <2>3. CASE c.type = "RECORD_ORDER_ABSENT"
    <3>1. \E s \in {"MANUAL_REVIEW", "NOT_FOUND_SAFE", "UNKNOWN"} :
            w = [v EXCEPT !.state = s]
      BY <2>1, <2>3 DEF DecideOpen, RecordOrderAbsent
    <3> QED
      BY <3>1 DEF Row, HeardVerdict
  <2>4. CASE c.type = "BEGIN_SUBMISSION"
    <3>1. w = [v EXCEPT !.state = "SUBMITTING", !.submits = v.submits + 1]
      BY <2>1, <2>4 DEF DecideOpen, BeginSubmission, Accept
    <3> QED
      BY <3>1 DEF Row, HeardVerdict
  <2>5. CASE c.type = "RECORD_REJECTION"
    <3>1. w = [v EXCEPT !.state = "REJECTED"]
      BY <2>1, <2>5 DEF DecideOpen, RecordRejection, Move, Accept
    <3> QED
      BY <2>5, <3>1 DEF Row, HeardVerdict
  <2>6. CASE c.type \in {"CONFIRM_INTENT", "RECORD_AMBIGUOUS_SUBMISSION",
                         "BEGIN_RECONCILIATION", "REQUEST_CANCEL",
                         "RECORD_RECONCILIATION_UNAVAILABLE",
                         "ESCALATE_MANUAL_REVIEW"}
    <3>1. \E s \in {"APPROVED", "UNKNOWN", "RECONCILING", "CANCEL_REQUESTED",
                    "MANUAL_REVIEW"} : w = [v EXCEPT !.state = s]
      BY <2>1, <2>6 DEF DecideOpen, ConfirmIntent, RecordAmbiguous,
         BeginReconciliation, RequestCancel, ReconciliationUnavailable,
         Escalate, Move, Accept
    <3> QED
      BY <3>1 DEF Row, HeardVerdict
  <2>7. CASE c.type = "RECORD_ACCOUNT_OBSERVATION"
    BY <2>1, <2>7 DEF DecideOpen
  <2> QED
    BY <2>2, <2>3, <2>4, <2>5, <2>6, <2>7, CommandArguments
<1> QED
  BY <1>1, <1>2

\* A command writes a row the venue backs when what it carries is backed.
LEMMA CommandBacked ==
    ASSUME TypedInv, NEW o \in Op, NEW c \in Command, ApplyCommand(o, c),
           c.type \in {"RECORD_ACKNOWLEDGEMENT", "RECORD_ORDER_OBSERVATION"}
              => Faithful(o, c.observation),
           c.type = "RECORD_REJECTION" => Refused(o)
    PROVE  \A q \in Op : RowBacked(q)
<1>1. PICK w \in Decide(ops[o], c) : ops' = [ops EXCEPT ![o] = w]
  BY DEF ApplyCommand, Applied
<1>2. ops[o] \in Row /\ ops'[o] = w /\ \A q \in Op \ {o} : ops'[q] = ops[q]
  BY <1>1 DEF TypedInv, JournalTypeOK
<1>3. RowBacked(o)
  <2>1. CASE /\ c.type \in {"RECORD_ACKNOWLEDGEMENT",
                            "RECORD_ORDER_OBSERVATION"}
             /\ w = Observed(ops[o], c.observation)
    <3>1. c.observation \in Observation /\ Faithful(o, c.observation)
      BY <2>1, CommandArguments
    <3>2. /\ w.state = StatusToState[c.observation.status]
          /\ w.venueOrderId = c.observation.venueOrderId
          /\ w.executed = c.observation.executed
      BY <1>2, <2>1 DEF Observed, Row
    <3> QED
      BY <1>2, <3>1, <3>2 DEF RowBacked
  <2> QED
    BY <1>2, <2>1, DecideShape DEF RowBacked
<1> QED
  BY <1>2, <1>3 DEF RowBacked

\* A demotion restates the row.
LEMMA DemotionBacked ==
    ASSUME TypedInv, NEW p \in Proc, NEW o \in Op, ResumeDemote(p, o)
    PROVE  \A q \in Op : RowBacked(q)
<1>1. ops[o] \in Row /\ ops' = [ops EXCEPT ![o] = Demoted(ops[o])]
  BY DEF ResumeDemote, TypedInv, JournalTypeOK
<1>2. ops'[o] = Demoted(ops[o]) /\ \A q \in Op \ {o} : ops'[q] = ops[q]
  BY <1>1 DEF TypedInv, JournalTypeOK
<1> QED
  BY <1>1, <1>2 DEF RowBacked, Demoted, Row, HeardVerdict

-----------------------------------------------------------------------------
(* Calls. *)

\* A call set to one that holds no answer, or the same one.
LEMMA KeptWhenSet ==
    ASSUME CallsOK, NEW p \in Proc, NEW s \in Slot, NEW k,
           call' = [call EXCEPT ![p][s] = k],
           k.answer = NoReply \/ /\ k.answer = call[p][s].answer
                                 /\ k.op = call[p][s].op
    PROVE  \A q \in Proc, t \in Slot : AnswerKept(q, t)
BY DEF CallsOK, AnswerKept

\* A call that ends.
LEMMA KeptWhenDone ==
    ASSUME CallsOK, NEW p \in Proc, NEW s \in Slot, Done(p, s)
    PROVE  \A q \in Proc, t \in Slot : AnswerKept(q, t)
BY KeptWhenSet DEF Done, IdleCall

\* A call that goes on.
LEMMA KeptWhenGoing ==
    ASSUME CallsOK, NEW p \in Proc, NEW s \in Slot, NEW pc, Goto(p, s, pc)
    PROVE  \A q \in Proc, t \in Slot : AnswerKept(q, t)
<1> DEFINE k == [call[p][s] EXCEPT !.pc = pc]
<1>1. call[p][s] \in Call
  BY CallsAtWork
<1>2. k.answer = call[p][s].answer /\ k.op = call[p][s].op
  BY <1>1 DEF Call
<1>3. call' = [call EXCEPT ![p][s] = k]
  BY DEF Goto
<1> HIDE DEF k
<1> QED
  BY <1>2, <1>3, KeptWhenSet

\* A call that throws.
LEMMA KeptWhenThrowing ==
    ASSUME CallsOK, NEW p \in Proc, NEW s \in Slot, Throw(p, s)
    PROVE  \A q \in Proc, t \in Slot : AnswerKept(q, t)
BY KeptWhenDone, KeptWhenGoing DEF Throw

\* A call that begins.
LEMMA KeptWhenNew ==
    ASSUME CallsOK, NEW p \in Proc, NEW s \in Slot, NEW pc, NEW o, NEW tries,
           call' = [call EXCEPT ![p][s] = CallAt(pc, o, tries)]
    PROVE  \A q \in Proc, t \in Slot : AnswerKept(q, t)
<1>1. CallAt(pc, o, tries).answer = NoReply
  BY DEF CallAt, IdleCall
<1> QED
  BY <1>1, KeptWhenSet

\* Calls that are left alone.
LEMMA KeptWhenHeld ==
    ASSUME call' = call
    PROVE  \A q \in Proc, t \in Slot : AnswerKept(q, t)
BY DEF AnswerKept

\* A pass that concludes.
LEMMA KeptWhenConcluding ==
    ASSUME CallsOK, NEW p \in Proc, NEW s \in Slot, NEW c, Conclude(p, s, c)
    PROVE  \A q \in Proc, t \in Slot : AnswerKept(q, t)
<1> DEFINE k == [CallAt("releasing", call[p][s].op, call[p][s].tries)
                   EXCEPT !.settled = Resolved(ops'[call[p][s].op].state)]
<1>1. k.answer = NoReply
  BY DEF CallAt, IdleCall
<1>2. call' = [call EXCEPT ![p][s] = k]
  BY DEF Conclude
<1> HIDE DEF k
<1> QED
  BY <1>1, <1>2, KeptWhenSet

-----------------------------------------------------------------------------
(* The steps that leave the venue and the wire alone. *)

Still == UNCHANGED <<venue, wire, posts>>

\* Such a step only writes backed rows, and brings no answer.
Backed == /\ Still
          /\ \A o \in Op : RowBacked(o)
          /\ \A p \in Proc, s \in Slot : AnswerKept(p, s)

\* A venue that stands still is one that goes on.
LEMMA StillWorld ==
    ASSUME TypedInv, VenueInv, Still, NEW o \in Op
    PROVE  WorldAt(o)' /\ Onward(o)
<1>1. venue[o].executed \in Nat
  BY VenueNumbers DEF TypedInv
<1> QED
  BY <1>1 DEF VenueInv, WorldAt, Onward, Refused, Still

LEMMA BackedKeeps ==
    ASSUME TypedInv, TypedInv', VenueInv, Backed
    PROVE  VenueInv' /\ Followed
BY TruthKept, StillWorld DEF Backed, Followed

\* Rows that are left alone are backed.
LEMMA RowsHeld ==
    ASSUME ops' = ops
    PROVE  \A o \in Op : RowBacked(o)
BY DEF RowBacked

\* The steps of a request, but for the one that sends.
LEMMA BackedRequest ==
    ASSUME TypedInv, VenueInv, NEW p \in Proc, NEW r \in Requests,
           \/ \E o \in Op : ExecuteIntent(p, r, o) \/ ReconcileByHand(p, r, o)
           \/ RecordAck(p, r) \/ RecordReject(p, r) \/ RecordLost(p, r)
           \/ QueueLost(p, r) \/ FaultDropsAnswer(p, r)
           \/ PlacementRefused(p, r)
    PROVE  Backed
<1> USE ServiceFacts DEF TypedInv
<1> DEFINE k == call[p][r]
<1>0. k \in Call /\ (k.pc # "idle" => k.op \in Op)
  BY CallsAtWork
<1>1. ASSUME NEW o \in Op, ExecuteIntent(p, r, o)
      PROVE  Backed
  <2>1. \A q \in Op : RowBacked(q)
    BY <1>1, CommandBacked, ServiceCommands DEF ExecuteIntent
  <2>2. Still /\ call' = [call EXCEPT ![p][r] = CallAt("dispatch", o, 0)]
    BY <1>1 DEF ExecuteIntent, Still, venueVars, historyVars
  <2> QED
    BY <2>1, <2>2, KeptWhenNew DEF Backed
<1>2. ASSUME NEW o \in Op, ReconcileByHand(p, r, o)
      PROVE  Backed
  <2>1. \A q \in Op : RowBacked(q)
    <3>1. ApplyCommand(o, BeginCommand)
      BY <1>2 DEF ReconcileByHand
    <3> QED
      BY <3>1, CommandBacked, ServiceCommands DEF BeginCommand
  <2>2. Still
    BY <1>2 DEF ReconcileByHand, Still, venueVars, historyVars
  <2>3. call' = [call EXCEPT ![p][r] =
                   CallAt("querying", o,
                          AtMost(jobs[o].attempts + 1, MinAttempts))]
    BY <1>2 DEF ReconcileByHand
  <2> QED
    BY <2>1, <2>2, <2>3, KeptWhenNew DEF Backed
<1>3. CASE RecordAck(p, r)
  <2>1. k.pc = "placing" /\ k.answer.kind = "OBSERVED" /\ k.op \in Op
    BY <1>0, <1>3 DEF RecordAck, Hears, At
  <2>2. Faithful(k.op, k.answer.observation)
    BY <2>1 DEF VenueInv, AnswerTrue
  <2>3. ApplyCommand(k.op, AckCommand(k)) /\ AckCommand(k) \in Command
    BY <1>0, <1>3, <2>1, ServiceCommands DEF RecordAck, Learn
  <2>4. /\ AckCommand(k).observation = k.answer.observation
        /\ AckCommand(k).type = "RECORD_ACKNOWLEDGEMENT"
    BY DEF AckCommand
  <2>5. \A q \in Op : RowBacked(q)
    BY <2>1, <2>2, <2>3, <2>4, CommandBacked
  <2> QED
    BY <1>3, <2>5, KeptWhenDone
    DEF RecordAck, Learn, Backed, Still, venueVars, historyVars
<1>4. CASE RecordReject(p, r)
  <2>1. k.pc = "placing" /\ k.answer.kind = "REJECTED" /\ k.op \in Op
    BY <1>0, <1>4 DEF RecordReject, Hears, At
  <2>2. Refused(k.op)
    BY <2>1 DEF VenueInv, AnswerTrue
  <2>3. \A q \in Op : RowBacked(q)
    BY <1>4, <2>1, <2>2, CommandBacked, ServiceCommands
    DEF RecordReject, Learn
  <2> QED
    BY <1>4, <2>3, KeptWhenDone
    DEF RecordReject, Learn, Backed, Still, venueVars, historyVars
<1>5. CASE RecordLost(p, r)
  <2>1. k.op \in Op /\ ApplyCommand(k.op, AmbiguousCommand)
    BY <1>0, <1>5 DEF RecordLost, Hears, At, Learn
  <2>2. \A q \in Op : RowBacked(q)
    BY <2>1, CommandBacked, ServiceCommands DEF AmbiguousCommand
  <2> QED
    BY <1>5, <2>2, KeptWhenGoing
    DEF RecordLost, Learn, Backed, Still, venueVars, historyVars
<1>6. CASE QueueLost(p, r)
  BY <1>6, KeptWhenDone, RowsHeld
  DEF QueueLost, EnqueueReconciliation, Backed, Still, venueVars, historyVars
<1>7. CASE FaultDropsAnswer(p, r)
  <2>1. k.op \in Op /\ ApplyCommand(k.op, AmbiguousCommand)
    BY <1>0, <1>7 DEF FaultDropsAnswer, At
  <2>2. \A q \in Op : RowBacked(q)
    BY <2>1, CommandBacked, ServiceCommands DEF AmbiguousCommand
  <2> QED
    BY <1>7, <2>2, KeptWhenDone
    DEF FaultDropsAnswer, Backed, Still, venueVars, historyVars
<1>8. CASE PlacementRefused(p, r)
  BY <1>8, KeptWhenDone, RowsHeld
  DEF PlacementRefused, Backed, Still, venueVars, historyVars
<1> QED
  BY <1>1, <1>2, <1>3, <1>4, <1>5, <1>6, <1>7, <1>8

\* The steps of a pass that has its answer, or fails, or is over.
LEMMA BackedPass ==
    ASSUME TypedInv, VenueInv, NEW p \in Proc, NEW s \in Slot,
           \/ RecordObserved(p, s) \/ RecordAbsent(p, s)
           \/ RecordUnavailable(p, s) \/ PassRefused(p, s)
           \/ ReleaseJob(p, s) \/ ReplyUnreadable(p, s)
    PROVE  Backed
<1> USE ServiceFacts DEF TypedInv
<1> DEFINE k == call[p][s]
<1>0. k \in Call /\ k \in OwnedCall /\ (k.pc # "idle" => k.op \in Op)
  BY CallsAtWork
<1>1. ASSUME NEW c \in Command, Conclude(p, s, c), k.pc = "querying",
             c.type = "RECORD_ORDER_OBSERVATION" =>
                Faithful(k.op, c.observation),
             c.type \notin {"RECORD_ACKNOWLEDGEMENT", "RECORD_REJECTION"}
      PROVE  Backed
  <2>1. k.op \in Op /\ ApplyCommand(k.op, c)
    BY <1>0, <1>1 DEF Conclude
  <2>2. \A q \in Op : RowBacked(q)
    BY <1>1, <2>1, CommandBacked
  <2> QED
    BY <1>1, <2>2, KeptWhenConcluding DEF Conclude, Backed, Still, venueVars
<1>2. CASE RecordObserved(p, s)
  <2>1. k.pc = "querying" /\ k.answer.kind = "OBSERVED" /\ k.op \in Op
    BY <1>0, <1>2 DEF RecordObserved, At
  <2>2. Faithful(k.op, k.answer.observation)
    BY <2>1 DEF VenueInv, AnswerTrue
  <2>3. /\ ObservedCommand(k).observation = k.answer.observation
        /\ ObservedCommand(k).type = "RECORD_ORDER_OBSERVATION"
    BY DEF ObservedCommand
  <2>4. ObservedCommand(k) \in Command
    BY <1>0, <2>1, ServiceCommands
  <2> QED
    BY <1>1, <1>2, <2>1, <2>2, <2>3, <2>4 DEF RecordObserved
<1>3. CASE RecordAbsent(p, s)
  <2>1. k.pc = "querying"
    BY <1>3 DEF RecordAbsent, At
  <2>2. AbsentCommand(k) \in Command
        /\ AbsentCommand(k).type = "RECORD_ORDER_ABSENT"
    BY <1>0, <2>1, ServiceCommands DEF AbsentCommand
  <2> QED
    BY <1>1, <1>3, <2>1, <2>2 DEF RecordAbsent
<1>4. CASE RecordUnavailable(p, s)
  <2>1. k.pc = "querying"
    BY <1>4 DEF RecordUnavailable, At
  <2>2. UnavailableCommand \in Command
        /\ UnavailableCommand.type = "RECORD_RECONCILIATION_UNAVAILABLE"
    BY ServiceCommands DEF UnavailableCommand
  <2> QED
    BY <1>1, <1>4, <2>1, <2>2 DEF RecordUnavailable
<1>5. CASE PassRefused(p, s)
  BY <1>5, KeptWhenThrowing, RowsHeld
  DEF PassRefused, Backed, Still, venueVars, historyVars
<1>6. CASE ReleaseJob(p, s)
  BY <1>6, KeptWhenDone, RowsHeld
  DEF ReleaseJob, ReleaseReconciliation, Backed, Still, venueVars, historyVars
<1>7. CASE ReplyUnreadable(p, s)
  BY <1>7, KeptWhenThrowing, RowsHeld
  DEF ReplyUnreadable, Backed, Still, venueVars, historyVars
<1> QED
  BY <1>2, <1>3, <1>4, <1>5, <1>6, <1>7

\* The worker's own steps.
LEMMA BackedWorker ==
    ASSUME TypedInv, VenueInv, NEW p \in Proc, WorkerNext(p)
    PROVE  Backed
<1> USE ServiceFacts DEF TypedInv
<1>0. call[p][Worker].pc # "idle" => call[p][Worker].op \in Op
  BY CallsAtWork
<1>1. ASSUME NEW o \in Op, WorkerClaims(p, o)
      PROVE  Backed
  BY <1>1, KeptWhenNew, RowsHeld
  DEF WorkerClaims, ClaimDueReconciliation, Backed, Still, venueVars,
      historyVars
<1>2. CASE WorkerBegins(p)
  <2>1. call[p][Worker].op \in Op
        /\ ApplyCommand(call[p][Worker].op, BeginCommand)
    BY <1>0, <1>2 DEF WorkerBegins, At
  <2>2. \A q \in Op : RowBacked(q)
    BY <2>1, CommandBacked, ServiceCommands DEF BeginCommand
  <2> QED
    BY <1>2, <2>2, KeptWhenGoing
    DEF WorkerBegins, Backed, Still, venueVars, historyVars
<1>3. CASE WorkerRefused(p)
  BY <1>3, KeptWhenThrowing, RowsHeld
  DEF WorkerRefused, Backed, Still, venueVars, historyVars
<1>4. CASE GiveBack(p)
  BY <1>4, KeptWhenDone, RowsHeld
  DEF GiveBack, ReleaseReconciliation, Backed, Still, venueVars, historyVars
<1> QED
  BY <1>1, <1>2, <1>3, <1>4 DEF WorkerNext

\* Startup, the fault lab, crashes and the passage of time.
LEMMA BackedProcess ==
    ASSUME TypedInv, VenueInv,
           \/ \E p \in Proc : ProcessNext(p)
           \/ \E o \in Op : IntentExpires(o) \/ WindowElapses(o)
    PROVE  Backed
<1> USE ServiceFacts DEF TypedInv
<1>1. ASSUME NEW p \in Proc, NEW o \in Op, Confirm(p, o)
      PROVE  Backed
  BY <1>1, KeptWhenHeld, CommandBacked, ServiceCommands
  DEF Confirm, Backed, Still, venueVars, historyVars
<1>2. ASSUME NEW p \in Proc, NEW o \in Op, Resume(p, o)
      PROVE  Backed
  <2>1. \A q \in Op : RowBacked(q)
    BY <1>2, DemotionBacked, RowsHeld DEF Resume, ResumeEnqueue
  <2> QED
    BY <1>2, <2>1, KeptWhenHeld
    DEF Resume, BesidesStartup, Backed, Still, venueVars, historyVars
<1>3. ASSUME NEW p \in Proc,
             \/ \E b \in BOOLEAN : SetFault(p, b)
             \/ Start(p) \/ StartServing(p)
      PROVE  Backed
  BY <1>3, KeptWhenHeld, RowsHeld
  DEF SetFault, Start, StartServing, ResumeScan, BesidesStartup, Backed,
      Still, venueVars, historyVars
<1>4. ASSUME NEW p \in Proc, Crash(p)
      PROVE  Backed
  <2>1. call' = [call EXCEPT ![p] = [s \in Slot |-> IdleCall]]
    BY <1>4 DEF Crash
  <2>2. \A q \in Proc, t \in Slot : AnswerKept(q, t)
    BY <2>1 DEF AnswerKept, CallsOK, IdleCall
  <2> QED
    BY <1>4, <2>2, RowsHeld
    DEF Crash, Backed, Still, venueVars, historyVars
<1>5. ASSUME NEW o \in Op, IntentExpires(o) \/ WindowElapses(o)
      PROVE  Backed
  BY <1>5, KeptWhenHeld, RowsHeld
  DEF IntentExpires, WindowElapses, Backed, Still, venueVars, historyVars
<1> QED
  BY <1>1, <1>2, <1>3, <1>4, <1>5 DEF ProcessNext

-----------------------------------------------------------------------------
(* The POST, the venue, and the answers to queries. *)

\* The POST that leaves is the operation's first, so no order is there yet.
LEMMA PostKeeps ==
    ASSUME TypedInv, TypedInv', DispatchInv, VenueInv,
           NEW p \in Proc, NEW r \in Requests, PlaceOrder(p, r)
    PROVE  VenueInv' /\ Followed
<1> USE ServiceFacts DEF TypedInv
<1> DEFINE x == call[p][r].op
<1>1. /\ x \in Op /\ call[p][r].pc = "dispatch"
      /\ posts' = [posts EXCEPT ![x] = @ + 1]
      /\ ops' = ops
  BY PlaceStep DEF journalVars
<1>2. venue' = venue /\ wire' = wire \cup {x}
  BY DEF PlaceOrder
<1>3. posts[x] = 0
  BY <1>1 DEF DispatchInv, DispatchAt, AboutToSend
<1>4. posts'[x] = 1 /\ \A q \in Op \ {x} : posts'[q] = posts[q]
  BY <1>1, <1>3 DEF RestOK
<1>5. ASSUME NEW o \in Op
      PROVE  WorldAt(o)' /\ Onward(o)
  <2>1. venue[o].executed \in Nat
    BY VenueNumbers
  <2>2. CASE o = x
    BY <1>2, <1>3, <1>4, <2>1, <2>2
    DEF VenueInv, WorldAt, Onward, Refused
  <2>3. CASE o # x
    BY <1>2, <1>4, <2>1, <2>3 DEF VenueInv, WorldAt, Onward, Refused
  <2> QED
    BY <2>2, <2>3
<1>6. \A q \in Proc, t \in Slot : AnswerKept(q, t)
  BY KeptWhenGoing DEF PlaceOrder
<1>7. \A o \in Op : RowBacked(o)
  BY <1>1, RowsHeld
<1> QED
  BY <1>5, <1>6, <1>7, TruthKept DEF Followed

\* A response reaches the calls that wait for it, and no other.
LEMMA ResponseReaches ==
    ASSUME CallsOK, NEW o \in Op, NEW reply \in Reply, Respond(o, reply)
    PROVE  \A p \in Proc, s \in Slot :
              \/ AnswerKept(p, s)
              \/ call'[p][s].answer = reply /\ call'[p][s].op = o
<1>1. ASSUME NEW p \in Proc, NEW s \in Slot,
             call[p][s].pc = "placing" /\ call[p][s].op = o
      PROVE  call'[p][s].answer = reply /\ call'[p][s].op = o
  <2>1. call[p][s] \in Call
    BY CallsAtWork
  <2>2. call'[p][s] = [call[p][s] EXCEPT !.answer = reply]
    BY <1>1 DEF Respond
  <2> QED
    BY <1>1, <2>1, <2>2 DEF Call
<1>2. ASSUME NEW p \in Proc, NEW s \in Slot,
             ~(call[p][s].pc = "placing" /\ call[p][s].op = o)
      PROVE  AnswerKept(p, s)
  BY <1>2 DEF Respond, AnswerKept
<1> QED
  BY <1>1, <1>2

\* An order arrives where none was, and the response describes it.
LEMMA AcceptanceKeeps ==
    ASSUME TypedInv, TypedInv', VenueInv, NEW o \in Op, VenueAccepts(o)
    PROVE  VenueInv' /\ Followed
<1> USE ServiceFacts DEF TypedInv
<1>1. PICK order \in FirstStatus :
        /\ venue' = [venue EXCEPT ![o] = order]
        /\ Respond(o, [kind |-> "OBSERVED", observation |->
                         [venueOrderId |-> VenueIdOf[o],
                          status |-> order.status,
                          executed |-> order.executed]])
  BY DEF VenueAccepts
<1> DEFINE obs == [venueOrderId |-> VenueIdOf[o], status |-> order.status,
                   executed |-> order.executed]
           reply == [kind |-> "OBSERVED", observation |-> obs]
<1>2. /\ order \in VenueOrder /\ order.status \in VenueStatus
      /\ order.status \in OpenStatus \cup ClosedStatus
      /\ order # NoOrder /\ order.executed \in Nat
  BY DEF FirstStatus, VenueOrder, VenueStatus, NoOrder, OpenStatus,
     ClosedStatus
<1>3. obs \in Observation
  BY <1>2 DEF Observation, VenueOrder
<1>4. reply \in Reply
  BY <1>3, Replies
<1>5. /\ venue'[o] = order /\ (\A q \in Op \ {o} : venue'[q] = venue[q])
      /\ o \in wire /\ venue[o] = NoOrder /\ wire' = wire \ {o}
      /\ ops' = ops /\ posts' = posts
  BY <1>1 DEF VenueAccepts, OnTheWireOnly, historyVars, RestOK
<1>6. ASSUME NEW q \in Op
      PROVE  WorldAt(q)' /\ Onward(q)
  <2>1. venue[q].executed \in Nat /\ WorldAt(q)
    BY VenueNumbers DEF VenueInv
  <2>2. CASE q = o
    BY <1>2, <1>5, <2>1, <2>2
    DEF WorldAt, Onward, Refused, NoOrder, ClosedStatus
  <2>3. CASE q # o
    BY <1>5, <2>1, <2>3 DEF WorldAt, Onward, Refused
  <2> QED
    BY <2>2, <2>3
<1>7. Faithful(o, obs)'
  BY <1>2, <1>5 DEF Faithful
<1>8. ASSUME NEW p \in Proc, NEW s \in Slot
      PROVE  \/ AnswerKept(p, s)
             \/ call'[p][s].op \in Op => AnswerTrue(call[p][s])'
  <2>1. CASE call'[p][s].answer = reply /\ call'[p][s].op = o
    <3>1. reply.kind = "OBSERVED" /\ reply.observation = obs
      OBVIOUS
    <3> QED
      BY <1>7, <2>1, <3>1 DEF AnswerTrue
  <2> HIDE DEF reply, obs
  <2> QED
    BY <1>1, <1>4, <2>1, ResponseReaches DEF reply, obs
<1>9. \A q \in Op : RowBacked(q)
  BY <1>5, RowsHeld
<1> QED
  BY <1>6, <1>8, <1>9, TruthKept DEF Followed

\* A refusal takes the POST off the wire for good.
LEMMA RejectionKeeps ==
    ASSUME TypedInv, TypedInv', VenueInv, NEW o \in Op, VenueRejects(o)
    PROVE  VenueInv' /\ Followed
<1> USE ServiceFacts DEF TypedInv
<1> DEFINE reply == [kind |-> "REJECTED", observation |-> None]
<1>1. /\ o \in wire /\ wire' = wire \ {o} /\ venue' = venue
      /\ ops' = ops /\ posts' = posts
      /\ Respond(o, reply) /\ reply \in Reply
  BY Replies DEF VenueRejects, OnTheWireOnly, historyVars
<1>2. ASSUME NEW q \in Op
      PROVE  WorldAt(q)' /\ Onward(q)
  <2>1. venue[q].executed \in Nat /\ WorldAt(q)
    BY VenueNumbers DEF VenueInv
  <2> QED
    BY <1>1, <2>1 DEF WorldAt, Onward, Refused
<1>3. Refused(o)'
  BY <1>1 DEF VenueInv, WorldAt, Refused
<1>4. ASSUME NEW p \in Proc, NEW s \in Slot
      PROVE  \/ AnswerKept(p, s)
             \/ call'[p][s].op \in Op => AnswerTrue(call[p][s])'
  <2>1. CASE call'[p][s].answer = reply /\ call'[p][s].op = o
    BY <1>3, <2>1 DEF AnswerTrue
  <2> QED
    BY <1>1, <2>1, ResponseReaches
<1>5. \A q \in Op : RowBacked(q)
  BY <1>1, RowsHeld
<1> QED
  BY <1>2, <1>4, <1>5, TruthKept DEF Followed

\* The POST is lost, or the order goes on at the venue.
LEMMA VenueGoesOnKeeps ==
    ASSUME TypedInv, TypedInv', VenueInv, NEW o \in Op,
           WireDrops(o) \/ VenueMoves(o)
    PROVE  VenueInv' /\ Followed
<1> USE ServiceFacts DEF TypedInv
<1>1. ops' = ops /\ posts' = posts /\ call' = call
  BY DEF WireDrops, VenueMoves, OnTheWireOnly, historyVars
<1>2. CASE WireDrops(o)
  <2>1. venue' = venue /\ wire' = wire \ {o} /\ o \in wire
    BY <1>2 DEF WireDrops
  <2>2. ASSUME NEW q \in Op
        PROVE  WorldAt(q)' /\ Onward(q)
    <3>1. venue[q].executed \in Nat /\ WorldAt(q)
      BY VenueNumbers DEF VenueInv
    <3> QED
      BY <1>1, <2>1, <3>1 DEF WorldAt, Onward, Refused
  <2> QED
    BY <1>1, <2>2, RowsHeld, KeptWhenHeld, TruthKept DEF Followed
<1>3. CASE VenueMoves(o)
  <2>1. PICK v \in Successors(venue[o]) : venue' = [venue EXCEPT ![o] = v]
    BY <1>3 DEF VenueMoves
  <2>2. /\ venue'[o] = v /\ (\A q \in Op \ {o} : venue'[q] = venue[q])
        /\ wire' = wire
    BY <1>3, <2>1 DEF VenueMoves, RestOK
  <2>3. /\ venue[o] \in VenueOrder /\ venue[o].executed \in Nat
        /\ venue[o].status \in OpenStatus
    BY <1>3, VenueNumbers DEF VenueMoves, OpenStatus
  <2>4. /\ v.status \in OpenStatus \cup ClosedStatus
        /\ venue[o].executed <= v.executed
    <3>1. CASE \E q \in venue[o].executed + 1 .. FullQuantity :
                 v = [status |-> IF q = FullQuantity THEN "FILLED"
                                 ELSE IF venue[o].status = "NEW"
                                 THEN "PARTIALLY_FILLED"
                                 ELSE venue[o].status,
                      executed |-> q]
      BY <2>3, <3>1 DEF OpenStatus, ClosedStatus
    <3>2. CASE \E t \in {"CANCELED", "EXPIRED", "EXPIRED_IN_MATCH",
                        "PENDING_CANCEL"} :
                 v = [venue[o] EXCEPT !.status = t]
      BY <2>3, <3>2 DEF OpenStatus, ClosedStatus, VenueOrder
    <3> QED
      BY <2>1, <3>1, <3>2 DEF Successors
  <2>5. ASSUME NEW q \in Op
        PROVE  WorldAt(q)' /\ Onward(q)
    <3>1. venue[q].executed \in Nat /\ WorldAt(q)
      BY VenueNumbers DEF VenueInv
    <3>2. CASE q = o
      <4>1. venue[q] # NoOrder /\ venue'[q] # NoOrder
            /\ venue[q].status \notin ClosedStatus
        BY <2>2, <2>3, <2>4, <3>2 DEF NoOrder, OpenStatus, ClosedStatus
      <4> QED
        BY <1>1, <2>2, <2>4, <3>1, <3>2, <4>1 DEF WorldAt, Onward, Refused
    <3>3. CASE q # o
      BY <1>1, <2>2, <3>1, <3>3 DEF WorldAt, Onward, Refused
    <3> QED
      BY <3>2, <3>3
  <2> QED
    BY <1>1, <2>5, RowsHeld, KeptWhenHeld, TruthKept DEF Followed
<1> QED
  BY <1>2, <1>3

\* The answer to a query describes the order as it is.
LEMMA AnswerKeeps ==
    ASSUME TypedInv, TypedInv', VenueInv, NEW p \in Proc, NEW s \in Slot,
           VenueAnswers(p, s)
    PROVE  VenueInv' /\ Followed
<1> USE ServiceFacts DEF TypedInv
<1> DEFINE o == call[p][s].op
           reply == IF venue[o].status = "NONE"
                    THEN [kind |-> "ABSENT", observation |-> None]
                    ELSE [kind |-> "OBSERVED", observation |-> Snapshot(o)]
<1>1. o \in Op /\ call[p][s] \in Call
  BY CallsAtWork DEF VenueAnswers, Awaits, At
<1>2. /\ call' = [call EXCEPT ![p][s].answer = reply]
      /\ ops' = ops /\ Still
  BY DEF VenueAnswers, Answer, Still, venueVars, historyVars
<1>3. call'[p][s].answer = reply /\ call'[p][s].op = o
  <2> HIDE DEF reply
  <2> QED
    BY <1>1, <1>2 DEF CallsOK, Call
<1>4. \A q \in Proc, t \in Slot : <<q, t>> # <<p, s>> => AnswerKept(q, t)
  <2> HIDE DEF reply
  <2> QED
    BY <1>2 DEF CallsOK, AnswerKept
<1>5. PICK x \in Op : x = o
  BY <1>1
<1>6. reply.kind = "OBSERVED" => Faithful(x, reply.observation)
  <2>1. venue[x].executed \in Nat /\ WorldAt(x)
    BY VenueNumbers DEF VenueInv
  <2> QED
    BY <1>5, <2>1 DEF Faithful, WorldAt, Snapshot, NoOrder, OpenStatus,
       ClosedStatus
<1>7. PICK a : a = reply
  OBVIOUS
<1>8. a.kind = "OBSERVED" => Faithful(x, a.observation)'
  BY <1>2, <1>6, <1>7 DEF Faithful, Still
<1>9. a.kind # "REJECTED"
  BY <1>7
<1>10. AnswerTrue(call[p][s])'
  <2> HIDE DEF reply, o
  <2> QED
    BY <1>3, <1>5, <1>7, <1>8, <1>9 DEF AnswerTrue
<1>11. \A q \in Op : RowBacked(q) /\ WorldAt(q)' /\ Onward(q)
  BY <1>2, RowsHeld, StillWorld
<1> QED
  BY <1>4, <1>10, <1>11, TruthKept DEF Followed

-----------------------------------------------------------------------------
(* The invariant and the properties. *)

\* Nothing has been sent, recorded or answered at the start.
LEMMA InitialTruth == Init => VenueInv
<1> SUFFICES ASSUME Init PROVE VenueInv
  OBVIOUS
<1>1. \A o \in Op : WorldAt(o)
  BY DEF Init, WorldAt
<1>2. \A o \in Op : ops[o] = NewRow /\ venue[o] = NoOrder
  BY DEF Init, JournalInit
<1>3. \A o \in Op : RowTrue(o)
  BY <1>2 DEF RowTrue, NewRow, NoOrder, HeardVerdict, SettledByOrder,
              SettledByRefusal
<1>4. \A p \in Proc, s \in Slot : AnswerTrue(call[p][s])
  BY DEF Init, AnswerTrue, IdleCall, NoReply
<1> QED
  BY <1>1, <1>3, <1>4 DEF VenueInv

\* Over an honest venue no step makes an answer or a row untrue, and every
\* row it writes is backed.
LEMMA TruthStep ==
    ASSUME Anomalies = {}
    PROVE  ServiceInv /\ DispatchInv /\ VenueInv /\ [Next]_vars
              => VenueInv' /\ Followed
<1> SUFFICES ASSUME ServiceInv, DispatchInv, VenueInv, [Next]_vars
             PROVE  VenueInv' /\ Followed
  OBVIOUS
<1>0. TypedInv /\ TypedInv'
  BY ServiceInvStep DEF ServiceInv
<1>1. CASE UNCHANGED vars
  <2>1. Backed
    BY <1>1, RowsHeld, KeptWhenHeld
    DEF vars, Backed, Still, venueVars, historyVars
  <2> QED
    BY <1>0, <2>1, BackedKeeps
<1>2. ASSUME NEW p \in Proc, NEW r \in Requests, RequestNext(p, r)
      PROVE  VenueInv' /\ Followed
  BY <1>0, <1>2, BackedRequest, BackedKeeps, PostKeeps DEF RequestNext
<1>3. ASSUME NEW p \in Proc, NEW s \in Slot, PassNext(p, s)
      PROVE  VenueInv' /\ Followed
  <2>1. ~VenueMisreports(p, s)
    BY DEF VenueMisreports
  <2> QED
    BY <1>0, <1>3, <2>1, BackedPass, BackedKeeps, AnswerKeeps DEF PassNext
<1>4. ASSUME NEW p \in Proc, WorkerNext(p) \/ ProcessNext(p)
      PROVE  VenueInv' /\ Followed
  BY <1>0, <1>4, BackedWorker, BackedProcess, BackedKeeps
<1>5. ASSUME NEW o \in Op,
             VenueNext(o) \/ IntentExpires(o) \/ WindowElapses(o)
      PROVE  VenueInv' /\ Followed
  BY <1>0, <1>5, BackedProcess, BackedKeeps, AcceptanceKeeps,
     RejectionKeeps, VenueGoesOnKeeps DEF VenueNext
<1> QED
  BY <1>1, <1>2, <1>3, <1>4, <1>5 DEF Next

\* Over an honest venue every answer in flight is worth what VenueInv says.
THEOREM AnswersStayTrue ==
    ASSUME Anomalies = {}
    PROVE  Spec => [](ServiceInv /\ DispatchInv /\ VenueInv)
<1>1. ServiceInv /\ DispatchInv /\ VenueInv /\ [Next]_vars => VenueInv'
  BY TruthStep
<1> QED
  BY <1>1, InitialTruth, InitialDispatch, DispatchStep, ServiceInvariant, PTL
  DEF Spec

\* The journal never claims an order or a fill the venue does not have,
\* however many processes write it and whatever is lost, late or repeated.
THEOREM NeverAhead ==
    ASSUME Anomalies = {}
    PROVE  Spec => []NeverAheadOfVenue
<1>1. VenueInv => NeverAheadOfVenue
  BY DEF VenueInv, RowTrue, NeverAheadOfVenue
<1>2. Spec => [](ServiceInv /\ DispatchInv /\ VenueInv)
  BY AnswersStayTrue
<1> QED
  BY <1>1, <1>2, PTL

\* An operation settled by an observation or a rejection is settled as the
\* venue settled it, and stays so for as long as the row says it.
THEOREM SettledAsTheVenue ==
    ASSUME Anomalies = {}
    PROVE  Spec => []SettledTruth
<1>1. VenueInv => SettledTruth
  BY DEF VenueInv, RowTrue, SettledTruth, Refused, NoOrder, ClosedStatus
<1>2. Spec => [](ServiceInv /\ DispatchInv /\ VenueInv)
  BY AnswersStayTrue
<1> QED
  BY <1>1, <1>2, PTL
-----------------------------------------------------------------------------
(***************************************************************************)
(* What several servers may rely on.  The restart of one server may move a *)
(* row another has settled back to UNKNOWN, so with several servers        *)
(* SettledIsFinal fails.  What still holds is that the row is never        *)
(* settled differently afterwards.                                         *)
(*                                                                         *)
(* The reason lies at the venue: an order that closed stays as it is, so   *)
(* the row, once it was true of a closed order, can only come to say the   *)
(* same again; and it keeps the order's id, without which absence could be *)
(* believed.                                                               *)
(***************************************************************************)

SharedInv == ServiceInv /\ DispatchInv /\ VenueInv

\* The venue has closed the order of o as w says, and the row still has the
\* order's id, whatever else it says by now.
Sealed(o, w) ==
    /\ venue[o].status \in ClosedStatus
    /\ w.state = StatusToState[venue[o].status]
    /\ w.executed = venue[o].executed
    /\ w.venueOrderId # None /\ w.venueOrderId = ops[o].venueOrderId
    /\ w.submits = 1

\* A row that was posted counts one dispatch.
LEMMA PostedCounts ==
    ASSUME SharedInv, NEW o \in Op, posts[o] = 1
    PROVE  ops[o].submits = 1
BY DEF SharedInv, ServiceInv, JournalInv, RowInv, DispatchInv, DispatchAt

\* A row that says the order was closed seals it.
LEMMA VerdictSeals ==
    ASSUME SharedInv, NEW o \in Op, SettledByOrder(ops[o])
    PROVE  Sealed(o, ops[o])
<1>1. RowTrue(o) /\ WorldAt(o) /\ ops[o].venueOrderId # None
  BY DEF SharedInv, VenueInv, SettledByOrder
<1>2. venue[o] # NoOrder
  BY <1>1 DEF RowTrue
<1>3. ops[o].submits = 1
  BY <1>1, <1>2, PostedCounts DEF WorldAt
<1> QED
  BY <1>1, <1>3 DEF RowTrue, Sealed

\* No step breaks the seal: the venue is done, and the id is kept.
LEMMA SealStays ==
    ASSUME VenueInv, Followed, NEW o \in Op, NEW w, Sealed(o, w)
    PROVE  Sealed(o, w)'
<1>1. venue'[o] = venue[o]
  BY DEF Followed, Onward, Sealed
<1>2. ops[o].venueOrderId = VenueIdOf[o]
  BY DEF VenueInv, RowTrue, Sealed
<1>3. ops'[o].venueOrderId = ops[o].venueOrderId
  BY <1>2 DEF Followed, RowBacked, Faithful
<1> QED
  BY <1>1, <1>3 DEF Sealed

\* A sealed row that is settled says what the seal says.
LEMMA SealDecides ==
    ASSUME SharedInv, NEW o \in Op, NEW w \in Row, Sealed(o, w),
           ops[o].state \in Terminal
    PROVE  ops[o] = w
<1>1. RowTrue(o) /\ WorldAt(o) /\ RowInv(ops[o]) /\ ops[o] \in Row
  BY DEF SharedInv, VenueInv, ServiceInv, JournalInv, JournalTypeOK
<1>2. venue[o] # NoOrder
  BY DEF Sealed, NoOrder, ClosedStatus
<1>3. ~SettledByRefusal(ops[o])
  BY <1>1, <1>2 DEF RowTrue, Refused
<1>4. ops[o].state # "NOT_FOUND_SAFE"
  BY <1>1 DEF RowInv, Sealed
<1>5. SettledByOrder(ops[o])
  BY <1>1, <1>3, <1>4 DEF RowTrue, Terminal, HeardVerdict
<1>6. ops[o].submits = 1
  BY <1>1, <1>2, PostedCounts DEF WorldAt
<1> QED
  BY <1>1, <1>5, <1>6 DEF RowTrue, Sealed, Row

\* Over an honest venue SharedInv holds for any number of servers.
LEMMA SharedInvariant ==
    ASSUME Anomalies = {}
    PROVE  Spec => []SharedInv
BY AnswersStayTrue DEF SharedInv

\* For any number of servers on one journal: an operation that was settled by
\* what the venue reported has, whenever it is settled, the very same row.
\* The UPDATE of a restart (resumeUnresolvedOperations) may reopen it, and
\* nothing that follows can settle it otherwise (decide, reconcileOnce).
THEOREM VerdictStands ==
    ASSUME Anomalies = {}, NEW o \in Op, NEW w \in Row,
           SettledByOrder(w)
    PROVE  Spec => [](ops[o] = w
                        => [](ops[o].state \in Terminal => ops[o] = w))
<1>1. SharedInv /\ ops[o] = w => Sealed(o, w)
  BY VerdictSeals
<1>2. SharedInv /\ Sealed(o, w) /\ [Next]_vars => Sealed(o, w)'
  BY TruthStep, SealStays DEF SharedInv
<1>3. SharedInv /\ Sealed(o, w) => (ops[o].state \in Terminal => ops[o] = w)
  BY SealDecides
<1>4. Spec => []SharedInv
  BY SharedInvariant
<1> QED
  BY <1>1, <1>2, <1>3, <1>4, PTL DEF Spec

\* The same of a refusal: an operation the venue was heard to refuse is never
\* afterwards settled as one that had an order (RECORD_REJECTION).
THEOREM RefusalStands ==
    ASSUME Anomalies = {}, NEW o \in Op
    PROVE  Spec => [](SettledByRefusal(ops[o])
                        => [](ops[o].state \in Terminal =>
                                \/ SettledByRefusal(ops[o])
                                \/ ops[o].state = "NOT_FOUND_SAFE"))
<1>1. SharedInv /\ SettledByRefusal(ops[o]) => Refused(o)
  BY DEF SharedInv, VenueInv, RowTrue
<1>2. SharedInv /\ Refused(o) /\ [Next]_vars => Refused(o)'
  BY TruthStep DEF SharedInv, Followed, Onward
<1>3. SharedInv /\ Refused(o)
         => (ops[o].state \in Terminal =>
               SettledByRefusal(ops[o]) \/ ops[o].state = "NOT_FOUND_SAFE")
  BY DEF SharedInv, VenueInv, RowTrue, Refused, NoOrder, ClosedStatus, Terminal,
     HeardVerdict
<1>4. Spec => []SharedInv
  BY SharedInvariant
<1> QED
  BY <1>1, <1>2, <1>3, <1>4, PTL DEF Spec
=============================================================================

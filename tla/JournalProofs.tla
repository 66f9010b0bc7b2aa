---------------------------- MODULE JournalProofs ----------------------------
(***************************************************************************)
(* What the journal guarantees for any number of operations, processes and *)
(* clients, for any venue ids and quantities: no assumption is made on who *)
(* sends which command when.                                               *)
(***************************************************************************)
EXTENDS Journal, TLAPS

-----------------------------------------------------------------------------
(* The decision function. *)

\* A venue status never maps to a state of the submission or query protocol.
LEMMA StatusToStateRange ==
    \A s \in VenueStatus :
        StatusToState[s] \in {"ACKNOWLEDGED", "PARTIALLY_FILLED", "FILLED",
                              "CANCELLED", "CANCEL_REQUESTED", "REJECTED",
                              "EXPIRED"}
BY DEF StatusToState, VenueStatus

\* The numbers in a row and in an observation are naturals.
LEMMA NaturalColumns ==
    /\ \A v \in Row : v.executed \in Nat /\ v.submits \in Nat
    /\ \A obs \in Observation : obs.executed \in Nat
<1>1. \A q \in Quantity : q \in Nat
  BY MachineAssumption DEF MachineAssumption
<1> QED
  BY <1>1 DEF Row, Observation

\* Commands carry well-formed arguments.
LEMMA CommandArguments ==
    ASSUME NEW c \in Command
    PROVE  /\ c.type \in {"RECORD_ACKNOWLEDGEMENT", "RECORD_ORDER_OBSERVATION"}
                => c.observation \in Observation
           /\ c.type = "RECORD_ORDER_ABSENT" => c.windowExhausted \in BOOLEAN
           /\ c.type \in {"CONFIRM_INTENT", "BEGIN_SUBMISSION",
                  "RECORD_AMBIGUOUS_SUBMISSION", "RECORD_REJECTION",
                  "BEGIN_RECONCILIATION", "RECORD_RECONCILIATION_UNAVAILABLE",
                  "RECORD_ACCOUNT_OBSERVATION", "REQUEST_CANCEL",
                  "ESCALATE_MANUAL_REVIEW", "RECORD_ACKNOWLEDGEMENT",
                  "RECORD_ORDER_OBSERVATION", "RECORD_ORDER_ABSENT"}
BY DEF Command

\* The inductive part of the row's history: what a row in each state may hold.
RowInv(v) ==
    /\ v.state # "DRAFT"
    /\ v.submits <= 1
    /\ v.state \in {"AWAITING_CONFIRMATION", "APPROVED"} => v.submits = 0
    /\ v.state \in {"AWAITING_CONFIRMATION", "APPROVED", "SUBMITTING",
                    "NOT_FOUND_SAFE"}
          => v.venueOrderId = None /\ v.executed = 0

\* What a command may do to a row.
RowStep(v, w) ==
    /\ w \in Row
    /\ RowInv(w)
    /\ v.venueOrderId # None => w.venueOrderId = v.venueOrderId
    /\ w.executed >= v.executed
    /\ w.submits >= v.submits

\* A handler that only moves the state keeps the row's columns.
LEMMA MoveStep ==
    ASSUME NEW v \in Row, RowInv(v), NEW from, NEW to \in OperationStates,
           NEW w \in Move(v, from, to),
           to \notin {"DRAFT", "AWAITING_CONFIRMATION", "APPROVED",
                      "SUBMITTING", "NOT_FOUND_SAFE"}
    PROVE  RowStep(v, w)
BY NaturalColumns, MachineAssumption DEF MachineAssumption, Move, Accept, Row, RowInv, RowStep

\* A row that takes over an observation keeps its invariant when the id is
\* its own or its first and the quantity has not shrunk.
LEMMA ObservedStep ==
    ASSUME NEW v \in Row, RowInv(v), NEW obs \in Observation,
           v.venueOrderId # None => v.venueOrderId = obs.venueOrderId,
           v.executed <= obs.executed
    PROVE  RowStep(v, Observed(v, obs))
<1>1. StatusToState[obs.status] \in
        OperationStates \ {"DRAFT", "AWAITING_CONFIRMATION", "APPROVED",
                           "SUBMITTING", "NOT_FOUND_SAFE"}
  BY StatusToStateRange DEF Observation, OperationStates
<1>2. Observed(v, obs) \in Row
  BY <1>1 DEF Observed, Row, Observation
<1>3. v.submits \in Nat /\ v.executed \in Nat /\ obs.executed \in Nat
  BY NaturalColumns
<1> DEFINE w == Observed(v, obs)
<1>4. /\ w.state = StatusToState[obs.status]
      /\ w.venueOrderId = obs.venueOrderId
      /\ w.executed = obs.executed /\ w.submits = v.submits
  BY DEF Observed, Row
<1>5. RowInv(w)
  BY <1>1, <1>4 DEF RowInv
<1>6. w.executed >= v.executed /\ w.submits >= v.submits
  BY <1>3, <1>4
<1> QED
  BY <1>2, <1>4, <1>5, <1>6 DEF RowStep

\* A row that is left alone.
LEMMA StutterStep ==
    ASSUME NEW v \in Row, RowInv(v)
    PROVE  RowStep(v, v)
BY NaturalColumns DEF RowInv, RowStep

\* Every command keeps the row invariant, never rebinds a venue order and
\* never takes a fill back.
LEMMA DecideStep ==
    ASSUME NEW v \in Row, RowInv(v), NEW c \in Command, NEW w \in Decide(v, c)
    PROVE  RowStep(v, w)
<1> USE NaturalColumns, MachineAssumption DEF MachineAssumption
<1>1. CASE v.state \in Terminal
  <2>1. w = v
    BY <1>1 DEF Decide, DecideSettled, ReobserveTerminal, Accept
  <2> QED
    BY <2>1, StutterStep
<1>2. CASE v.state \notin Terminal
  <2>0. w \in DecideOpen(v, c)
    BY <1>2 DEF Decide
  <2>1. CASE c.type = "CONFIRM_INTENT"
    <3>1. w \in ConfirmIntent(v)
      BY <2>0, <2>1 DEF DecideOpen
    <3> QED
      BY <3>1 DEF ConfirmIntent, Move, Accept, Row, RowInv, RowStep,
                  OperationStates
  <2>2. CASE c.type = "BEGIN_SUBMISSION"
    <3>1. w \in BeginSubmission(v)
      BY <2>0, <2>2 DEF DecideOpen
    <3>2. v.state = "APPROVED" /\ v.submits = 0
      BY <3>1 DEF BeginSubmission, Accept, RowInv
    <3>3. w = [v EXCEPT !.state = "SUBMITTING", !.submits = v.submits + 1]
      BY <3>1 DEF BeginSubmission, Accept
    <3>4. w.submits = 1 /\ w.executed = v.executed /\ w.state = "SUBMITTING"
            /\ w.venueOrderId = v.venueOrderId
      BY <3>2, <3>3 DEF Row
    <3>5. w = [state |-> "SUBMITTING", venueOrderId |-> v.venueOrderId,
               executed |-> v.executed, submits |-> v.submits + 1]
      BY <3>3 DEF Row
    <3>6. w \in Row
      BY <3>2, <3>5 DEF Row, OperationStates
    <3> QED
      BY <3>2, <3>4, <3>6 DEF RowInv, RowStep
  <2>3. CASE c.type = "RECORD_ACKNOWLEDGEMENT"
    <3>1. w \in RecordAcknowledgement(v, c.observation)
      BY <2>0, <2>3 DEF DecideOpen
    <3>2. c.observation \in Observation
      BY <2>3, CommandArguments
    <3>3. v.state = "SUBMITTING" /\ w = Observed(v, c.observation)
      BY <3>1 DEF RecordAcknowledgement, Accept
    <3>4. v.executed <= c.observation.executed /\ v.venueOrderId = None
      BY <3>2, <3>3 DEF RowInv, Observation
    <3> QED
      BY <3>2, <3>3, <3>4, ObservedStep
  <2>4. CASE c.type = "RECORD_AMBIGUOUS_SUBMISSION"
    <3>1. w \in Move(v, {"SUBMITTING"}, "UNKNOWN")
      BY <2>0, <2>4 DEF DecideOpen, RecordAmbiguous
    <3> QED
      BY <3>1, MoveStep DEF OperationStates
  <2>5. CASE c.type = "RECORD_REJECTION"
    <3>1. w \in Move(v, {"SUBMITTING"}, "REJECTED")
      BY <2>0, <2>5 DEF DecideOpen, RecordRejection
    <3> QED
      BY <3>1, MoveStep DEF OperationStates
  <2>6. CASE c.type = "BEGIN_RECONCILIATION"
    <3>1. w \in Move(v, {"UNKNOWN", "ACKNOWLEDGED", "PARTIALLY_FILLED",
                         "CANCEL_REQUESTED", "MANUAL_REVIEW"}, "RECONCILING")
      BY <2>0, <2>6 DEF DecideOpen, BeginReconciliation
    <3> QED
      BY <3>1, MoveStep DEF OperationStates
  <2>7. CASE c.type = "RECORD_ORDER_OBSERVATION"
    <3>1. w \in RecordOrderObservation(v, c.observation)
      BY <2>0, <2>7 DEF DecideOpen
    <3>2. c.observation \in Observation
      BY <2>7, CommandArguments
    <3>3. CASE DetectContradiction(v, c.observation)
      <4>1. w = [v EXCEPT !.state = "MANUAL_REVIEW"]
        BY <3>1, <3>3 DEF RecordOrderObservation
      <4> QED
        BY <4>1 DEF Row, RowInv, RowStep, OperationStates
    <3>4. CASE ~DetectContradiction(v, c.observation)
      <4>1. w = Observed(v, c.observation)
        BY <3>1, <3>4 DEF RecordOrderObservation
      <4>2. /\ v.venueOrderId # None
                  => v.venueOrderId = c.observation.venueOrderId
            /\ v.executed <= c.observation.executed
        BY <3>2, <3>4 DEF DetectContradiction, Row, Observation
      <4> QED
        BY <3>2, <4>1, <4>2, ObservedStep
    <3> QED
      BY <3>3, <3>4
  <2>8. CASE c.type = "RECORD_ORDER_ABSENT"
    <3>1. w \in RecordOrderAbsent(v, c.windowExhausted)
      BY <2>0, <2>8 DEF DecideOpen
    <3>2. \/ w = [v EXCEPT !.state = "MANUAL_REVIEW"]
          \/ w = [v EXCEPT !.state = "UNKNOWN"]
          \/ /\ w = [v EXCEPT !.state = "NOT_FOUND_SAFE"]
             /\ v.venueOrderId = None /\ v.executed = 0
      BY <3>1 DEF RecordOrderAbsent
    <3> QED
      BY <3>2 DEF Row, RowInv, RowStep, OperationStates
  <2>9. CASE c.type = "RECORD_RECONCILIATION_UNAVAILABLE"
    <3>1. w \in Move(v, {"RECONCILING"}, "UNKNOWN")
      BY <2>0, <2>9 DEF DecideOpen, ReconciliationUnavailable
    <3> QED
      BY <3>1, MoveStep DEF OperationStates
  <2>10. CASE c.type = "RECORD_ACCOUNT_OBSERVATION"
    <3>1. w = v
      BY <2>0, <2>10 DEF DecideOpen
    <3> QED
      BY <3>1, StutterStep
  <2>11. CASE c.type = "REQUEST_CANCEL"
    <3>1. w \in Move(v, {"ACKNOWLEDGED", "PARTIALLY_FILLED"},
                     "CANCEL_REQUESTED")
      BY <2>0, <2>11 DEF DecideOpen, RequestCancel
    <3> QED
      BY <3>1, MoveStep DEF OperationStates
  <2>12. CASE c.type = "ESCALATE_MANUAL_REVIEW"
    <3>1. w = [v EXCEPT !.state = "MANUAL_REVIEW"]
      BY <2>0, <2>12 DEF DecideOpen, Escalate
    <3> QED
      BY <3>1 DEF Row, RowInv, RowStep, OperationStates
  <2> QED
    BY CommandArguments, <2>1, <2>2, <2>3, <2>4, <2>5, <2>6, <2>7, <2>8, <2>9,
       <2>10, <2>11, <2>12
<1> QED
  BY <1>1, <1>2

-----------------------------------------------------------------------------
(* The restart's UPDATE, the only write that does not go through decide. *)

\* Demotion keeps every column but the state, so the row keeps its invariant.
LEMMA DemotedStep ==
    ASSUME NEW v \in Row, RowInv(v)
    PROVE  RowStep(v, Demoted(v))
BY NaturalColumns DEF Demoted, Row, RowInv, RowStep, OperationStates

-----------------------------------------------------------------------------
(* The inductive invariant: well-formed tables, and every row with a       *)
(* history its state allows.                                               *)

JournalInv ==
    /\ JournalTypeOK
    /\ \A o \in Op : RowInv(ops[o])

\* The invariant holds of an empty journal.
LEMMA InitialJournal == JournalInit => JournalInv
<1> SUFFICES ASSUME JournalInit PROVE JournalInv
  OBVIOUS
<1> USE MachineAssumption DEF MachineAssumption
<1>1. NewRow \in Row /\ RowInv(NewRow)
  BY DEF NewRow, Row, RowInv, OperationStates
<1>2. ops \in [Op -> Row] /\ \A o \in Op : ops[o] = NewRow
  BY <1>1 DEF JournalInit
<1>3. jobs \in [Op -> Job]
  BY JournalAssumption DEF JournalAssumption, JournalInit, NoJob, Job,
                           JobStatus
<1>4. resuming \in [Proc -> [Op -> ResumeStep]]
  BY DEF JournalInit, NotResuming, ResumeStep
<1> QED
  BY <1>1, <1>2, <1>3, <1>4 DEF JournalInv, JournalTypeOK

\* What one step does to every row: nothing, or a RowStep of one of them.
OpsStep ==
    \/ UNCHANGED ops
    \/ \E o \in Op : \E w \in Row :
          /\ RowStep(ops[o], w)
          /\ ops' = [ops EXCEPT ![o] = w]

\* A command is one RowStep of one row.
LEMMA ApplyCommandOpsStep ==
    ASSUME JournalInv, NEW o \in Op, NEW c \in Command, ApplyCommand(o, c)
    PROVE  OpsStep
<1>1. PICK w \in Applied(o, c) : ops' = [ops EXCEPT ![o] = w]
  BY DEF ApplyCommand
<1>2. ops[o] \in Row /\ RowInv(ops[o])
  BY DEF JournalInv, JournalTypeOK
<1>3. w \in Decide(ops[o], c)
  BY DEF Applied
<1>4. RowStep(ops[o], w)
  BY <1>2, <1>3, DecideStep
<1> QED
  BY <1>1, <1>4 DEF OpsStep, RowStep

\* So is a demotion.
LEMMA ResumeDemoteOpsStep ==
    ASSUME JournalInv, NEW p \in Proc, NEW o \in Op, ResumeDemote(p, o)
    PROVE  OpsStep
<1>1. ops' = [ops EXCEPT ![o] = Demoted(ops[o])]
  BY DEF ResumeDemote
<1>2. ops[o] \in Row /\ RowInv(ops[o])
  BY DEF JournalInv, JournalTypeOK
<1>3. RowStep(ops[o], Demoted(ops[o]))
  BY <1>2, DemotedStep
<1> QED
  BY <1>1, <1>3 DEF OpsStep, RowStep

\* Every step of the journal leaves the operations alone or makes one OpsStep.
LEMMA JournalOpsStep ==
    ASSUME JournalInv, [JournalNext]_journalVars
    PROVE  OpsStep
<1>1. CASE UNCHANGED journalVars
  BY <1>1 DEF journalVars, OpsStep
<1>2. ASSUME NEW o \in Op, NEW c \in Command, ApplyCommand(o, c)
      PROVE  OpsStep
  BY <1>2, ApplyCommandOpsStep
<1>3. ASSUME NEW p \in Proc, NEW o \in Op, ResumeDemote(p, o)
      PROVE  OpsStep
  BY <1>3, ResumeDemoteOpsStep
<1>4. ASSUME NEW o \in Op,
             \/ EnqueueReconciliation(o) \/ ClaimDueReconciliation(o)
             \/ \E outcome \in {"PENDING", "SETTLED", "GAVE_UP"} :
                  ReleaseReconciliation(o, outcome)
      PROVE  OpsStep
  BY <1>4 DEF EnqueueReconciliation, ClaimDueReconciliation,
              ReleaseReconciliation, OpsStep
<1>5. ASSUME NEW p \in Proc,
             \/ ResumeScan(p) \/ Disconnect(p)
             \/ \E o \in Op : ResumeEnqueue(p, o)
      PROVE  OpsStep
  BY <1>5 DEF ResumeScan, Disconnect, ResumeEnqueue, OpsStep
<1> QED
  BY <1>1, <1>2, <1>3, <1>4, <1>5 DEF JournalNext

\* A RowStep of one row keeps every row well formed.
LEMMA OpsStepKeepsRows ==
    ASSUME JournalInv, OpsStep
    PROVE  ops' \in [Op -> Row] /\ \A o \in Op : RowInv(ops'[o])
<1>1. ops \in [Op -> Row] /\ \A o \in Op : RowInv(ops[o])
  BY DEF JournalInv, JournalTypeOK
<1> QED
  BY <1>1 DEF OpsStep, RowStep

-----------------------------------------------------------------------------
(* The queue and the resume loop keep their types. *)

\* Jobs keep their type, the saturated attempt counter included.
LEMMA JobsStep ==
    ASSUME JournalInv, [JournalNext]_journalVars
    PROVE  jobs' \in [Op -> Job]
<1> USE JournalAssumption DEF JournalAssumption
<1>0. jobs \in [Op -> Job]
  BY DEF JournalInv, JournalTypeOK
<1>1. ASSUME NEW j \in Job PROVE EnqueuedJob(j) \in Job
  BY DEF EnqueuedJob, Job, JobStatus
<1>2. ASSUME NEW j \in Job, NEW outcome \in {"PENDING", "SETTLED", "GAVE_UP"}
      PROVE  ReleasedJob(j, outcome) \in Job
  BY <1>2 DEF ReleasedJob, Job, JobStatus
<1>3. ASSUME NEW j \in Job
      PROVE  [status |-> "RUNNING",
              attempts |-> AtMost(j.attempts + 1, MinAttempts)] \in Job
  <2>1. j.attempts \in 0 .. MinAttempts
    BY DEF Job
  <2>2. AtMost(j.attempts + 1, MinAttempts) \in 0 .. MinAttempts
    BY <2>1 DEF AtMost
  <2> QED
    BY <2>2 DEF Job, JobStatus
<1>4. ASSUME NEW o \in Op, EnqueueReconciliation(o) PROVE jobs' \in [Op -> Job]
  BY <1>0, <1>1, <1>4 DEF EnqueueReconciliation
<1>5. ASSUME NEW o \in Op, ClaimDueReconciliation(o)
      PROVE  jobs' \in [Op -> Job]
  BY <1>0, <1>3, <1>5 DEF ClaimDueReconciliation
<1>6. ASSUME NEW o \in Op, NEW outcome \in {"PENDING", "SETTLED", "GAVE_UP"},
             ReleaseReconciliation(o, outcome)
      PROVE  jobs' \in [Op -> Job]
  BY <1>0, <1>2, <1>6 DEF ReleaseReconciliation
<1>7. ASSUME NEW p \in Proc, NEW o \in Op, ResumeEnqueue(p, o)
      PROVE  jobs' \in [Op -> Job]
  BY <1>0, <1>1, <1>7 DEF ResumeEnqueue
<1>8. ASSUME NEW o \in Op, NEW c \in Command, ApplyCommand(o, c)
      PROVE  jobs' \in [Op -> Job]
  BY <1>0, <1>8 DEF ApplyCommand
<1>9. ASSUME NEW p \in Proc,
             ResumeScan(p) \/ Disconnect(p) \/ \E o \in Op : ResumeDemote(p, o)
      PROVE  jobs' \in [Op -> Job]
  BY <1>0, <1>9 DEF ResumeScan, Disconnect, ResumeDemote
<1>10. CASE UNCHANGED journalVars
  BY <1>0, <1>10 DEF journalVars
<1> QED
  BY <1>4, <1>5, <1>6, <1>7, <1>8, <1>9, <1>10 DEF JournalNext

\* Resume loops keep their type.
LEMMA ResumingStep ==
    ASSUME JournalInv, [JournalNext]_journalVars
    PROVE  resuming' \in [Proc -> [Op -> ResumeStep]]
<1>0. resuming \in [Proc -> [Op -> ResumeStep]]
  BY DEF JournalInv, JournalTypeOK
<1>1. ASSUME NEW p \in Proc, ResumeScan(p)
      PROVE  resuming' \in [Proc -> [Op -> ResumeStep]]
  <2>1. [o \in Op |-> ResumeFrom(ops[o].state)] \in [Op -> ResumeStep]
    BY DEF ResumeFrom, ResumeStep
  <2> QED
    BY <1>0, <1>1, <2>1 DEF ResumeScan
<1>2. ASSUME NEW p \in Proc, NEW o \in Op,
             ResumeDemote(p, o) \/ ResumeEnqueue(p, o)
      PROVE  resuming' \in [Proc -> [Op -> ResumeStep]]
  BY <1>0, <1>2 DEF ResumeDemote, ResumeEnqueue, ResumeStep
<1>3. ASSUME NEW p \in Proc, Disconnect(p)
      PROVE  resuming' \in [Proc -> [Op -> ResumeStep]]
  BY <1>0, <1>3 DEF Disconnect, NotResuming, ResumeStep
<1>4. ASSUME NEW o \in Op,
             \/ EnqueueReconciliation(o) \/ ClaimDueReconciliation(o)
             \/ \E outcome \in {"PENDING", "SETTLED", "GAVE_UP"} :
                  ReleaseReconciliation(o, outcome)
             \/ \E c \in Command : ApplyCommand(o, c)
      PROVE  resuming' \in [Proc -> [Op -> ResumeStep]]
  BY <1>0, <1>4 DEF EnqueueReconciliation, ClaimDueReconciliation,
                    ReleaseReconciliation, ApplyCommand
<1>5. CASE UNCHANGED journalVars
  BY <1>0, <1>5 DEF journalVars
<1> QED
  BY <1>1, <1>2, <1>3, <1>4, <1>5 DEF JournalNext

\* Every step of the journal keeps the invariant.
LEMMA InvariantStep == JournalInv /\ [JournalNext]_journalVars => JournalInv'
<1> SUFFICES ASSUME JournalInv, [JournalNext]_journalVars PROVE JournalInv'
  OBVIOUS
<1> QED
  BY JournalOpsStep, OpsStepKeepsRows, JobsStep, ResumingStep
  DEF JournalInv, JournalTypeOK

\* The journal never leaves its inductive invariant.
THEOREM JournalInvariant == JournalSpec => []JournalInv
BY InitialJournal, InvariantStep, PTL DEF JournalSpec

-----------------------------------------------------------------------------
(* The properties. *)

\* Rows, jobs and resume loops stay well formed under any client.
THEOREM JournalTypeCorrect == JournalSpec => []JournalTypeOK
<1>1. JournalInv => JournalTypeOK
  BY DEF JournalInv
<1> QED
  BY <1>1, JournalInvariant, PTL

\* No client can have an operation authorised for dispatch twice.
THEOREM SubmittedOnce == JournalSpec => []SingleSubmission
<1>1. JournalInv => SingleSubmission
  BY DEF JournalInv, RowInv, SingleSubmission
<1> QED
  BY <1>1, JournalInvariant, PTL

\* No client can have an operation with a venue order or a fill settled as
\* absent.
THEOREM AbsenceWithoutTrace == JournalSpec => []AbsenceCarriesNoTrace
<1>1. JournalInv => AbsenceCarriesNoTrace
  BY DEF JournalInv, RowInv, AbsenceCarriesNoTrace
<1> QED
  BY <1>1, JournalInvariant, PTL

\* The console's table, the refusal table and decide agree on every reachable
\* row.
THEOREM ConsoleAgrees == JournalSpec => []OfferedActionsAccepted
<1>1. JournalInv => OfferedActionsAccepted
  <2> SUFFICES ASSUME JournalInv, NEW o \in Op
               PROVE
        LET offered == AllowedActions(ops[o].state)
            accepted(t) == Decide(ops[o], [type |-> t]) # {}
        IN /\ "CONFIRM" \in offered <=> accepted("CONFIRM_INTENT")
           /\ "EXECUTE" \in offered <=> accepted("BEGIN_SUBMISSION")
           /\ "RECONCILE" \in offered <=> accepted("BEGIN_RECONCILIATION")
           /\ "REQUEST_CANCEL" \in offered <=> accepted("REQUEST_CANCEL")
           /\ "ESCALATE" \in offered => accepted("ESCALATE_MANUAL_REVIEW")
           /\ ops[o].state \in MayHaveEconomicEffect =>
                /\ ops[o].state \in RetryBlocked
                /\ ~accepted("BEGIN_SUBMISSION")
    BY DEF OfferedActionsAccepted
  <2>1. ops[o].state \in OperationStates \ {"DRAFT"}
    BY DEF JournalInv, JournalTypeOK, RowInv, Row
  <2>2. Decide(ops[o], [type |-> "CONFIRM_INTENT"]) # {}
          <=> ops[o].state = "AWAITING_CONFIRMATION"
    BY <2>1 DEF Decide, DecideSettled, DecideOpen, ConfirmIntent, Move, Accept,
                Terminal
  <2>3. Decide(ops[o], [type |-> "BEGIN_SUBMISSION"]) # {}
          <=> ops[o].state = "APPROVED"
    BY <2>1 DEF Decide, DecideSettled, DecideOpen, BeginSubmission, Accept,
                Terminal
  <2>4. Decide(ops[o], [type |-> "BEGIN_RECONCILIATION"]) # {}
          <=> ops[o].state \in {"UNKNOWN", "ACKNOWLEDGED", "PARTIALLY_FILLED",
                                "CANCEL_REQUESTED", "MANUAL_REVIEW"}
    BY <2>1 DEF Decide, DecideSettled, DecideOpen, BeginReconciliation, Move,
                Accept, Terminal
  <2>5. Decide(ops[o], [type |-> "REQUEST_CANCEL"]) # {}
          <=> ops[o].state \in {"ACKNOWLEDGED", "PARTIALLY_FILLED"}
    BY <2>1 DEF Decide, DecideSettled, DecideOpen, RequestCancel, Move, Accept,
                Terminal
  <2>6. Decide(ops[o], [type |-> "ESCALATE_MANUAL_REVIEW"]) # {}
          <=> ops[o].state \notin Terminal
    BY <2>1 DEF Decide, DecideSettled, DecideOpen, Escalate
  <2> QED
    BY <2>1, <2>2, <2>3, <2>4, <2>5, <2>6
    DEF AllowedActions, MayHaveEconomicEffect, RetryBlocked, Terminal
<1> QED
  BY <1>1, JournalInvariant, PTL

\* No client, and no restart, can unbind or rebind a venue order or take a
\* recorded fill back.
THEOREM EvidenceKept == JournalSpec => EvidenceNeverShrinks
<1>1. ASSUME JournalInv, [JournalNext]_journalVars
      PROVE  [\A o \in Op :
                /\ ops[o].venueOrderId # None
                      => ops'[o].venueOrderId = ops[o].venueOrderId
                /\ ops'[o].executed >= ops[o].executed]_journalVars
  <2>1. OpsStep
    BY <1>1, JournalOpsStep
  <2>2. ops \in [Op -> Row] /\ \A o \in Op : RowInv(ops[o])
    BY <1>1 DEF JournalInv, JournalTypeOK
  <2>3. \A o \in Op : RowStep(ops[o], ops'[o])
    BY <2>1, <2>2, StutterStep DEF OpsStep
  <2> QED
    BY <2>3 DEF RowStep
<1> QED
  BY <1>1, JournalInvariant, PTL DEF JournalSpec, EvidenceNeverShrinks

\* A command leaves a settled row as it is.
LEMMA DecideKeepsSettled ==
    ASSUME NEW v, v.state \in Terminal, NEW c, NEW w \in Decide(v, c)
    PROVE  w = v
BY DEF Decide, DecideSettled, ReobserveTerminal, Accept

\* Under any client the resume loop of a starting process is the only thing
\* that can move a settled operation.
THEOREM SettledMovesOnlyAtResume == JournalSpec => SettledUnlessResumed
<1>1. ASSUME JournalInv, [JournalNext]_journalVars
      PROVE  [\A o \in Op :
                ops[o].state \in Terminal /\ ops'[o] # ops[o]
                    => \E p \in Proc :
                         /\ resuming[p][o] = "demote"
                         /\ resuming'[p][o] = "demoted"]_journalVars
  <2> SUFFICES ASSUME NEW o \in Op, ops[o].state \in Terminal,
                      ops'[o] # ops[o]
               PROVE  \E p \in Proc : /\ resuming[p][o] = "demote"
                                      /\ resuming'[p][o] = "demoted"
    OBVIOUS
  <2>0. ops \in [Op -> Row] /\ resuming \in [Proc -> [Op -> ResumeStep]]
    BY <1>1 DEF JournalInv, JournalTypeOK
  <2>1. ASSUME NEW q \in Op, NEW c \in Command, ApplyCommand(q, c)
        PROVE  FALSE
    <3>1. PICK w \in Decide(ops[q], c) : ops' = [ops EXCEPT ![q] = w]
      BY <2>1 DEF ApplyCommand, Applied
    <3>2. q = o
      BY <2>0, <3>1
    <3>3. w = ops[o]
      BY <3>1, <3>2, DecideKeepsSettled
    <3> QED
      BY <2>0, <3>1, <3>2, <3>3
  <2>2. ASSUME NEW p \in Proc, NEW q \in Op, ResumeDemote(p, q)
        PROVE  /\ resuming[p][o] = "demote"
               /\ resuming'[p][o] = "demoted"
    <3>1. q = o
      BY <2>0, <2>2 DEF ResumeDemote
    <3> QED
      BY <2>0, <2>2, <3>1 DEF ResumeDemote
  <2>3. ASSUME UNCHANGED ops PROVE FALSE
    BY <2>3
  <2>4. CASE UNCHANGED journalVars
    BY <2>3, <2>4 DEF journalVars
  <2>5. ASSUME NEW q \in Op,
               \/ EnqueueReconciliation(q) \/ ClaimDueReconciliation(q)
               \/ \E outcome \in {"PENDING", "SETTLED", "GAVE_UP"} :
                    ReleaseReconciliation(q, outcome)
        PROVE  FALSE
    BY <2>3, <2>5 DEF EnqueueReconciliation, ClaimDueReconciliation,
                      ReleaseReconciliation
  <2>6. ASSUME NEW p \in Proc,
               \/ ResumeScan(p) \/ Disconnect(p)
               \/ \E q \in Op : ResumeEnqueue(p, q)
        PROVE  FALSE
    BY <2>3, <2>6 DEF ResumeScan, Disconnect, ResumeEnqueue
  <2> QED
    BY <1>1, <2>1, <2>2, <2>4, <2>5, <2>6 DEF JournalNext
<1> QED
  BY <1>1, JournalInvariant, PTL DEF JournalSpec, SettledUnlessResumed
=============================================================================

---------------------------- MODULE OrderMachine ----------------------------
(***************************************************************************)
(* The decision function of packages/domain: given the stored row of an    *)
(* operation and a command, which row follows, or none at all when the     *)
(* code throws a DomainError.  The module is pure: it declares no variable *)
(* and Journal.tla runs it inside its write transactions.                  *)
(*                                                                         *)
(* A row keeps the columns the decisions read.  Quantities are naturals    *)
(* (the code compares exact decimals), venue order ids are opaque values,  *)
(* and the error codes, evidence facts and timestamps are left out.        *)
(***************************************************************************)
EXTENDS Naturals

CONSTANTS
    VenueId,    \* the order ids the venue may hand out
    Quantity,   \* the executed quantities that occur
    None        \* SQL NULL

ASSUME MachineAssumption == /\ None \notin VenueId
                            /\ Quantity \subseteq Nat
                            /\ 0 \in Quantity

-----------------------------------------------------------------------------
(* Vocabulary. *)

OperationStates ==
    {"DRAFT", "AWAITING_CONFIRMATION", "APPROVED", "SUBMITTING",
     "ACKNOWLEDGED", "PARTIALLY_FILLED", "FILLED", "UNKNOWN", "RECONCILING",
     "NOT_FOUND_SAFE", "MANUAL_REVIEW", "REJECTED", "CANCEL_REQUESTED",
     "CANCELLED", "EXPIRED"}

Terminal == {"FILLED", "CANCELLED", "REJECTED", "EXPIRED", "NOT_FOUND_SAFE"}

MayHaveEconomicEffect ==
    {"SUBMITTING", "ACKNOWLEDGED", "PARTIALLY_FILLED", "FILLED", "UNKNOWN",
     "RECONCILING", "CANCEL_REQUESTED", "MANUAL_REVIEW"}

VenueStatus == {"NEW", "PARTIALLY_FILLED", "FILLED", "CANCELED",
                "PENDING_CANCEL", "REJECTED", "EXPIRED", "EXPIRED_IN_MATCH"}

\* The venue's spelling taken over where the lifecycle has its own.
StatusToStateMisspelt ==
    [s \in VenueStatus |->
        CASE s = "NEW" -> "ACKNOWLEDGED"
          [] s = "PENDING_CANCEL" -> "CANCEL_REQUESTED"
          [] s = "EXPIRED_IN_MATCH" -> "EXPIRED"
          [] OTHER -> s]

StatusToState ==
    [s \in VenueStatus |->
        CASE s = "NEW" -> "ACKNOWLEDGED"
          [] s = "CANCELED" -> "CANCELLED"
          [] s = "PENDING_CANCEL" -> "CANCEL_REQUESTED"
          [] s = "EXPIRED_IN_MATCH" -> "EXPIRED"
          [] OTHER -> s]

Row == [state : OperationStates, venueOrderId : VenueId \cup {None},
        executed : Quantity, submits : Nat]

Observation == [venueOrderId : VenueId, status : VenueStatus,
                executed : Quantity]

Command ==
         [type : {"CONFIRM_INTENT", "BEGIN_SUBMISSION",
                  "RECORD_AMBIGUOUS_SUBMISSION", "RECORD_REJECTION",
                  "BEGIN_RECONCILIATION", "RECORD_RECONCILIATION_UNAVAILABLE",
                  "RECORD_ACCOUNT_OBSERVATION", "REQUEST_CANCEL",
                  "ESCALATE_MANUAL_REVIEW"}]
    \cup [type : {"RECORD_ACKNOWLEDGEMENT", "RECORD_ORDER_OBSERVATION"},
          observation : Observation]
    \cup [type : {"RECORD_ORDER_ABSENT"}, windowExhausted : BOOLEAN]

\* The row a new operation is inserted with.
NewRow == [state |-> "AWAITING_CONFIRMATION", venueOrderId |-> None,
           executed |-> 0, submits |-> 0]

-----------------------------------------------------------------------------
(* The handlers.  Each returns the set of rows that may follow: one row    *)
(* when the command is accepted, none when the handler throws.             *)

Accept(accepted, row) == IF accepted THEN {row} ELSE {}

Move(v, from, to) == Accept(v.state \in from, [v EXCEPT !.state = to])

ConfirmIntent(v) == Move(v, {"AWAITING_CONFIRMATION"}, "APPROVED")

\* A retry that is refused only once the order is settled.
BeginSubmissionAgain(v) ==
    Accept(v.state \in {"APPROVED", "UNKNOWN"},
           [v EXCEPT !.state = "SUBMITTING", !.submits = @ + 1])

BeginSubmission(v) ==
    Accept(v.state = "APPROVED",
           [v EXCEPT !.state = "SUBMITTING", !.submits = @ + 1])

\* Cumulative quantities added up.
ObservedAddingUp(v, obs) == [v EXCEPT !.state = StatusToState[obs.status],
                                      !.venueOrderId = obs.venueOrderId,
                                      !.executed = @ + obs.executed]

Observed(v, obs) == [v EXCEPT !.state = StatusToState[obs.status],
                              !.venueOrderId = obs.venueOrderId,
                              !.executed = obs.executed]

RecordAcknowledgement(v, obs) ==
    Accept(v.state = "SUBMITTING", Observed(v, obs))

\* A lost response taken for a refusal.
RecordAmbiguousAsRejection(v) == Move(v, {"SUBMITTING"}, "REJECTED")

RecordAmbiguous(v) == Move(v, {"SUBMITTING"}, "UNKNOWN")

RecordRejection(v) == Move(v, {"SUBMITTING"}, "REJECTED")

\* A second pass may start while one is in progress.
BeginReconciliationTwice(v) ==
    Move(v, {"UNKNOWN", "ACKNOWLEDGED", "PARTIALLY_FILLED",
             "CANCEL_REQUESTED", "MANUAL_REVIEW", "RECONCILING"},
         "RECONCILING")

\* The list of states a query may start from, one entry short.
BeginReconciliationOpenOnly(v) ==
    Move(v, {"UNKNOWN", "ACKNOWLEDGED", "PARTIALLY_FILLED",
             "CANCEL_REQUESTED"}, "RECONCILING")

BeginReconciliation(v) ==
    Move(v, {"UNKNOWN", "ACKNOWLEDGED", "PARTIALLY_FILLED",
             "CANCEL_REQUESTED", "MANUAL_REVIEW"}, "RECONCILING")

ReconciliationUnavailable(v) == Move(v, {"RECONCILING"}, "UNKNOWN")

\* Fills compared the wrong way at the boundary.
ContradictsEqualFill(v, obs) ==
    \/ v.venueOrderId # None /\ v.venueOrderId # obs.venueOrderId
    \/ v.executed >= obs.executed
    \/ v.state = "PARTIALLY_FILLED" /\ obs.status = "NEW"

\* Only the id is compared.
ContradictsById(v, obs) ==
    v.venueOrderId # None /\ v.venueOrderId # obs.venueOrderId

DetectContradiction(v, obs) ==
    \/ v.venueOrderId # None /\ v.venueOrderId # obs.venueOrderId
    \/ v.executed > obs.executed
    \/ v.state = "PARTIALLY_FILLED" /\ obs.status = "NEW"

RecordOrderObservation(v, obs) ==
    {IF DetectContradiction(v, obs)
     THEN [v EXCEPT !.state = "MANUAL_REVIEW"]
     ELSE Observed(v, obs)}

ReobserveTerminal(v, obs) ==
    Accept(StatusToState[obs.status] = v.state /\ v.executed = obs.executed, v)

\* An exhausted window settles absence whatever was seen before.
RecordOrderAbsentIgnoringTraces(v, windowExhausted) ==
    {[v EXCEPT !.state = IF windowExhausted THEN "NOT_FOUND_SAFE"
                                            ELSE "UNKNOWN"]}

RecordOrderAbsent(v, windowExhausted) ==
    {[v EXCEPT !.state =
        CASE v.venueOrderId # None \/ v.executed > 0 -> "MANUAL_REVIEW"
          [] v.venueOrderId = None /\ v.executed = 0 /\ windowExhausted
                -> "NOT_FOUND_SAFE"
          [] OTHER -> "UNKNOWN"]}

RequestCancel(v) ==
    Move(v, {"ACKNOWLEDGED", "PARTIALLY_FILLED"}, "CANCEL_REQUESTED")

Escalate(v) == {[v EXCEPT !.state = "MANUAL_REVIEW"]}

DecideOpen(v, c) ==
    CASE c.type = "CONFIRM_INTENT" -> ConfirmIntent(v)
      [] c.type = "BEGIN_SUBMISSION" -> BeginSubmission(v)
      [] c.type = "RECORD_ACKNOWLEDGEMENT" ->
            RecordAcknowledgement(v, c.observation)
      [] c.type = "RECORD_AMBIGUOUS_SUBMISSION" -> RecordAmbiguous(v)
      [] c.type = "RECORD_REJECTION" -> RecordRejection(v)
      [] c.type = "BEGIN_RECONCILIATION" -> BeginReconciliation(v)
      [] c.type = "RECORD_ORDER_OBSERVATION" ->
            RecordOrderObservation(v, c.observation)
      [] c.type = "RECORD_ORDER_ABSENT" ->
            RecordOrderAbsent(v, c.windowExhausted)
      [] c.type = "RECORD_RECONCILIATION_UNAVAILABLE" ->
            ReconciliationUnavailable(v)
      [] c.type = "RECORD_ACCOUNT_OBSERVATION" -> {v}
      [] c.type = "REQUEST_CANCEL" -> RequestCancel(v)
      [] c.type = "ESCALATE_MANUAL_REVIEW" -> Escalate(v)

\* Nothing but a repeated observation, or a balance reading, is accepted once
\* an operation is settled.
DecideSettled(v, c) ==
    CASE c.type = "RECORD_ACCOUNT_OBSERVATION" -> {v}
      [] c.type = "RECORD_ORDER_OBSERVATION" ->
            ReobserveTerminal(v, c.observation)
      [] OTHER -> {}

\* The terminal branch forgotten.
DecideUnguarded(v, c) == DecideOpen(v, c)

Decide(v, c) == IF v.state \in Terminal THEN DecideSettled(v, c)
                                        ELSE DecideOpen(v, c)

-----------------------------------------------------------------------------
(* The one change of a row that does not go through decide: the UPDATE of  *)
(* the loop that resumes unresolved operations after a restart.            *)

\* A restart that puts the interrupted submission back in line to be sent.
DemotedToApproved(row) == [row EXCEPT !.state = "APPROVED"]

\* The UPDATE names no state: whatever the row has become meanwhile, it is
\* now UNKNOWN.
Demoted(row) == [row EXCEPT !.state = "UNKNOWN"]

-----------------------------------------------------------------------------
(* What the console is told about a state. *)

RetryBlocked ==
    {"SUBMITTING", "UNKNOWN", "RECONCILING", "ACKNOWLEDGED",
     "PARTIALLY_FILLED", "FILLED", "CANCEL_REQUESTED", "MANUAL_REVIEW"}

AllowedActions(s) ==
         (IF s \in {"DRAFT", "AWAITING_CONFIRMATION"}
          THEN {"CONFIRM"} ELSE {})
    \cup (IF s = "APPROVED" THEN {"EXECUTE"} ELSE {})
    \cup (IF s \in {"UNKNOWN", "ACKNOWLEDGED", "PARTIALLY_FILLED",
                    "CANCEL_REQUESTED", "MANUAL_REVIEW"}
          THEN {"RECONCILE"} ELSE {})
    \cup (IF s \in {"UNKNOWN", "ACKNOWLEDGED", "PARTIALLY_FILLED"}
          THEN {"ESCALATE"} ELSE {})
    \cup (IF s \in {"ACKNOWLEDGED", "PARTIALLY_FILLED"}
          THEN {"REQUEST_CANCEL"} ELSE {})
=============================================================================

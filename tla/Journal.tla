------------------------------- MODULE Journal -------------------------------
(***************************************************************************)
(* The durable journal of packages/journal: the operations table and the   *)
(* reconciliation queue in one SQLite file, and the calls its clients make *)
(* on it.  Every action is one write transaction (BEGIN IMMEDIATE, or a    *)
(* single auto-committed statement), which is the grain at which several   *)
(* processes on one file interleave.                                       *)
(*                                                                         *)
(* Journal alone is the most general client: anyone may send any command   *)
(* to any operation at any time.  RescueService.tla is the client the      *)
(* repository has.                                                         *)
(*                                                                         *)
(* Bound: a job's attempt counter saturates at MinAttempts, the only value *)
(* it is ever compared with.  When a queued job falls due is left open.    *)
(***************************************************************************)
EXTENDS OrderMachine, FiniteSets

CONSTANTS
    Op,           \* the operations in the journal
    Proc,         \* the processes that have the file open
    MinAttempts   \* config.absenceMinAttempts

ASSUME JournalAssumption == /\ MinAttempts \in Nat \ {0}
                            /\ None \notin Op

VARIABLES
    ops,       \* the operations table
    jobs,      \* the reconciliation_jobs table
    resuming   \* per process, what is left of its startup resume loop

journalVars == <<ops, jobs, resuming>>

-----------------------------------------------------------------------------
JobStatus == {"PENDING", "RUNNING", "SETTLED", "GAVE_UP"}

\* An operation without a row in reconciliation_jobs has status "NONE".
Job == [status : JobStatus \cup {"NONE"}, attempts : 0 .. MinAttempts]

NoJob == [status |-> "NONE", attempts |-> 0]

\* "demote" and "enqueue": the row was read by the startup SELECT and those
\* steps are still due; "demoted": its UPDATE is done, its enqueue is next.
ResumeStep == {"no", "demote", "demoted", "enqueue"}

NotResuming == [o \in Op |-> "no"]

\* The type invariant: rows, jobs and the resume loop stay well formed.
JournalTypeOK ==
    /\ ops \in [Op -> Row]
    /\ jobs \in [Op -> Job]
    /\ resuming \in [Proc -> [Op -> ResumeStep]]

JournalInit ==
    /\ ops = [o \in Op |-> NewRow]
    /\ jobs = [o \in Op |-> NoJob]
    /\ resuming = [p \in Proc |-> NotResuming]

-----------------------------------------------------------------------------
(* Commands. *)

AtMost(a, b) == IF a < b THEN a ELSE b

\* operations.venue_order_id is UNIQUE.
UniqueVenueId(o, row) ==
    row.venueOrderId # None =>
        \A q \in Op \ {o} : ops[q].venueOrderId # row.venueOrderId

\* The rows command c may leave for o: none when decide throws or when the
\* UPDATE fails the UNIQUE constraint; the transaction is then rolled back.
Applied(o, c) == {row \in Decide(ops[o], c) : UniqueVenueId(o, row)}

ApplyCommand(o, c) ==
    /\ \E row \in Applied(o, c) : ops' = [ops EXCEPT ![o] = row]
    /\ UNCHANGED <<jobs, resuming>>

-----------------------------------------------------------------------------
(* The reconciliation queue. *)

\* INSERT ... ON CONFLICT: an existing job keeps its attempts, and its status
\* too unless that was final.
EnqueuedJob(j) ==
    IF j.status \in {"NONE", "SETTLED", "GAVE_UP"}
    THEN [j EXCEPT !.status = "PENDING"]
    ELSE j

EnqueueReconciliation(o) ==
    /\ jobs' = [jobs EXCEPT ![o] = EnqueuedJob(@)]
    /\ UNCHANGED <<ops, resuming>>

ClaimDueReconciliation(o) ==
    /\ jobs[o].status = "PENDING"
    /\ jobs' = [jobs EXCEPT ![o] =
                  [status |-> "RUNNING",
                   attempts |-> AtMost(@.attempts + 1, MinAttempts)]]
    /\ UNCHANGED <<ops, resuming>>

\* A plain UPDATE: it does nothing when the operation has no job.
ReleasedJob(j, outcome) ==
    IF j.status = "NONE" THEN j ELSE [j EXCEPT !.status = outcome]

ReleaseReconciliation(o, outcome) ==
    /\ jobs' = [jobs EXCEPT ![o] = ReleasedJob(@, outcome)]
    /\ UNCHANGED <<ops, resuming>>

-----------------------------------------------------------------------------
(* resumeUnresolvedOperations: one SELECT outside any transaction, then    *)
(* two transactions per row that was read.                                 *)

\* Settled operations swept up with the unresolved ones.
ResumeFromSettledToo(s) ==
    CASE s \in {"SUBMITTING", "RECONCILING", "NOT_FOUND_SAFE"} -> "demote"
      [] s \in {"UNKNOWN", "CANCEL_REQUESTED"} -> "enqueue"
      [] OTHER -> "no"

ResumeFrom(s) ==
    CASE s \in {"SUBMITTING", "RECONCILING"} -> "demote"
      [] s \in {"UNKNOWN", "CANCEL_REQUESTED"} -> "enqueue"
      [] OTHER -> "no"

ResumeScan(p) ==
    /\ resuming[p] = NotResuming
    /\ resuming' = [resuming EXCEPT
                      ![p] = [o \in Op |-> ResumeFrom(ops[o].state)]]
    /\ UNCHANGED <<ops, jobs>>

\* The loop finishes one row before it starts the next.
BetweenRows(p) == \A o \in Op : resuming[p][o] # "demoted"

ResumeDemote(p, o) ==
    /\ resuming[p][o] = "demote"
    /\ BetweenRows(p)
    /\ ops' = [ops EXCEPT ![o] = Demoted(@)]
    /\ resuming' = [resuming EXCEPT ![p][o] = "demoted"]
    /\ UNCHANGED jobs

ResumeEnqueue(p, o) ==
    /\ \/ resuming[p][o] = "demoted"
       \/ resuming[p][o] = "enqueue" /\ BetweenRows(p)
    /\ jobs' = [jobs EXCEPT ![o] = EnqueuedJob(@)]
    /\ resuming' = [resuming EXCEPT ![p][o] = "no"]
    /\ UNCHANGED ops

\* The process dies in the middle of its loop.
Disconnect(p) ==
    /\ resuming[p] # NotResuming
    /\ resuming' = [resuming EXCEPT ![p] = NotResuming]
    /\ UNCHANGED <<ops, jobs>>

-----------------------------------------------------------------------------
JournalNext ==
    \/ \E o \in Op :
         \/ \E c \in Command : ApplyCommand(o, c)
         \/ EnqueueReconciliation(o)
         \/ ClaimDueReconciliation(o)
         \/ \E outcome \in {"PENDING", "SETTLED", "GAVE_UP"} :
              ReleaseReconciliation(o, outcome)
    \/ \E p \in Proc :
         \/ ResumeScan(p)
         \/ \E o \in Op : ResumeDemote(p, o) \/ ResumeEnqueue(p, o)
         \/ Disconnect(p)

JournalSpec == JournalInit /\ [][JournalNext]_journalVars

-----------------------------------------------------------------------------
(* What the journal promises whoever its clients are. *)

\* An operation is authorised for dispatch at most once in its life, through
\* any interleaving of commands, retries, queue calls and restarts
\* (beginSubmission, resumeUnresolvedOperations).
SingleSubmission == \A o \in Op : ops[o].submits <= 1

\* An operation settled as absent carries no venue order id and no fill, and
\* an operation still before its dispatch carries neither
\* (recordOrderAbsent, recordOrderObservation).
AbsenceCarriesNoTrace ==
    \A o \in Op :
        ops[o].state \in {"AWAITING_CONFIRMATION", "APPROVED", "SUBMITTING",
                          "NOT_FOUND_SAFE"}
            => ops[o].venueOrderId = None /\ ops[o].executed = 0

\* No step may unbind or rebind a venue order id, or take back an executed
\* quantity, once recorded: neither an acknowledgement, nor a contradictory
\* observation, nor a restart (detectContradiction, persistDecision).
EvidenceNeverShrinks ==
    [][\A o \in Op :
         /\ ops[o].venueOrderId # None
               => ops'[o].venueOrderId = ops[o].venueOrderId
         /\ ops'[o].executed >= ops[o].executed]_journalVars

\* What the console offers for an operation is what decide accepts for it, a
\* query is offered whenever it would be accepted, and no state that may have
\* an economic effect at the venue lets a submission through (allowedActions,
\* retryBlockReason and decide are three separate tables).
OfferedActionsAccepted ==
    \A o \in Op :
        LET offered == AllowedActions(ops[o].state)
            accepted(t) == Decide(ops[o], [type |-> t]) # {}
        IN /\ "CONFIRM" \in offered <=> accepted("CONFIRM_INTENT")
           /\ "EXECUTE" \in offered <=> accepted("BEGIN_SUBMISSION")
           /\ "RECONCILE" \in offered <=> accepted("BEGIN_RECONCILIATION")
           /\ "REQUEST_CANCEL" \in offered <=> accepted("REQUEST_CANCEL")
           /\ "ESCALATE" \in offered => accepted("ESCALATE_MANUAL_REVIEW")
           /\ ops[o].state \in MayHaveEconomicEffect =>
                /\ ops[o].state \in RetryBlocked
                /\ ~accepted("BEGIN_SUBMISSION")

\* The only step that moves a settled operation is the resume loop of a
\* starting process acting on what it read before (terminal branch of decide).
SettledUnlessResumed ==
    [][\A o \in Op :
         ops[o].state \in Terminal /\ ops'[o] # ops[o]
             => \E p \in Proc : /\ resuming[p][o] = "demote"
                                /\ resuming'[p][o] = "demoted"]_journalVars
=============================================================================
